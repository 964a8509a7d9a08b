----------------------------- MODULE RateLimits -----------------------------
(* The three rate limiters of the system: the request filter of the control *)
(* plane (app/security.py), its limiter over a Redis sorted set              *)
(* (app/rate_limiting/limiter.py) and the token buckets of the AI platform   *)
(* (backend/app/rate_limiter.py, tenant_isolation.py).  Requests of the      *)
(* first and of the last are judged in one step (the lock is never           *)
(* contended); the second stamps a request, sends a pipeline, and takes a    *)
(* refused stamp out again with a call of its own.                           *)
EXTENDS Integers, Sequences, FiniteSetsExt, Functions

CONSTANTS
    Clients,        \* client keys, credentials
    Rpm,            \* credential |-> its rate_limit_rpm
    Tpm,            \* credential |-> its rate_limit_tpm
    TenantFactor,   \* what the tenant may do of one credential's rate (10 in the code)
    Calls,          \* requests that the Redis limiter judges
    FilterLimit,    \* rate_limit_requests of the filter
    Limit,          \* default_limit of the Redis limiter
    Window,         \* the window of both
    Minute,         \* ticks of a minute: the buckets hold tokens in parts of it
    MaxInstant      \* bound: last tick of the clock

VARIABLES
    instant,    \* the clock
    hits,       \* SecurityMiddleware._hits
    let,        \* instants at which the filter let a client through
    turned,     \* instants at which it did not
    call,       \* calls of the Redis limiter: state and stamp
    zset,       \* the sorted set of the key
    touched,    \* when its expiry was last set
    bucket,     \* RateLimitStore._store
    drawn,      \* bucket |-> instants at which a token was drawn
    denied      \* instants at which a credential's own bucket was empty

filterVars == <<hits, let, turned>>
redisVars == <<call, zset, touched>>
bucketVars == <<bucket, drawn, denied>>

Init == /\ instant = 0
        /\ hits = [c \in Clients |-> <<>>]
        /\ let = [c \in Clients |-> <<>>]
        /\ turned = [c \in Clients |-> {}]
        /\ call = [r \in Calls |-> [at |-> "idle", stamp |-> 0, order |-> 0, late |-> FALSE]]
        /\ zset = {}
        /\ touched = 0
        /\ bucket = <<>>
        /\ drawn = <<>>
        /\ denied = [c \in Clients |-> {}]

\* The expiry of the key takes a set that no call has touched for a window.
Tick == /\ instant < MaxInstant
        /\ instant' = instant + 1
        /\ zset' = IF instant' - touched >= Window THEN {} ELSE zset
        /\ UNCHANGED <<filterVars, call, touched, bucketVars>>

-----------------------------------------------------------------------------
(* The request filter: a deque of instants per client.                     *)

Recent_Inclusive(s) == SelectSeq(s, LAMBDA t : t > instant - Window + 1)
Recent(s) == SelectSeq(s, LAMBDA t : t > instant - Window)

Filter(c) ==
    LET kept == Recent(hits[c]) IN
      /\ IF Len(kept) >= FilterLimit
         THEN /\ hits' = [hits EXCEPT ![c] = kept]
              /\ turned' = [turned EXCEPT ![c] = @ \cup {instant}]
              /\ UNCHANGED let
         ELSE /\ hits' = [hits EXCEPT ![c] = Append(kept, instant)]
              /\ let' = [let EXCEPT ![c] = Append(@, instant)]
              /\ UNCHANGED turned
      /\ UNCHANGED <<instant, redisVars, bucketVars>>

-----------------------------------------------------------------------------
(* The Redis limiter: every call adds its stamp before it is judged.       *)

\* order and late (no fields of the code): how many calls were judged before,
\* and whether the set expired between this call's stamp and its pipeline.
Judged == {r \in Calls : call[r].at \notin {"idle", "stamped", "failed"}}

Stamp(r) ==
    /\ call[r].at = "idle"
    /\ call' = [call EXCEPT ![r] = [at |-> "stamped", stamp |-> instant, order |-> 0, late |-> FALSE]]
    /\ UNCHANGED <<instant, filterVars, zset, touched, bucketVars>>

\* The pipeline runs as one transaction: prune, count, add, set the expiry.
\* A member is the text of its stamp: equal stamps are one member.  Its answer
\* may be lost: the request fails and the stamp stays.
Pipeline(r) ==
    LET stamp == call[r].stamp
        kept == {m \in zset : m > stamp - Window}
    IN /\ call[r].at = "stamped"
       /\ zset' = kept \cup {stamp}
       /\ touched' = instant
       /\ \E at \in {IF Cardinality(kept) >= Limit THEN "over" ELSE "allowed", "lost"} :
            call' = [call EXCEPT ![r].at = at,
                                 ![r].order = Cardinality(Judged),
                                 ![r].late = stamp < touched + Window /\ touched + Window <= instant]
       /\ UNCHANGED <<instant, filterVars, bucketVars>>

\* Mutant: the stamp of a refused request stays.
Revert_Stays(r) ==
    /\ call[r].at = "over"
    /\ call' = [call EXCEPT ![r].at = "refused"]
    /\ UNCHANGED <<instant, filterVars, zset, touched, bucketVars>>
Revert(r) ==
    /\ call[r].at = "over"
    /\ zset' = zset \ {call[r].stamp}
    /\ call' = [call EXCEPT ![r].at = "refused"]
    /\ UNCHANGED <<instant, filterVars, touched, bucketVars>>

\* The connection is lost before the pipeline, which then leaves nothing, or
\* before the removal: the stamp stays.
Lost(r) ==
    /\ call[r].at \in {"stamped", "over"}
    /\ call' = [call EXCEPT ![r].at = IF @ = "stamped" THEN "failed" ELSE "lost"]
    /\ UNCHANGED <<instant, filterVars, zset, touched, bucketVars>>

-----------------------------------------------------------------------------
(* The token buckets.  A token is Minute parts, a limit of n refills n parts *)
(* a tick.  The tenant's bucket takes the rate of whoever calls.            *)

Own(c) == <<"RPM", c>>
Shared == <<"RPM", "tenant">>
Spend(c) == <<"TPM", c>>
Stages(c) == <<[key |-> Own(c), limit |-> Rpm[c]],
               [key |-> Shared, limit |-> Rpm[c] * TenantFactor],
               [key |-> Spend(c), limit |-> Tpm[c]]>>

Seen(stage) == IF stage.key \in DOMAIN bucket THEN bucket[stage.key]
               ELSE [tokens |-> stage.limit * Minute, updated |-> instant]
\* Mutant: the refill has no ceiling.
Tokens_Unbounded(stage) ==
    Seen(stage).tokens + (instant - Seen(stage).updated) * stage.limit
Tokens(stage) ==
    Min({stage.limit * Minute, Seen(stage).tokens + (instant - Seen(stage).updated) * stage.limit})
Enough(stage) == Tokens(stage) >= Minute

\* The first stage without a token refuses; the tokens of the n before it are
\* not given back.
CheckRateLimits(c) == \E n \in 0 .. 3 :
    LET asked == {i \in 1 .. 3 : i <= n + 1}
        keys(m) == {Stages(c)[i].key : i \in {j \in asked : j <= m}}
        stage(key) == Stages(c)[CHOOSE i \in asked : Stages(c)[i].key = key]
    IN /\ \A i \in asked : Enough(Stages(c)[i]) <=> i <= n
       /\ bucket' = [k \in DOMAIN bucket \cup keys(n + 1) |->
                       IF k \in keys(n) THEN [tokens |-> Tokens(stage(k)) - Minute, updated |-> instant]
                       ELSE IF k \in keys(n + 1) THEN Seen(stage(k)) ELSE bucket[k]]
       /\ drawn' = [k \in DOMAIN drawn \cup keys(n) |->
                      LET log == IF k \in DOMAIN drawn THEN drawn[k] ELSE <<>> IN
                        IF k \in keys(n) THEN Append(log, instant) ELSE log]
       /\ denied' = IF n = 0 THEN [denied EXCEPT ![c] = @ \cup {instant}] ELSE denied
       /\ UNCHANGED <<instant, filterVars, redisVars>>

FilterNext == Tick \/ \E c \in Clients : Filter(c)
RedisNext == Tick \/ \E r \in Calls : Stamp(r) \/ Pipeline(r) \/ Revert(r) \/ Lost(r)
BucketNext == Tick \/ \E c \in Clients : CheckRateLimits(c)

-----------------------------------------------------------------------------
TypeOK ==
    /\ instant \in 0 .. MaxInstant /\ touched \in 0 .. instant /\ zset \subseteq 0 .. instant
    /\ \A c \in Clients : Len(hits[c]) <= FilterLimit /\ denied[c] \subseteq 0 .. instant
    /\ \A r \in Calls : call[r].at \in {"idle", "stamped", "over", "allowed", "refused", "lost", "failed"}
    /\ \A k \in DOMAIN bucket : bucket[k].tokens \in Nat /\ bucket[k].updated <= instant

(* The filter lets a client through at most FilterLimit times in any window *)
(* and refuses only when it has (security.py:130-150).                      *)
LetIn(c, t) == {i \in DOMAIN let[c] : let[c][i] \in t - Window + 1 .. t}
FilterExact == \A c \in Clients :
    /\ \A t \in 0 .. instant : Cardinality(LetIn(c, t)) <= FilterLimit
    /\ \A t \in turned[c] : Cardinality(LetIn(c, t)) = FilterLimit

(* The sorted set holds the stamps of the calls that were let through and   *)
(* of those about to be taken out or whose connection was lost              *)
(* (limiter.py:18-63), as long as no two carry one stamp and none is judged *)
(* after a later one; then no window has more than Limit of the former.     *)
InTurn == \A r \in Judged :
    /\ ~call[r].late
    /\ \A s \in Judged : call[r].order < call[s].order => call[r].stamp < call[s].stamp
Fresh(t) == t > instant - Window
SetExact ==
    InTurn =>
      /\ {m \in zset : Fresh(m)} =
           {call[r].stamp : r \in {s \in Calls : call[s].at \in {"allowed", "over", "lost"} /\ Fresh(call[s].stamp)}}
      /\ \A t \in 0 .. instant :
           Cardinality({r \in Calls : call[r].at = "allowed" /\ call[r].stamp \in t - Window + 1 .. t}) <= Limit

(* A bucket gives, over any stretch of time, its capacity and what refills  *)
(* in that time and no more, whoever shares it; a credential is refused by  *)
(* its own bucket only when one more would exceed that (rate_limiter.py:45).*)
RateOf(k) == IF k = Shared THEN TenantFactor * Max({Rpm[c] : c \in Clients})
             ELSE IF k[1] = "RPM" THEN Rpm[k[2]] ELSE Tpm[k[2]]
Allowance(rate, from, to) == rate * (Minute + to - from)
BucketsExact ==
    /\ \A k \in DOMAIN drawn : LET rate == RateOf(k)  log == drawn[k] IN
         \A i \in DOMAIN log : \A j \in i .. Len(log) :
           (j - i + 1) * Minute <= Allowance(rate, log[i], log[j])
    /\ \A c \in Clients : Own(c) \in DOMAIN drawn => \A t \in denied[c] :
         LET log == SelectSeq(drawn[Own(c)], LAMBDA d : d <= t) IN
           \E i \in DOMAIN log : (Len(log) - i + 2) * Minute > Allowance(Rpm[c], log[i], t)

=============================================================================
