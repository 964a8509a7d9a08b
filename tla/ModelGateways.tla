---------------------------- MODULE ModelGateways ----------------------------
(* Three ways to a language model: the proxy of the control plane with its   *)
(* quota, cache and keys (llm_gateway/service.py); the AI platform's proxy   *)
(* over a row of providers and the meter every request passes (backend/app/  *)
(* routers/llm.py, metrics.py); and its fallback over a chain of models with *)
(* its counters (routers/llm_router.py, token_tracker.py).  Requests overlap *)
(* wherever one waits for a provider.                                       *)
EXTENDS Integers, Sequences, FiniteSetsExt, Functions

CONSTANTS
    MaxCalls,       \* bound: calls of the gateway's routes
    Consumers,      \* values of x-aop-consumer
    Bodies,         \* what calls ask for; ModelList is what list_models asks
    ModelList,
    FullBody,       \* body |-> the same with the default model filled in
    NKeys,          \* upstream_keys
    Quota, Minute,  \* quota_per_minute, and the ticks of a minute
    Ttl,            \* cache_ttl_s
    MaxTick,        \* bound: last tick of the clock
    Proxied,        \* requests to /llm/chat/...
    NProviders,     \* PROVIDERS
    NChunks,        \* chunks of a provider's whole stream
    Completions,    \* requests to LLMRouter
    ChainOf,        \* completion |-> its chain of resolved models
    ReportedAs,     \* model |-> the name in the provider's response
    Tokens          \* what the usage of a response may say

VARIABLES
    tick,
    quota,      \* _quota_windows
    cache,      \* _cache
    key_index,  \* _key_index
    gcall,      \* the calls
    received,   \* answers received: whose body, when given, when received (history)
    proxied,    \* the requests of the AI platform's proxy
    meter,      \* the counters of PrometheusMiddleware
    completion, \* the requests of LLMRouter
    callbacks,  \* LiteLLM's callbacks that have not run yet
    counted,    \* the counters of token_tracker and LLM_FALLBACK_TOTAL
    used        \* tokens of the answered completions (history)

gatewayVars == <<tick, quota, cache, key_index, gcall, received>>
proxyVars == <<proxied, meter>>
completionVars == <<completion, callbacks, counted, used>>

Models == UNION {Range(ChainOf[r]) : r \in Completions}
Labels == Models \cup {ReportedAs[m] : m \in Models}
Call(at, who, body, key, given) ==
    [at |-> at, who |-> who, body |-> body, key |-> key, given |-> given, begun |-> tick]
NotAsked == [at |-> "idle", stream |-> FALSE, provider |-> 1, chunks |-> <<>>]

Init == /\ tick = 0
        /\ quota = [w \in Consumers |-> <<>>]
        /\ cache = <<>> /\ key_index = 0 /\ received = {}
        /\ gcall = <<>>
        /\ proxied = [q \in Proxied |-> NotAsked]
        /\ meter = [active |-> 0, total |-> 0, errors |-> 0]
        /\ completion = [r \in Completions |-> [at |-> "idle", index |-> 1]]
        /\ callbacks = {} /\ used = 0
        /\ counted = [success |-> 0, failure |-> 0, tokens |-> [m \in Labels |-> 0],
                      fallback |-> [e \in Models \X Models |-> 0]]

-----------------------------------------------------------------------------
(* The gateway of the control plane.                                       *)

Tick == /\ tick < MaxTick /\ tick' = tick + 1
        /\ UNCHANGED <<quota, cache, key_index, gcall, received, proxyVars, completionVars>>

Within(s) == SelectSeq(s, LAMBDA t : tick - t < Minute)

\* Mutant: an entry is good for one more tick.
Live_Late(body) == body \in DOMAIN cache /\ tick <= cache[body].expires
Live(body) == body \in DOMAIN cache /\ tick < cache[body].expires
Without(body) == [b \in DOMAIN cache \ {body} |-> cache[b]]

\* The rest of a call once it is admitted: the cached answer, or a request.
LookUp(who, body) ==
    IF Live(body)
    THEN /\ gcall' = Append(gcall, Call("cached", who, body, NKeys, cache[body].given))
         /\ UNCHANGED <<cache, key_index>>
    ELSE /\ gcall' = Append(gcall, Call("sent", who, body, key_index % NKeys, 0))
         /\ cache' = Without(body)
         /\ key_index' = key_index + 1

\* The quota counts a call before it looks at the cache.
ChatCompletions(w, body) ==
    LET kept == Within(quota[w]) IN
      /\ Len(gcall) < MaxCalls
      /\ IF Len(kept) >= Quota
         THEN /\ quota' = [quota EXCEPT ![w] = kept]
              /\ gcall' = Append(gcall, Call("refused", w, body, NKeys, 0))
              /\ UNCHANGED <<cache, key_index>>
         ELSE /\ quota' = [quota EXCEPT ![w] = Append(kept, tick)]
              /\ LookUp(w, FullBody[body])
      /\ UNCHANGED <<tick, received, proxyVars, completionVars>>
ListModels == /\ Len(gcall) < MaxCalls /\ LookUp("none", ModelList)
              /\ UNCHANGED <<tick, quota, received, proxyVars, completionVars>>

\* The provider gives its answer, which takes its time back.
Upstream(c) ==
    /\ gcall[c].at = "sent"
    /\ gcall' = [gcall EXCEPT ![c].at = "answered", ![c].given = tick]
    /\ UNCHANGED <<tick, quota, cache, key_index, received, proxyVars, completionVars>>
UpstreamFails(c) ==
    /\ gcall[c].at \in {"sent", "answered"}
    /\ gcall' = [gcall EXCEPT ![c].at = "failed"]
    /\ UNCHANGED <<tick, quota, cache, key_index, received, proxyVars, completionVars>>

\* Whoever receives last has its answer kept, also one that was given first.
Receive(c) ==
    LET body == gcall[c].body IN
      /\ gcall[c].at = "answered"
      /\ cache' = [b \in DOMAIN cache \cup {body} |->
                     IF b = body THEN [given |-> gcall[c].given, expires |-> tick + Ttl] ELSE cache[b]]
      /\ received' = received \cup {[body |-> body, given |-> gcall[c].given, at |-> tick]}
      /\ gcall' = [gcall EXCEPT ![c].at = "served"]
      /\ UNCHANGED <<tick, quota, key_index, proxyVars, completionVars>>

-----------------------------------------------------------------------------
(* The proxy of the AI platform, behind the meter.                          *)

Counts(error) == [active |-> meter.active - 1, total |-> meter.total + 1,
                  errors |-> meter.errors + IF error THEN 1 ELSE 0]

\* The response to a stream starts before any provider is asked.
Asked(q, stream) ==
    /\ proxied[q].at = "idle"
    /\ proxied' = [proxied EXCEPT ![q].at = IF stream THEN "opened" ELSE "waits", ![q].stream = stream]
    /\ meter' = [meter EXCEPT !.active = @ + 1]
    /\ UNCHANGED <<gatewayVars, completionVars>>
StreamStarts(q) ==
    /\ proxied[q].at = "opened"
    /\ proxied' = [proxied EXCEPT ![q].at = "waits"]
    /\ meter' = Counts(FALSE)
    /\ UNCHANGED <<gatewayVars, completionVars>>

\* Any answer that is not 429 or 5xx, a 4xx too, is passed on as a success.
Answered(q) ==
    /\ proxied[q].at = "waits" /\ ~proxied[q].stream
    /\ proxied' = [proxied EXCEPT ![q].at = "done"]
    /\ meter' = Counts(FALSE)
    /\ UNCHANGED <<gatewayVars, completionVars>>

Chunk(q) ==
    /\ proxied[q].at = "waits" /\ proxied[q].stream
    /\ LET chunks == Append(proxied[q].chunks, proxied[q].provider)
           whole == Cardinality({i \in DOMAIN chunks : chunks[i] = proxied[q].provider}) = NChunks
       IN proxied' = [proxied EXCEPT ![q].chunks = chunks, ![q].at = IF whole THEN "done" ELSE "waits"]
    /\ UNCHANGED <<meter, gatewayVars, completionVars>>

\* Mutant: a request that fails is not taken out of the gauge.
Exhausted_Active(q) == IF proxied[q].stream THEN meter
                       ELSE [meter EXCEPT !.total = @ + 1, !.errors = @ + 1]
Exhausted(q) == IF proxied[q].stream THEN meter ELSE Counts(TRUE)

\* 429, 5xx or a connection that breaks, in the middle of a stream too.
NextProvider(q) ==
    /\ proxied[q].at = "waits"
    /\ IF proxied[q].provider < NProviders
       THEN /\ proxied' = [proxied EXCEPT ![q].provider = @ + 1]
            /\ UNCHANGED meter
       ELSE /\ proxied' = [proxied EXCEPT ![q].at = "exhausted"]
            /\ meter' = Exhausted(q)
    /\ UNCHANGED <<gatewayVars, completionVars>>

\* The client of a stream leaves: the generator is closed.
ClientLeaves(q) ==
    /\ proxied[q].at = "waits" /\ proxied[q].stream
    /\ proxied' = [proxied EXCEPT ![q].at = "left"]
    /\ UNCHANGED <<meter, gatewayVars, completionVars>>

-----------------------------------------------------------------------------
(* The chain of models and the counters.                                    *)

Model(r) == ChainOf[r][completion[r].index]

Complete(r) ==
    /\ completion[r].at = "idle"
    /\ completion' = [completion EXCEPT ![r].at = "waits"]
    /\ UNCHANGED <<callbacks, counted, used, gatewayVars, proxyVars>>

WithUsage(model, n) == [counted EXCEPT !.success = @ + 1, !.tokens[model] = @ + n]

\* The usage is recorded under the name that was asked for; LiteLLM's callback
\* will record it again, under the name in the response.
ToResponse(r, n) ==
    /\ completion[r].at = "waits"
    /\ completion' = [completion EXCEPT ![r].at = "answered"]
    /\ counted' = WithUsage(Model(r), n)
    /\ callbacks' = callbacks \cup {[ok |-> TRUE, of |-> r, index |-> completion[r].index, tokens |-> n]}
    /\ used' = used + n
    /\ UNCHANGED <<gatewayVars, proxyVars>>

Failed(r) == callbacks' = callbacks \cup {[ok |-> FALSE, of |-> r, index |-> completion[r].index, tokens |-> 0]}

\* Mutant: the transition is counted from the model that was asked first.
Transition_FromPrimary(r) == <<ChainOf[r][1], ChainOf[r][completion[r].index + 1]>>
Transition(r) == <<Model(r), ChainOf[r][completion[r].index + 1]>>

\* Timeout, rate limit, unavailable, no connection: on to the next model.
Retryable(r) ==
    /\ completion[r].at = "waits" /\ Failed(r)
    /\ IF completion[r].index < Len(ChainOf[r])
       THEN /\ completion' = [completion EXCEPT ![r].index = @ + 1]
            /\ counted' = [counted EXCEPT !.fallback[Transition(r)] = @ + 1]
       ELSE /\ completion' = [completion EXCEPT ![r].at = "exhausted"]
            /\ UNCHANGED counted
    /\ UNCHANGED <<used, gatewayVars, proxyVars>>
Propagates(r) ==
    /\ completion[r].at = "waits" /\ Failed(r)
    /\ completion' = [completion EXCEPT ![r].at = "error"]
    /\ UNCHANGED <<counted, used, gatewayVars, proxyVars>>

SuccessCallback(e) ==
    /\ e \in callbacks /\ e.ok /\ callbacks' = callbacks \ {e}
    /\ counted' = WithUsage(ReportedAs[ChainOf[e.of][e.index]], e.tokens)
    /\ UNCHANGED <<completion, used, gatewayVars, proxyVars>>
FailureCallback(e) ==
    /\ e \in callbacks /\ ~e.ok /\ callbacks' = callbacks \ {e}
    /\ counted' = [counted EXCEPT !.failure = @ + 1]
    /\ UNCHANGED <<completion, used, gatewayVars, proxyVars>>

GatewayNext ==
    \/ Tick
    \/ \E w \in Consumers, b \in Bodies : ChatCompletions(w, b)
    \/ ListModels
    \/ \E c \in DOMAIN gcall : Upstream(c) \/ UpstreamFails(c) \/ Receive(c)
ProxyNext ==
    \E q \in Proxied : \/ \E s \in BOOLEAN : Asked(q, s)
                       \/ StreamStarts(q) \/ Answered(q) \/ Chunk(q) \/ NextProvider(q) \/ ClientLeaves(q)
CompletionsNext ==
    \/ \E r \in Completions : \/ Complete(r) \/ Retryable(r) \/ Propagates(r)
                              \/ \E n \in Tokens : ToResponse(r, n)
    \/ \E e \in callbacks : SuccessCallback(e) \/ FailureCallback(e)

-----------------------------------------------------------------------------
TypeOK ==
    /\ key_index \in 0 .. Len(gcall)
    /\ \A c \in DOMAIN gcall : gcall[c].at \in {"refused", "cached", "sent", "answered", "failed", "served"}
    /\ \A q \in Proxied : proxied[q].at \in {"idle", "opened", "waits", "done", "exhausted", "left"}
    /\ meter.active \in 0 .. Cardinality(Proxied) /\ meter.errors <= meter.total
    /\ \A r \in Completions : completion[r].at \in {"idle", "waits", "answered", "exhausted", "error"}

(* A consumer is refused only when Quota of its calls were admitted in the  *)
(* last minute, and never gets more than that into one (service.py:137).    *)
Admitted(w, t) == {c \in DOMAIN gcall : /\ gcall[c].who = w /\ gcall[c].at # "refused"
                                         /\ gcall[c].begun \in t - Minute + 1 .. t}
QuotaExact == \A w \in Consumers :
    /\ \A t \in 0 .. tick : Cardinality(Admitted(w, t)) <= Quota
    /\ \A c \in DOMAIN gcall : gcall[c].at = "refused" /\ gcall[c].who = w
                          => Cardinality(Admitted(w, gcall[c].begun)) = Quota

(* An answer from the cache is the upstream's to the same body, received    *)
(* less than the cache's lifetime ago, and the keys are used in turn, so    *)
(* that none is ever used twice more than another (service.py:71-160).      *)
WithKey(k) == {c \in DOMAIN gcall : gcall[c].key = k}
CacheTells ==
    /\ \A c \in DOMAIN gcall : gcall[c].at = "cached" =>
         \E a \in received : /\ a.body = gcall[c].body /\ a.given = gcall[c].given
                             /\ a.at <= gcall[c].begun /\ gcall[c].begun - a.at < Ttl
    /\ \A k, l \in 0 .. NKeys - 1 : Cardinality(WithKey(k)) - Cardinality(WithKey(l)) <= 1

(* A stream that ends well ends with the whole answer of one provider, after *)
(* whatever parts those before it had sent; and the meter's gauge counts the *)
(* requests without a response, its errors those that no provider answered,  *)
(* streams excepted (routers/llm.py:78-144, metrics.py:86-120).             *)
By(q, p) == {i \in DOMAIN proxied[q].chunks : proxied[q].chunks[i] = p}
StreamsTell == \A q \in Proxied :
    /\ \A i, j \in DOMAIN proxied[q].chunks : i < j => proxied[q].chunks[i] <= proxied[q].chunks[j]
    /\ \A p \in 1 .. NProviders :
         Cardinality(By(q, p)) = NChunks <=> proxied[q].stream /\ proxied[q].at = "done" /\ proxied[q].provider = p
InFlight == {q \in Proxied : proxied[q].at = "opened" \/ (proxied[q].at = "waits" /\ ~proxied[q].stream)}
MeterTells ==
    /\ meter.active = Cardinality(InFlight)
    /\ meter.total + meter.active = Cardinality({q \in Proxied : proxied[q].at # "idle"})
    /\ meter.errors = Cardinality({q \in Proxied : proxied[q].at = "exhausted" /\ ~proxied[q].stream})

(* Once the callbacks have run, every token of an answer is counted twice,  *)
(* every failed attempt once; and every fallback is counted on its edge of  *)
(* the chain (routers/llm_router.py:165-260, token_tracker.py:145-195).     *)
Tried(r) == IF completion[r].at = "idle" THEN 0 ELSE completion[r].index
UsageTells ==
    /\ callbacks = {} =>
         /\ MapThenSumSet(LAMBDA m : counted.tokens[m], Labels) = 2 * used
         /\ counted.success = 2 * Cardinality({r \in Completions : completion[r].at = "answered"})
         /\ counted.failure = MapThenSumSet(LAMBDA r : Tried(r), Completions)
                                - Cardinality({r \in Completions : completion[r].at \in {"waits", "answered"}})
    /\ \A e \in Models \X Models : counted.fallback[e] =
         Cardinality({a \in Completions \X (1 .. 3) :
                        a[2] < Tried(a[1]) /\ e = <<ChainOf[a[1]][a[2]], ChainOf[a[1]][a[2] + 1]>>})
=============================================================================
