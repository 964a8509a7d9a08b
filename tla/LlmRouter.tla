------------------------------ MODULE LlmRouter -----------------------------
(* Routing of completions over LLM providers with circuit breakers:         *)
(* agnostic-ai-platform/app/llm/router.py.  A request tries the providers   *)
(* of its chain in turn; the answer of one is awaited, so requests overlap  *)
(* and the results of old calls reach a breaker that has opened since.      *)
EXTENDS Integers, Sequences, FiniteSets

CONSTANTS
    Requests,
    Providers,
    Chains,         \* the chains of the routing strategies
    Threshold,      \* failures that open a breaker
    Recovery,       \* ticks an open breaker rests
    MaxTime,        \* bound: last tick of the clock
    MaxResults      \* bound: results recorded

\* failure_threshold of a breaker and its recovery_timeout (router.py:67-70).
RouterAssumption ==
    /\ Chains \subseteq Seq(Providers)
    /\ Threshold \in Nat \ {0}
    /\ Recovery \in Nat

VARIABLES
    time,
    breaker,    \* circuit_breakers: failures and last_failure_time
    request,    \* each request: its chain, and where it is in it
    results     \* results of each provider, newest last (no field of the code)

llmVars == <<time, breaker, request, results>>

NotSent == [at |-> "none", chain |-> <<>>, node |-> 1, stream |-> FALSE]

Init == /\ time = 0
        /\ breaker = [p \in Providers |-> [failures |-> 0, last |-> 0]]
        /\ request = [r \in Requests |-> NotSent]
        /\ results = [p \in Providers |-> <<>>]

Tick == time < MaxTime /\ time' = time + 1 /\ UNCHANGED <<breaker, request, results>>

(* ---- CircuitBreaker --------------------------------------------------- *)
Open(p) == breaker[p].failures >= Threshold /\ time - breaker[p].last <= Recovery

\* is_open of a rested breaker leaves it one failure short of open.
Asked_Reset(p) == IF breaker[p].failures >= Threshold /\ ~Open(p)
                  THEN [breaker EXCEPT ![p].failures = 0] ELSE breaker
Asked(p) == IF breaker[p].failures >= Threshold /\ ~Open(p)
            THEN [breaker EXCEPT ![p].failures = Threshold - 1] ELSE breaker

(* ---- route_request ---------------------------------------------------- *)
\* An unknown strategy is read as cost_optimized, so a chain is always found.
RouteRequest(r, chain, stream) ==
    /\ request[r] = NotSent
    /\ request' = [request EXCEPT ![r] = [at |-> "next", chain |-> chain, node |-> 1,
                                          stream |-> stream]]
    /\ UNCHANGED <<time, breaker, results>>

Provider(r) == request[r].chain[request[r].node]
More(r) == request[r].at = "next" /\ request[r].node <= Len(request[r].chain)
Onwards(r) == [request EXCEPT ![r].at = "next", ![r].node = @ + 1]

SkipOpen(r) ==
    /\ More(r) /\ Open(Provider(r))
    /\ request' = Onwards(r)
    /\ UNCHANGED <<time, breaker, results>>

Complete(r) ==
    /\ More(r) /\ ~Open(Provider(r))
    /\ breaker' = Asked(Provider(r))
    /\ request' = [request EXCEPT ![r].at = "waits"]
    /\ UNCHANGED <<time, results>>

Recorded(p, ok) == /\ Len(results[p]) < MaxResults
                   /\ results' = [results EXCEPT ![p] = Append(@, [ok |-> ok, time |-> time])]

Answered(r) ==
    /\ request[r].at = "waits"
    /\ Recorded(Provider(r), TRUE)
    /\ breaker' = [breaker EXCEPT ![Provider(r)].failures = 0]
    /\ request' = [request EXCEPT ![r].at = "answered"]
    /\ UNCHANGED time

ProviderFails(r) ==
    /\ request[r].at = "waits"
    /\ Recorded(Provider(r), FALSE)
    /\ breaker' = [breaker EXCEPT ![Provider(r)] = [failures |-> @.failures + 1, last |-> time]]
    \* A stream has been handed out already: it ends with an error frame.
    /\ request' = IF request[r].stream THEN [request EXCEPT ![r].at = "answered"]
                  ELSE Onwards(r)
    /\ UNCHANGED time

\* The client of a stream leaves: the generator is closed, nothing recorded.
StreamCut(r) ==
    /\ request[r].at = "waits" /\ request[r].stream
    /\ request' = [request EXCEPT ![r].at = "answered"]
    /\ UNCHANGED <<time, breaker, results>>

\* 503: every provider of the chain failed or rested.
Exhausted(r) ==
    /\ request[r].at = "next" /\ request[r].node > Len(request[r].chain)
    /\ request' = [request EXCEPT ![r].at = "exhausted"]
    /\ UNCHANGED <<time, breaker, results>>

Next == \/ Tick
        \/ \E r \in Requests : \/ \E c \in Chains, s \in BOOLEAN : RouteRequest(r, c, s)
                               \/ StreamCut(r) \/ SkipOpen(r) \/ Complete(r) \/ Answered(r)
                               \/ ProviderFails(r) \/ Exhausted(r)

Spec == Init /\ [][Next]_llmVars

TypeOK ==
    /\ time \in 0 .. MaxTime
    /\ \A p \in Providers : breaker[p].failures \in Nat /\ breaker[p].last \in 0 .. time
    /\ \A r \in Requests : request[r].at \in {"none", "next", "waits", "answered", "exhausted"}

Sent(r) == request[r].at = "next" /\ request'[r].at = "waits"

(* A provider whose last Threshold results were failures, the latest within *)
(* the recovery time, is sent nothing -- whichever requests the results     *)
(* came from, and although a probe that fails is only one failure           *)
(* (router.py:82-97).                                                       *)
KeepsFailing(p) ==
    LET n == Len(results[p]) IN
      /\ n >= Threshold
      /\ \A i \in n - Threshold + 1 .. n : ~results[p][i].ok
      /\ time - results[p][n].time <= Recovery
BreakersHold ==
    [][\A r \in Requests : Sent(r) => ~KeepsFailing(Provider(r))]_llmVars
=============================================================================
