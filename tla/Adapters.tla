------------------------------- MODULE Adapters -------------------------------
(* The adapters at the edge of the system: those of the model providers     *)
(* (provider, invoked), the client of Herdr's socket (panes, waits, sends,  *)
(* typed), and the one that reads an agent's state off its terminal         *)
(* (screen, tasking, snapshot).                                             *)
EXTENDS Naturals, Sequences, FiniteSets, SequencesExt, TLC

CONSTANTS
    Configs,        \* configurations handed to a provider's adapter, by name
    ConfigOf,       \* of each: [fails, overrides, default, deployments]
    Invocations,    \* calls of the providers' adapters
    MaxInits,       \* bound: initializations
    Agents, Waits, WaitOn,  \* agents, calls that wait for an agent to be idle, and for which one
    Sends,          \* calls that type into a pane
    MaxChanges,     \* bound: changes of an agent's state
    Patterns,       \* patterns in the order tried: [kind, rank, own, state]
    Lines,          \* lines of a terminal, each the set of the patterns that match
    MaxLines,       \* lines of an output that are parsed
    MaxScreen,      \* bound: lines fed since a reset, and lines of an output
    Tasks           \* tasks sent through the adapter

VARIABLES provider, invoked, inits, panes, changes_left, waits, sends, typed, screen, tasking, snapshot

providerVars == <<provider, invoked, inits>>
herdrVars == <<panes, changes_left, waits, sends, typed>>
screenVars == <<screen, tasking, snapshot>>

-----------------------------------------------------------------------------
(* Providers.  A configuration may be refused before the client is made     *)
(* ("early") or after ("late"); a client is named after its configuration.  *)

Kinds == {"google", "azure"}
None == "none"
NoProvider == [client |-> None, flag |-> FALSE, config |-> None, prices |-> << >>,
               deployments |-> None, default |-> None, accepted |-> None, torn |-> FALSE]
NotInvoked == [at |-> "idle", of |-> None, client |-> None, whole |-> FALSE, basis |-> None, error |-> None]
UnchangedRest == UNCHANGED <<herdrVars, screenVars>>

\* Google's price overrides are merged into those there are, one model after the other;
\* Azure's deployments replace those there are, its default only if a new one is given.
Overridden(prices, c, k) == [m \in {ConfigOf[c].overrides[j] : j \in 1 .. k} |-> c] @@ prices
Configured(p, c) ==
    IF p = "google"
    THEN [provider[p] EXCEPT !.prices = Overridden(@, c, Len(ConfigOf[c].overrides))]
    ELSE [provider[p] EXCEPT !.deployments = c,
                             !.default = IF ConfigOf[c].default = None THEN @ ELSE c]
\* A call under way notices that the adapter was given another configuration.
Crossed(p) == [k \in Invocations |-> IF invoked[k].of = p /\ invoked[k].at = "waits"
                                     THEN [invoked[k] EXCEPT !.whole = FALSE] ELSE invoked[k]]

\* Mutant of Initialize: the configuration is marked as in use before it is checked.
Initialize_MarksFirst(p, c) ==
    /\ inits < MaxInits /\ inits' = inits + 1
    /\ provider' = [provider EXCEPT ![p] =
           IF ConfigOf[c].fails = "no"
           THEN [Configured(p, c) EXCEPT !.client = c, !.flag = TRUE, !.config = c, !.accepted = c, !.torn = FALSE]
           ELSE [@ EXCEPT !.flag = TRUE, !.config = c]]
    /\ invoked' = IF ConfigOf[c].fails = "early" THEN invoked ELSE Crossed(p)
    /\ UnchangedRest
\* The last two fields tell what was accepted, and whether a refused configuration left its client.
Initialize(p, c) ==
    /\ inits < MaxInits /\ inits' = inits + 1
    /\ \/ /\ ConfigOf[c].fails = "no"
          /\ provider' = [provider EXCEPT ![p] =
                 [Configured(p, c) EXCEPT !.client = c, !.flag = TRUE, !.config = c,
                                          !.accepted = c, !.torn = FALSE]]
       \/ /\ ConfigOf[c].fails = "late"
          /\ \E k \in 0 .. Len(ConfigOf[c].overrides) :
               provider' = [provider EXCEPT ![p] =
                   [provider[p] EXCEPT !.client = c, !.torn = TRUE,
                                       !.prices = IF p = "google" THEN Overridden(@, c, k) ELSE @]]
       \/ ConfigOf[c].fails = "early" /\ UNCHANGED provider
    /\ invoked' = IF ConfigOf[c].fails = "early" THEN invoked ELSE Crossed(p)
    /\ UnchangedRest

\* A call names a model (for Azure the deployment), or none and then the adapter's own.
ResolveDeployment(p, m) ==
    IF m # None THEN m
    ELSE IF provider[p].default # None THEN ConfigOf[provider[p].default].default
    ELSE IF provider[p].deployments # None /\ ConfigOf[provider[p].deployments].deployments # <<>>
         THEN ConfigOf[provider[p].deployments].deployments[1]
    ELSE None
Ready(p) == provider[p].flag /\ provider[p].client # None
Invoke(k) ==
    /\ invoked[k].at = "idle"
    /\ \E p \in Kinds, m \in {None, "m"} :
         LET model == IF p = "google" THEN m ELSE ResolveDeployment(p, m)
         IN  invoked' = [invoked EXCEPT ![k] =
                 IF ~Ready(p) THEN [@ EXCEPT !.at = "refused", !.of = p, !.error = "uninitialized"]
                 ELSE IF model = None THEN [@ EXCEPT !.at = "refused", !.of = p, !.error = "model"]
                 ELSE [@ EXCEPT !.at = "waits", !.of = p, !.client = provider[p].client,
                                !.whole = ~provider[p].torn]]
    /\ UNCHANGED <<provider, inits>> /\ UnchangedRest
\* What the answer costs is taken from the prices there are when it arrives.
Basis(p) == IF p = "azure" THEN provider[p].deployments
            ELSE IF "m" \in DOMAIN provider[p].prices THEN provider[p].prices["m"] ELSE "bundled"
Answer(k) ==
    /\ invoked[k].at = "waits"
    /\ invoked' = [invoked EXCEPT ![k] = [@ EXCEPT !.at = "done", !.basis = Basis(invoked[k].of)]]
    /\ UNCHANGED <<provider, inits>> /\ UnchangedRest
TranslateError(p, error) ==
    CASE error = "not found" -> "value"
      [] error = "auth" -> "permission"
      [] error = "connection" -> IF p = "azure" THEN "connection" ELSE "provider's own"
      [] error = "bad request" -> IF p = "azure" THEN "value" ELSE "provider's own"
      [] OTHER -> "provider's own"
Fail(k) ==
    /\ invoked[k].at = "waits"
    /\ \E e \in {"not found", "auth", "connection", "bad request", "other"} :
         invoked' = [invoked EXCEPT ![k] = [@ EXCEPT !.at = "failed", !.error = TranslateError(invoked[k].of, e)]]
    /\ UNCHANGED <<provider, inits>> /\ UnchangedRest

\* The verdict of a health check on what the probe of the client brought.
HasDeployment == provider["azure"].default # None \/
    (provider["azure"].deployments # None /\ ConfigOf[provider["azure"].deployments].deployments # <<>>)
Verdict(p, probe) ==
    IF ~Ready(p) THEN "UNKNOWN" ELSE
    CASE probe = "ok" -> "HEALTHY"
      [] p = "azure" /\ probe = "not found" -> IF HasDeployment THEN "HEALTHY" ELSE "UNKNOWN"
      [] probe \in {"auth", "connection"} -> "UNREACHABLE"
      [] OTHER -> "DEGRADED"
HealthCheck(k) ==
    /\ invoked[k].at = "idle"
    /\ \E p \in Kinds, probe \in {"ok", "not found", "auth", "connection", "bad request", "other"} :
         invoked' = [invoked EXCEPT ![k] =
             [@ EXCEPT !.at = "checked", !.of = p, !.client = provider[p].client, !.whole = ~provider[p].torn,
                       !.error = Verdict(p, probe)]]
    /\ UNCHANGED <<provider, inits>> /\ UnchangedRest

-----------------------------------------------------------------------------
(* Herdr's socket.  A wait for an idle agent first looks at the list and, if *)
(* the agent is not idle in it, subscribes to its changes on a connection of *)
(* its own.  `was' and `gap' tell whether the agent has been idle since the  *)
(* call, and whether it changed between the list and the subscription.       *)

AgentStates == {"idle", "working", "unknown"}
NotWaiting == [at |-> "new", queue |-> 0, was |-> FALSE, gap |-> FALSE]
NotSent == [at |-> "new", attempts |-> 0]
ConnectAttempts == 4
UnchangedHerdrRest == UNCHANGED <<providerVars, screenVars>>

\* What a change of an agent does to a wait for it.
Noticed(w, a, s) ==
    IF WaitOn[w] # a \/ waits[w].at \notin {"called", "connecting", "subscribed"} THEN waits[w]
    ELSE [waits[w] EXCEPT !.was = @ \/ s = "idle",
                          !.gap = @ \/ waits[w].at = "connecting",
                          !.queue = IF waits[w].at = "subscribed" /\ s = "idle" THEN @ + 1 ELSE @]
Change(a) ==
    /\ changes_left > 0 /\ changes_left' = changes_left - 1
    /\ \E s \in AgentStates \ {panes[a]} :
         /\ panes' = [panes EXCEPT ![a] = s]
         /\ waits' = [w \in Waits |-> Noticed(w, a, s)]
    /\ UNCHANGED <<sends, typed>> /\ UnchangedHerdrRest
StartWait(w) ==
    /\ waits[w].at = "new"
    /\ waits' = [waits EXCEPT ![w] = [NotWaiting EXCEPT !.at = "called", !.was = panes[WaitOn[w]] = "idle"]]
    /\ UNCHANGED <<panes, changes_left, sends, typed>> /\ UnchangedHerdrRest
\* Mutant of Listed: the list is asked only which pane the agent has.
Listed_SubscribesAlways(w) ==
    /\ waits[w].at = "called"
    /\ \E at \in {"connecting", "error"} : waits' = [waits EXCEPT ![w].at = at]
    /\ UNCHANGED <<panes, changes_left, sends, typed>> /\ UnchangedHerdrRest
Listed(w) ==
    /\ waits[w].at = "called"
    /\ \/ waits' = [waits EXCEPT ![w].at = IF panes[WaitOn[w]] = "idle" THEN "true" ELSE "connecting"]
       \/ waits' = [waits EXCEPT ![w].at = "error"]
    /\ UNCHANGED <<panes, changes_left, sends, typed>> /\ UnchangedHerdrRest
Subscribe(w) ==
    /\ waits[w].at = "connecting"
    /\ \E at \in {"subscribed", "error"} : waits' = [waits EXCEPT ![w].at = at]
    /\ UNCHANGED <<panes, changes_left, sends, typed>> /\ UnchangedHerdrRest
\* An event that matches ends the wait; silence, or the end of the stream, fails it.
Event(w) ==
    /\ waits[w].at = "subscribed"
    /\ \/ waits[w].queue > 0 /\ waits' = [waits EXCEPT ![w].at = "true"]
       \/ waits' = [waits EXCEPT ![w].at = "error"]
    /\ UNCHANGED <<panes, changes_left, sends, typed>> /\ UnchangedHerdrRest

\* A request connects, retries only that, sends its line and reads one answer.
Request(s) ==
    /\ sends[s].at = "new"
    /\ \/ sends' = [sends EXCEPT ![s].at = "connected"]
       \/ sends' = [sends EXCEPT ![s] = [at |-> IF @.attempts + 1 < ConnectAttempts THEN "new" ELSE "refused",
                                         attempts |-> @.attempts + 1]]
    /\ UNCHANGED <<panes, changes_left, waits, typed>> /\ UnchangedHerdrRest
\* The line is written whole, or the writing fails; Herdr may type all the same what it got.
Send(s) ==
    /\ sends[s].at = "connected"
    /\ \/ /\ sends' = [sends EXCEPT ![s].at = "sent"]
          /\ \E n \in {0, 1} : typed' = [typed EXCEPT ![s] = @ + n]
       \/ sends' = [sends EXCEPT ![s].at = "error"] /\ UNCHANGED typed
    /\ UNCHANGED <<panes, changes_left, waits>> /\ UnchangedHerdrRest
\* Mutant of ReadResponse: a request that was not answered is made again.
ReadResponse_AsksAgain(s) ==
    /\ sends[s].at = "sent"
    /\ \/ typed[s] > 0 /\ sends' = [sends EXCEPT ![s].at = "ok"]
       \/ sends' = [sends EXCEPT ![s] = [at |-> IF @.attempts + 1 < ConnectAttempts THEN "new" ELSE "error",
                                         attempts |-> @.attempts + 1]]
    /\ UNCHANGED <<panes, changes_left, waits, typed>> /\ UnchangedHerdrRest
\* Herdr confirms what it typed; a late, foreign, broken or failing answer is an error.
ReadResponse(s) ==
    /\ sends[s].at = "sent"
    /\ \/ typed[s] > 0 /\ sends' = [sends EXCEPT ![s].at = "ok"]
       \/ sends' = [sends EXCEPT ![s].at = "error"]
    /\ UNCHANGED <<panes, changes_left, waits, typed>> /\ UnchangedHerdrRest

-----------------------------------------------------------------------------
(* The screen.  A signal is a pattern that matched, of a kind and a          *)
(* confidence; a pattern of the agent's life also names a state.             *)

Low == 1
NoScreen == [lines |-> <<>>, offset |-> 1, signals |-> <<>>]
NoSnapshot == [of |-> None, lines |-> <<>>, state |-> "unknown"]
Outputs == UNION {[1 .. n -> Lines] : n \in 0 .. MaxScreen}
UnchangedScreenRest == UNCHANGED <<providerVars, herdrVars>>

\* One signal of a kind in a line: that of the first pattern, unless a later one is surer.
Matched(found, i) ==
    LET same == {j \in DOMAIN found : Patterns[found[j]].kind = Patterns[i].kind}
    IN  IF same = {} THEN Append(found, i)
        ELSE [j \in DOMAIN found |->
                 IF j \in same /\ Patterns[i].rank > Patterns[found[j]].rank THEN i ELSE found[j]]
\* Mutant of MatchLine: the last pattern of a kind is kept.
MatchLine_LastWins(line) ==
    LET keep(found, i) == Append(SelectSeq(found, LAMBDA j : Patterns[j].kind # Patterns[i].kind), i)
        found == FoldLeft(keep, <<>>, SetToSortSeq(line, <))
    IN  SelectSeq(found, LAMBDA i : Patterns[i].rank > Low)
MatchLine(line) ==
    SelectSeq(FoldLeft(Matched, <<>>, SetToSortSeq(line, <)), LAMBDA i : Patterns[i].rank > Low)

\* The signals of lines, each with the number of its line, the first one's being start.
ParseIncremental(lines, start) ==
    FlattenSeq([n \in 1 .. Len(lines) |->
        LET found == MatchLine(lines[n])
        IN  [j \in 1 .. Len(found) |-> [line |-> start + n - 1, pattern |-> found[j]]]])
Parse(lines) == ParseIncremental(SubSeq(lines, 1, IF Len(lines) > MaxLines THEN MaxLines ELSE Len(lines)), 1)
ExtractState(signals) ==
    LET lifecycle == SelectSeq(signals, LAMBDA s : Patterns[s.pattern].state # None)
    IN  IF lifecycle = <<>> THEN "unknown" ELSE Patterns[Last(lifecycle).pattern].state

\* Mutant of FeedLines: the lines of every chunk are counted from the first.
FeedLines_FromOne(chunk) ==
    /\ Len(screen.lines) + Len(chunk) <= MaxScreen
    /\ screen' = [screen EXCEPT !.lines = @ \o chunk, !.signals = @ \o ParseIncremental(chunk, 1)]
    /\ UNCHANGED <<tasking, snapshot>> /\ UnchangedScreenRest
FeedLines(chunk) ==
    /\ Len(screen.lines) + Len(chunk) <= MaxScreen
    /\ screen' = [screen EXCEPT !.lines = @ \o chunk, !.offset = @ + Len(chunk),
                                !.signals = @ \o ParseIncremental(chunk, screen.offset)]
    /\ UNCHANGED <<tasking, snapshot>> /\ UnchangedScreenRest
ResetAccumulator ==
    /\ screen' = NoScreen /\ snapshot' = NoSnapshot
    /\ UNCHANGED tasking /\ UnchangedScreenRest

SendTask(t) ==
    /\ tasking[t] = "new" /\ tasking' = [tasking EXCEPT ![t] = "sent"]
    /\ UNCHANGED <<screen, snapshot>> /\ UnchangedScreenRest
\* An answer, or the text of the exception, is parsed; an empty answer leaves the snapshot.
TaskEnds(t, output, raised) ==
    /\ tasking[t] = "sent" /\ tasking' = [tasking EXCEPT ![t] = "ended"]
    /\ snapshot' = IF output = <<>> /\ ~raised THEN snapshot
                   ELSE [of |-> t, lines |-> output, state |-> ExtractState(Parse(output))]
    /\ UNCHANGED screen /\ UnchangedScreenRest

-----------------------------------------------------------------------------
Init ==
    /\ provider = [p \in Kinds |-> NoProvider]
    /\ invoked = [k \in Invocations |-> NotInvoked]
    /\ inits = 0
    /\ panes \in [Agents -> AgentStates]
    /\ changes_left = MaxChanges
    /\ waits = [w \in Waits |-> NotWaiting]
    /\ sends = [s \in Sends |-> NotSent]
    /\ typed = [s \in Sends |-> 0]
    /\ screen = NoScreen
    /\ tasking = [t \in Tasks |-> "new"]
    /\ snapshot = NoSnapshot

ProviderNext ==
    \/ \E p \in Kinds, c \in Configs : Initialize(p, c)
    \/ \E k \in Invocations : Invoke(k) \/ Answer(k) \/ Fail(k) \/ HealthCheck(k)
HerdrNext ==
    \/ \E a \in Agents : Change(a)
    \/ \E w \in Waits : StartWait(w) \/ Listed(w) \/ Subscribe(w) \/ Event(w)
    \/ \E s \in Sends : Request(s) \/ Send(s) \/ ReadResponse(s)
ScreenNext ==
    \/ \E chunk \in Outputs : FeedLines(chunk)
    \/ ResetAccumulator
    \/ \E t \in Tasks : SendTask(t) \/ \E output \in Outputs, raised \in BOOLEAN : TaskEnds(t, output, raised)
Next == ProviderNext \/ HerdrNext \/ ScreenNext
vars == <<providerVars, herdrVars, screenVars>>
Spec == Init /\ [][Next]_vars

-----------------------------------------------------------------------------
\* The variables have their types.
TypeOK ==
    /\ \A p \in Kinds : {provider[p].client, provider[p].config, provider[p].deployments,
                         provider[p].default, provider[p].accepted} \subseteq Configs \cup {None}
    /\ \A k \in Invocations : invoked[k].at \in {"idle", "waits", "done", "failed", "refused", "checked"}
    /\ panes \in [Agents -> AgentStates] /\ changes_left \in 0 .. MaxChanges
    /\ \A w \in Waits : waits[w].at \in {"new", "called", "connecting", "subscribed", "true", "error"}
    /\ \A s \in Sends : sends[s].at \in {"new", "connected", "sent", "ok", "error", "refused"}
    /\ typed \in [Sends -> 0 .. ConnectAttempts]
    /\ screen.lines \in Outputs
    /\ tasking \in [Tasks -> {"new", "sent", "ended"}]

\* An adapter is ready exactly when a configuration was accepted, and unless a
\* later one was refused after its client had been made, the client, the models
\* and the prices are all that configuration's: what such a call costs is told by
\* the configuration its client is of (google_adapter.py, azure_adapter.py).
ProvidersTell ==
    /\ \A p \in Kinds : LET a == provider[p] IN
         /\ a.flag <=> a.accepted # None
         /\ a.flag /\ ~a.torn =>
              /\ a.client = a.accepted /\ a.config = a.accepted
              /\ p = "azure" => a.deployments = a.accepted
              /\ p = "google" => \A m \in ToSet(ConfigOf[a.accepted].overrides) : a.prices[m] = a.accepted
    /\ \A k \in Invocations : LET i == invoked[k] IN
         /\ i.at = "done" /\ i.whole =>
              IF i.of = "azure" THEN i.basis = i.client
              ELSE "m" \in ToSet(ConfigOf[i.client].overrides) => i.basis = i.client
         /\ i.at = "checked" /\ i.error = "HEALTHY" => i.client # None

\* A wait that succeeds saw the agent idle since it began, and one that is still
\* waiting for an agent that is idle missed it only because the agent changed
\* between the list and the subscription (adapter.py:89-115).
WaitsTell == \A w \in Waits :
    /\ waits[w].at = "true" => waits[w].was
    /\ waits[w].at = "subscribed" /\ waits[w].queue = 0 /\ panes[WaitOn[w]] = "idle" => waits[w].gap

\* A call types its text at most once, has typed it when it returns, and has not
\* when no connection was made: only connecting is tried again (adapter.py:190-216).
SendsTell == \A s \in Sends :
    /\ typed[s] <= 1
    /\ sends[s].at = "ok" => typed[s] = 1
    /\ sends[s].at \in {"new", "connected", "refused"} => typed[s] = 0

\* The signals told of the lines fed are those of all these lines read at once, one
\* of each kind in a line and the surest, and the state told of the last output is
\* that of the last line of it that speaks of one (scrape_parser.py, scrape_adapter.py).
Surest(line, i) ==
    /\ i \in line /\ Patterns[i].rank > Low
    /\ \A j \in line : Patterns[j].kind = Patterns[i].kind =>
         Patterns[j].rank < Patterns[i].rank \/ (Patterns[j].rank = Patterns[i].rank /\ j >= i)
SpeaksOf(line) == {i \in line : Surest(line, i) /\ Patterns[i].state # None}
ScreensTell ==
    /\ LET told == screen.signals IN
         /\ ToSet(told) = {s \in [line : 1 .. Len(screen.lines), pattern : 1 .. Len(Patterns)] :
                              Surest(screen.lines[s.line], s.pattern)}
         /\ \A m, n \in 1 .. Len(told) : m < n => told[m].line <= told[n].line /\ told[m] # told[n]
    /\ LET read == {n \in 1 .. Len(snapshot.lines) : n <= MaxLines /\ SpeaksOf(snapshot.lines[n]) # {}}
       IN  IF read = {} THEN snapshot.state = "unknown"
           ELSE \E n \in read : /\ \A m \in read : m <= n
                                /\ \E i \in SpeaksOf(snapshot.lines[n]) : snapshot.state = Patterns[i].state
===============================================================================
