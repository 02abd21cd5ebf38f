----------------------------- MODULE MCGateway ------------------------------
(***************************************************************************)
(* What a request meets in the gateway, one component at a time: the       *)
(* components share no state, and each is checked in all its own           *)
(* behaviours.  The modules say how they follow each other in the code.    *)
(***************************************************************************)
EXTENDS Naturals, FiniteSets

CONSTANTS
    Threads, Ids, Principals, Admins, MaxConcurrent, PerMinute, Window,
    MaxTime, MaxCalls, Callers, Providers, Uncapped, Budgets, NoBudget,
    MaxCost, MaxMonth, MaxSpent, MaxChanges, MaxPieces, MaxCallbacks, MaxText,
    MaxChunk, Requests, Hosts, Loads, ProbeTtl, Cooldown, MaxCooldown,
    MaxHostTime, NoProbe, Nowhere, MaxPrompt, MaxAnswer, Contexts, Limits,
    Keeps, ModelWindow, MaxRunTime

\* Some thread, id and principal exists, and the limits of a key are numbers.
ASSUME LifecycleAssumption ==
    /\ IsFiniteSet(Threads)
    /\ Ids # {} /\ Principals # {}
    /\ MaxConcurrent \in Nat /\ PerMinute \in Nat
    /\ Window \in Nat /\ MaxTime \in Nat

\* Providers are numbered; some budget that may be configured is positive, and
\* one of them is the largest.
ASSUME BudgetAssumption ==
    /\ IsFiniteSet(Callers)
    /\ IsFiniteSet(Providers) /\ Providers \subseteq Nat
    /\ Budgets \subseteq Nat
    /\ \E b \in Budgets : b > 0 /\ \A a \in Budgets : a <= b
    /\ MaxCost \in Nat
    /\ MaxMonth \in Nat \ {0}

\* Hosts are numbered, and so is their work.
ASSUME HostAssumption ==
    /\ IsFiniteSet(Requests)
    /\ IsFiniteSet(Hosts) /\ Hosts \subseteq Nat /\ Nowhere \notin Hosts
    /\ Loads \subseteq Nat
    /\ MaxHostTime \in Nat

ASSUME DeliveryAssumption == MaxPieces \in Nat

\* Limits of tokens and times are numbers.
ASSUME GenerationAssumption ==
    /\ MaxPrompt \in Nat /\ MaxAnswer \in Nat /\ ModelWindow \in Nat
    /\ Contexts \subseteq Nat /\ Limits \subseteq Nat /\ Keeps \subseteq Nat
    /\ MaxRunTime \in Nat

VARIABLES
    part,  \* the component that moves in this behaviour
    \* RequestLifecycle
    thread, call, status, active, requests, operations, cancelledBy, totals,
    traces, clock, calls, admitted, latest,
    \* ProviderBudget
    configs, secrets, spent, month, changes, caller, callerLegs, queue, cost,
    paid,
    \* ChatDelivery
    handler, endpoint, stream, exact, legs, rows, sources, started, streamed,
    content, rewritten, remembered, cacheEntry, alive, lost,
    \* StreamBlocks
    api, blocks, log, callbacks, phase,
    \* ToolTextStream
    fed, emitted, pending, space, initial, deferredJson, inTool, searchFrom,
    busy,
    \* HostPool
    probe, failures, cooldownUntil, reserved, attempt, method, now, todo,
    found, attempted, host, hostRows, hostClock,
    \* GenerationRun
    shape, asked, stage, prompt, allowed, answer, passed, cancelled, late,
    outcome, counted, runClock, times, result

RL == INSTANCE RequestLifecycle WITH
          pc <- thread
PB == INSTANCE ProviderBudget WITH
          pc <- caller, legs <- callerLegs
CD == INSTANCE ChatDelivery WITH
          pc <- handler
SB == INSTANCE StreamBlocks
TT == INSTANCE ToolTextStream
HP == INSTANCE HostPool WITH
          pc <- attempt, rows <- hostRows, clock <- hostClock,
          MaxTime <- MaxHostTime
GR == INSTANCE GenerationRun WITH
          pc <- stage, call <- asked, clock <- runClock,
          Window <- ModelWindow, MaxTime <- MaxRunTime

lifecycleVars ==
    <<thread, call, status, active, requests, operations, cancelledBy, totals,
      traces, clock, calls, admitted, latest>>
budgetVars ==
    <<configs, secrets, spent, month, changes, caller, callerLegs, queue,
      cost, paid>>
deliveryVars ==
    <<handler, endpoint, stream, exact, legs, rows, sources, started,
      streamed, content, rewritten, remembered, cacheEntry, alive, lost>>
blocksVars ==
    <<api, blocks, log, callbacks, phase>>
tooltextVars ==
    <<fed, emitted, pending, space, initial, deferredJson, inTool, searchFrom,
      busy>>
hostsVars ==
    <<probe, failures, cooldownUntil, reserved, attempt, method, now, todo,
      found, attempted, host, hostRows, hostClock>>
generationVars ==
    <<shape, asked, stage, prompt, allowed, answer, passed, cancelled, late,
      outcome, counted, runClock, times, result>>

Parts == {"lifecycle", "budget", "delivery", "blocks", "tooltext", "hosts",
          "generation"}

Init ==
    /\ part \in Parts
    /\ RL!Init
    /\ PB!Init
    /\ CD!Init
    /\ SB!Init
    /\ TT!Init
    /\ HP!Init
    /\ GR!Init
    /\ part # "blocks" => api = "messages"

\* Only the chosen component moves.
Only(p) == part = p /\ UNCHANGED part

Next ==
    \/ /\ Only("lifecycle") /\ RL!Next
       /\ UNCHANGED <<budgetVars, deliveryVars, blocksVars, tooltextVars,
                       hostsVars, generationVars>>
    \/ /\ Only("budget") /\ PB!Next
       /\ UNCHANGED <<lifecycleVars, deliveryVars, blocksVars, tooltextVars,
                       hostsVars, generationVars>>
    \/ /\ Only("delivery") /\ CD!Next
       /\ UNCHANGED <<lifecycleVars, budgetVars, blocksVars, tooltextVars,
                       hostsVars, generationVars>>
    \/ /\ Only("blocks") /\ SB!Next
       /\ UNCHANGED <<lifecycleVars, budgetVars, deliveryVars, tooltextVars,
                       hostsVars, generationVars>>
    \/ /\ Only("tooltext") /\ TT!Next
       /\ UNCHANGED <<lifecycleVars, budgetVars, deliveryVars, blocksVars,
                       hostsVars, generationVars>>
    \/ /\ Only("hosts") /\ HP!Next
       /\ UNCHANGED <<lifecycleVars, budgetVars, deliveryVars, blocksVars,
                       tooltextVars, generationVars>>
    \/ /\ Only("generation") /\ GR!Next
       /\ UNCHANGED <<lifecycleVars, budgetVars, deliveryVars, blocksVars,
                       tooltextVars, hostsVars>>

vars == <<part, lifecycleVars, budgetVars, deliveryVars, blocksVars,
                tooltextVars, hostsVars, generationVars>>

Spec == Init /\ [][Next]_vars

-----------------------------------------------------------------------------
\* Every admitted request occupies one slot of its key and, while it runs, one id
\* of the registry; both are given back however it ends, and the totals agree with
\* the traces (TeamAdmissionController, OperationRegistry).
\* A cancel reaches only the operation it was meant for (OperationRegistry.cancel).
RequestsAreAccounted ==
    [][part = "lifecycle" => /\ (RL!TypeOK /\ RL!LimitsHold /\ RL!RegistryIsExact)'
                             /\ RL!CancelStaysWithOwner]_RL!vars

\* A budget is overrun by at most the answers under way, and a request pays once
\* (ProviderStore.chat, route_with_fallback).
SpendingIsBounded ==
    part = "budget" => PB!TypeOK /\ PB!OverrunBounded /\ PB!PaidOnce

\* A request has one answer from one source, and what is cached and remembered is
\* what was answered (the chat handlers, do_POST).
OneAnswer ==
    part = "delivery" => CD!TypeOK /\ CD!OneAnswer /\ CD!StoresFollowAnswer

\* What is generated fits the window and ends soon after it is cancelled, and its reason
\* and times are true (RuntimeManager.chat, generate).
GenerationIsTrue ==
    part = "generation" => /\ GR!TypeOK /\ GR!ContextFits /\ GR!CancelIsNoticed
                           /\ GR!ReasonIsTrue /\ GR!TimesAddUp

\* What is generated is passed on as it is (RuntimeManager.chat, generate); the blocks of
\* a stream are well formed and their text does not depend on how the model's text was
\* cut (handle_anthropic_message, handle_openai_response, ToolAwareTextStream).
StreamsAreWellFormed ==
    /\ part = "generation" => GR!StreamFollowsAnswer
    /\ part = "blocks" => SB!TypeOK /\ SB!PartsAreWellFormed
    /\ part = "tooltext" => TT!TypeOK /\ TT!ChunksDoNotMatter

\* A request goes to each host at most once, never after a row, and leaves no
\* reservation; a host that others wait for is not chosen over an idle one
\* (MachBoostHostPool).
FailoverIsClean ==
    [][part = "hosts" => /\ (HP!TypeOK /\ HP!FailoverIsClean)'
                         /\ HP!IdleHostsAreUsed]_HP!hvars

=============================================================================
