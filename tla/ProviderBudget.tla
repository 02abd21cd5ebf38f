--------------------------- MODULE ProviderBudget ---------------------------
(***************************************************************************)
(* External providers and the choice between them and the local model      *)
(* (machboost/providers.py, class ProviderStore and route_with_fallback).  *)
(*                                                                         *)
(* A request works on the configurations it has read at its start.  Its    *)
(* budget check, the call of the provider and the record of what it cost   *)
(* are separate steps, between which other requests and the administrator  *)
(* move.  Costs and budgets are small numbers.                             *)
(***************************************************************************)
EXTENDS Integers, Sequences, FiniteSets, FiniteSetsExt

CONSTANTS Callers,      \* requests that may go to a provider
          Providers,    \* numbered in the order of their names
          Uncapped,     \* providers that may be configured without a budget
          Budgets,      \* budgets that may be configured
          NoBudget,     \* monthly_budget_usd is None
          MaxCost,      \* the most one answer costs
          MaxMonth,     \* bound on the calendar
          MaxSpent,     \* bound: no request starts once this much was spent
          MaxChanges    \* bound on the administrator's steps

VARIABLES
    configs,  \* provider_configs: the rows that exist
    secrets,  \* _secrets: providers with an API key
    spent,    \* provider_usage: cost per provider and month
    month,
    changes,  \* steps of the administrator so far
    pc,
    legs,     \* what route_with_fallback has not tried yet
    queue,    \* candidates not tried yet, as they were when they were read
    cost,     \* of the answer a caller holds
    paid      \* history: the providers that answered a caller

admin  == <<configs, secrets, changes>>
caller == <<pc, legs, queue, cost, paid>>
vars   == <<admin, spent, month, caller>>

Modes == {<<"local">>, <<"external">>, <<"local", "external">>,
          <<"external", "local">>}

Config == [id : Providers, enabled : BOOLEAN, budget : Budgets \cup {NoBudget}]

Init ==
    /\ configs = {}
    /\ secrets = {}
    /\ spent = [p \in Providers |-> [m \in 1 .. MaxMonth |-> 0]]
    /\ month = 1
    /\ changes = 0
    /\ pc = [c \in Callers |-> "idle"]
    /\ legs = [c \in Callers |-> <<>>]
    /\ queue = [c \in Callers |-> <<>>]
    /\ cost = [c \in Callers |-> 0]
    /\ paid = [c \in Callers |-> {}]

Exists(p)  == \E k \in configs : k.id = p
Row(p)     == CHOOSE k \in configs : k.id = p
Without(p) == {k \in configs : k.id # p}

-----------------------------------------------------------------------------
(* The administrator.                                                      *)

Change ==
    /\ changes < MaxChanges
    /\ changes' = changes + 1
    /\ UNCHANGED <<month, caller>>

\* configure: a new row, or new values in the row that is there.  An api_key
\* of None leaves the secret alone, an empty one removes it.
Configure ==
    /\ Change
    /\ \E k \in Config :
         /\ k.budget = NoBudget => k.id \in Uncapped
         /\ configs' = Without(k.id) \cup {k}
         /\ secrets' \in {secrets, secrets \cup {k.id}, secrets \ {k.id}}
    /\ UNCHANGED spent

\* set_secret, for a provider that exists.
SetSecret ==
    /\ Change
    /\ \E p \in Providers :
         /\ Exists(p)
         /\ secrets' \in {secrets \cup {p}, secrets \ {p}}
    /\ UNCHANGED <<configs, spent>>

\* delete: the usage of the provider goes with it (ON DELETE CASCADE).
Delete ==
    /\ Change
    /\ \E p \in Providers :
         /\ Exists(p)
         /\ configs' = Without(p)
         /\ secrets' = secrets \ {p}
         /\ spent' = [spent EXCEPT ![p] = [m \in 1 .. MaxMonth |-> 0]]

NewMonth ==
    /\ month < MaxMonth
    /\ month' = month + 1
    /\ UNCHANGED <<admin, spent, caller>>

-----------------------------------------------------------------------------
(* A request: route_with_fallback.                                         *)

Go(c, where) == pc' = [pc EXCEPT ![c] = where]

\* Another leg follows, if there is one.
NextLeg(c) ==
    /\ legs' = [legs EXCEPT ![c] = Tail(@)]
    /\ Go(c, IF Len(legs[c]) = 1 THEN "failed" ELSE "route")

Start(c) ==
    /\ pc[c] = "idle"
    /\ \A p \in Providers, m \in 1 .. MaxMonth : spent[p][m] < MaxSpent
    /\ \E mode \in Modes : legs' = [legs EXCEPT ![c] = mode]
    /\ Go(c, "route")
    /\ UNCHANGED <<admin, spent, month, queue, cost, paid>>

\* The local model answers, is too busy or too slow, or fails.
Local(c) ==
    /\ pc[c] = "route" /\ Head(legs[c]) = "local"
    /\ \/ Go(c, "local") /\ UNCHANGED legs
       \/ NextLeg(c)
       \/ Go(c, "failed") /\ UNCHANGED legs
    /\ UNCHANGED <<admin, spent, month, queue, cost, paid>>

-----------------------------------------------------------------------------
(* ProviderStore.chat.                                                     *)

\* The enabled rows, or the one asked for, if it is enabled, in the order of
\* their names: the one sequence that lists them so.
CandidatesOf(only) ==
    LET chosen == {k \in configs : k.enabled /\ (only = {} \/ k.id \in only)}
    IN  {q \in [1 .. Cardinality(chosen) -> chosen] :
            \A i, j \in DOMAIN q : i < j => q[i].id < q[j].id}

\* No candidate, or a provider id that is not there, is an error at once.
Candidates(c) ==
    /\ pc[c] = "route" /\ Head(legs[c]) = "external"
    /\ \E only \in {{}} \cup {{p} : p \in Providers} :
         \E found \in CandidatesOf(only) :
             /\ queue' = [queue EXCEPT ![c] = found]
             /\ Go(c, IF found = <<>> THEN "failed" ELSE "check")
    /\ UNCHANGED <<admin, spent, month, legs, cost, paid>>

\* _check_budget, with the budget that was read.
Exhausted(k) == k.budget # NoBudget /\ spent[k.id][month] >= k.budget

HasSecret(k) == k.id \in secrets      \* _secret_for; no key is in the environment

\* A spent budget or a missing key is not transient: the request fails.
Check(c) ==
    LET k == Head(queue[c])
    IN  /\ pc[c] = "check"
        /\ Go(c, IF Exhausted(k) \/ ~HasSecret(k) THEN "failed" ELSE "call")
        /\ UNCHANGED <<admin, spent, month, legs, queue, cost, paid>>

\* The transport: an answer, a transient failure, a refusal, or a connection
\* that breaks while the answer is read, which leaves chat but may fall back.
Call(c) ==
    /\ pc[c] = "call"
    /\ \/ /\ \E n \in 0 .. MaxCost : cost' = [cost EXCEPT ![c] = n]
          /\ paid' = [paid EXCEPT ![c] = @ \cup {Head(queue[c]).id}]
          /\ Go(c, "record")
          /\ UNCHANGED <<legs, queue>>
       \/ /\ Len(queue[c]) > 1
          /\ queue' = [queue EXCEPT ![c] = Tail(@)]
          /\ Go(c, "check")
          /\ UNCHANGED <<legs, cost, paid>>
       \/ /\ Len(queue[c]) = 1
          /\ NextLeg(c)
          /\ UNCHANGED <<queue, cost, paid>>
       \/ /\ Go(c, "failed")
          /\ UNCHANGED <<legs, queue, cost, paid>>
       \/ /\ NextLeg(c)
          /\ UNCHANGED <<queue, cost, paid>>
    /\ UNCHANGED <<admin, spent, month>>

\* Mutant: an answer that cannot be recorded counts as a transient failure.
TryAnother(c) == NextLeg(c)

\* The row refers to a provider that is gone: sqlite3.IntegrityError.
RecordFails(c) == Go(c, "failed") /\ UNCHANGED legs

\* _record_usage, in the month the answer arrives in.
Record(c) ==
    LET p == Head(queue[c]).id
    IN  /\ pc[c] = "record"
        /\ IF Exists(p)
           THEN /\ spent' = [spent EXCEPT ![p][month] = @ + cost[c]]
                /\ Go(c, "external")
                /\ UNCHANGED legs
           ELSE RecordFails(c) /\ UNCHANGED spent
        /\ cost' = [cost EXCEPT ![c] = 0]
        /\ UNCHANGED <<admin, month, queue, paid>>

\* The handler has sent what it got and serves another request.
Answer(c) ==
    /\ pc[c] \in {"local", "external", "failed"}
    /\ Go(c, "idle")
    /\ legs' = [legs EXCEPT ![c] = <<>>]
    /\ queue' = [queue EXCEPT ![c] = <<>>]
    /\ paid' = [paid EXCEPT ![c] = {}]
    /\ UNCHANGED <<admin, spent, month, cost>>

-----------------------------------------------------------------------------
Request(c) == \/ Start(c) \/ Local(c) \/ Candidates(c) \/ Check(c)
              \/ Call(c) \/ Record(c) \/ Answer(c)

\* The bounds are reached and nothing is under way.
Done ==
    /\ \A c \in Callers : pc[c] = "idle"
    /\ \E p \in Providers, m \in 1 .. MaxMonth : spent[p][m] >= MaxSpent
    /\ UNCHANGED vars

Next == \/ \E c \in Callers : Request(c)
        \/ Configure \/ SetSecret \/ Delete
        \/ NewMonth
        \/ Done

Spec == Init /\ [][Next]_vars

-----------------------------------------------------------------------------
TypeOK ==
    /\ configs \subseteq Config
    /\ \A j, k \in configs : j.id = k.id => j = k
    /\ secrets \subseteq Providers
    /\ pc \in [Callers -> {"idle", "route", "check", "call", "record",
                           "local", "external", "failed"}]
    /\ \A c \in Callers : Len(queue[c]) <= Cardinality(Providers)
    /\ cost \in [Callers -> 0 .. MaxCost]

CallsUnderWay(p) == {c \in Callers : /\ pc[c] \in {"call", "record"}
                                     /\ Head(queue[c]).id = p}

\* A provider that always has a budget overruns it in a month by what the
\* requests that passed the check together may cost, never by more: the check
\* (_check_budget) and the charge (_record_usage) are apart.
OverrunBounded ==
    \A p \in Providers \ Uncapped : \A m \in 1 .. MaxMonth :
        spent[p][m] + MaxCost * (IF m = month THEN Cardinality(CallsUnderWay(p)) ELSE 0)
            < Max(Budgets) + MaxCost * Cardinality(Callers)

\* A request pays at most one provider, and once it has paid it ends with the
\* answer it paid for, or fails because the provider is gone; it never goes on
\* to another provider or to the local model (chat and route_with_fallback).
PaidOnce ==
    \A c \in Callers :
        /\ Cardinality(paid[c]) <= 1
        /\ pc[c] = "external" => paid[c] # {}
        /\ paid[c] # {} => pc[c] \in {"record", "external", "failed"}
=============================================================================
