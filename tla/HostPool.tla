------------------------------ MODULE HostPool ------------------------------
(***************************************************************************)
(* Requests spread over several gateways with failover                     *)
(* (machboost/routing.py, class MachBoostHostPool): probing, ranking,      *)
(* reservation, cooldown, and the retry on another host.                   *)
(*                                                                         *)
(* A probe tells whether a host is online and ready and how much work it   *)
(* has; it is cached for ProbeTtl.  The result of the network is a choice, *)
(* so a probe may be out of date when it is stored.                        *)
(***************************************************************************)
EXTENDS Integers, Sequences, FiniteSets

CONSTANTS Requests,
          Hosts,        \* numbered in the order of their names
          Loads,        \* work a probe may report
          ProbeTtl, Cooldown, MaxCooldown,
          MaxTime,      \* bound on the clock
          NoProbe, Nowhere

VARIABLES
    probe,      \* per host: the cached probe and when it was stored
    failures, cooldownUntil, reserved,
    pc,
    method,     \* "stream" (chat, generate) or "call" (load)
    now,        \* the time a request has read for its ranking
    todo,       \* hosts it still probes
    found,      \* per request and host: the probe it works with
    attempted,  \* in order
    host,       \* the host it has reserved
    rows,       \* history: the hosts whose rows a request has passed on
    clock

runtime  == <<probe, failures, cooldownUntil, reserved>>
position == <<method, now, todo, found>>
hvars    == <<runtime, pc, position, attempted, host, rows, clock>>

Probe == [ready : BOOLEAN, load : Loads, at : 0 .. MaxTime]

Init ==
    /\ probe = [h \in Hosts |-> NoProbe]
    /\ failures = [h \in Hosts |-> 0]
    /\ cooldownUntil = [h \in Hosts |-> 0]
    /\ reserved = [h \in Hosts |-> 0]
    /\ pc = [r \in Requests |-> "idle"]
    /\ method = [r \in Requests |-> "stream"]
    /\ now = [r \in Requests |-> 0]
    /\ todo = [r \in Requests |-> {}]
    /\ found = [r \in Requests |-> [h \in Hosts |-> NoProbe]]
    /\ attempted = [r \in Requests |-> <<>>]
    /\ host = [r \in Requests |-> Nowhere]
    /\ rows = [r \in Requests |-> {}]
    /\ clock = 0

Tried(r)     == {attempted[r][i] : i \in DOMAIN attempted[r]}
Go(r, where) == pc' = [pc EXCEPT ![r] = where]

-----------------------------------------------------------------------------
(* probe.                                                                  *)

Fresh(h) == probe[h] # NoProbe /\ clock - probe[h].at <= ProbeTtl

\* What is fresh is used, the other hosts are asked.
LookAround(r) ==
    /\ now' = [now EXCEPT ![r] = clock]
    /\ todo' = [todo EXCEPT ![r] = {h \in Hosts : ~Fresh(h)}]
    /\ found' = [found EXCEPT ![r] = probe]
    /\ Go(r, "probe")

Start(r) ==
    /\ pc[r] = "idle"
    /\ \E m \in {"stream", "call"} : method' = [method EXCEPT ![r] = m]
    /\ LookAround(r)
    /\ UNCHANGED <<runtime, attempted, host, rows, clock>>

\* One answer: an online host has no cooldown any more.
ProbeTarget(r) ==
    /\ pc[r] = "probe"
    /\ \E h \in todo[r], online, ready \in BOOLEAN, load \in Loads :
         LET p == [ready |-> online /\ ready, load |-> load, at |-> clock]
         IN  /\ probe' = [probe EXCEPT ![h] = p]
             /\ found' = [found EXCEPT ![r][h] = p]
             /\ todo' = [todo EXCEPT ![r] = @ \ {h}]
             /\ failures' = [failures EXCEPT ![h] = IF online THEN 0 ELSE @]
             /\ cooldownUntil' = [cooldownUntil EXCEPT ![h] = IF online THEN 0 ELSE @]
    /\ UNCHANGED <<reserved, pc, method, now, attempted, host, rows, clock>>

-----------------------------------------------------------------------------
(* ranked and _select_and_reserve.                                         *)

Ranked(r) == {h \in Hosts \ Tried(r) :
                 found[r][h].ready /\ cooldownUntil[h] <= now[r]}

\* Mutant: the rank of the probes decides, not the reservations of the moment.
ProbedScore(r, h) == found[r][h].load

\* expected_delay_score, as far as reservations decide.
Score(r, h) == found[r][h].load + reserved[h]

Better(r, g, h) == \/ Score(r, g) < Score(r, h)
                   \/ Score(r, g) = Score(r, h) /\ g <= h

Best(r) == CHOOSE h \in Ranked(r) : \A g \in Ranked(r) : Better(r, h, g)

\* What a request found before is not looked at again.
Forget(r) ==
    /\ now' = [now EXCEPT ![r] = 0]
    /\ found' = [found EXCEPT ![r] = [h \in Hosts |-> NoProbe]]

\* Ranking and reservation are one section; no host means the last error.
Select(r) ==
    /\ pc[r] = "probe" /\ todo[r] = {} /\ method[r] = "stream"
    /\ IF Ranked(r) = {}
       THEN Go(r, "failed") /\ UNCHANGED <<reserved, attempted, host>>
       ELSE LET h == Best(r)
            IN  /\ reserved' = [reserved EXCEPT ![h] = @ + 1]
                /\ attempted' = [attempted EXCEPT ![r] = Append(@, h)]
                /\ host' = [host EXCEPT ![r] = h]
                /\ Go(r, "calling")
    /\ Forget(r)
    /\ UNCHANGED <<probe, failures, cooldownUntil, method, todo, rows, clock>>

-----------------------------------------------------------------------------
(* _stream_with_failover and _call_with_failover.                          *)

\* _mark_success, at the first row of a stream or the value of a call.
MarkSuccess(h) ==
    /\ failures' = [failures EXCEPT ![h] = 0]
    /\ cooldownUntil' = [cooldownUntil EXCEPT ![h] = 0]

Backoff(n) == LET wait == Cooldown * 2 ^ (n - 1)
              IN  IF wait < MaxCooldown THEN wait ELSE MaxCooldown

MarkFailure(h) ==
    /\ failures' = [failures EXCEPT ![h] = @ + 1]
    /\ cooldownUntil' = [cooldownUntil EXCEPT ![h] = clock + Backoff(failures[h] + 1)]

Release(r) == reserved' = [reserved EXCEPT ![host[r]] = IF @ = 0 THEN 0 ELSE @ - 1]

Row(r) ==
    /\ pc[r] = "calling" /\ method[r] = "stream"
    /\ IF rows[r] = {} THEN MarkSuccess(host[r])
                       ELSE UNCHANGED <<failures, cooldownUntil>>
    /\ rows' = [rows EXCEPT ![r] = @ \cup {host[r]}]
    /\ UNCHANGED <<probe, reserved, pc, position, attempted, host, clock>>

Finish(r) ==
    /\ pc[r] = "calling"
    /\ IF rows[r] = {} THEN MarkSuccess(host[r])
                       ELSE UNCHANGED <<failures, cooldownUntil>>
    /\ Go(r, "done")
    /\ Release(r)
    /\ host' = [host EXCEPT ![r] = Nowhere]
    /\ UNCHANGED <<probe, position, attempted, rows, clock>>

\* The consumer drops the stream: GeneratorExit is no failure of the host.
Abandon(r) ==
    /\ pc[r] = "calling" /\ method[r] = "stream" /\ rows[r] # {}
    /\ Go(r, "done")
    /\ Release(r)
    /\ host' = [host EXCEPT ![r] = Nowhere]
    /\ UNCHANGED <<probe, failures, cooldownUntil, position, attempted, rows, clock>>

MayRetry(r) == rows[r] = {}

\* An error of the host.  A transient one leads to another host: a stream
\* looks around again, a call goes on along the ranking it has.
Fail(r) ==
    /\ pc[r] = "calling"
    /\ MarkFailure(host[r])
    /\ \E transient \in BOOLEAN :
         IF transient /\ MayRetry(r)
         THEN IF method[r] = "stream" THEN LookAround(r)
              ELSE Go(r, "next") /\ UNCHANGED <<now, todo, found>>
         ELSE Go(r, "failed") /\ UNCHANGED <<now, todo, found>>
    /\ Release(r)
    /\ host' = [host EXCEPT ![r] = Nowhere]
    /\ UNCHANGED <<probe, method, attempted, rows, clock>>

\* A call ranks the hosts once, before its first attempt.
RankOnce(r) ==
    /\ pc[r] = "probe" /\ todo[r] = {} /\ method[r] = "call"
    /\ found' = [found EXCEPT ![r] =
                    [h \in Hosts |-> IF h \in Ranked(r) THEN @[h] ELSE NoProbe]]
    /\ Go(r, "next")
    /\ UNCHANGED <<runtime, method, now, todo, attempted, host, rows, clock>>

\* Its next candidate, whatever has become of it; the order is that of the
\* scores when the hosts were probed, so reservations play no part.
Follow(r) ==
    /\ pc[r] = "next"
    /\ LET left == {h \in Hosts \ Tried(r) : found[r][h] # NoProbe}
       IN  IF left = {} THEN Go(r, "failed") /\ UNCHANGED <<reserved, attempted, host>>
           ELSE \E h \in left :
                  /\ reserved' = [reserved EXCEPT ![h] = @ + 1]
                  /\ attempted' = [attempted EXCEPT ![r] = Append(@, h)]
                  /\ host' = [host EXCEPT ![r] = h]
                  /\ Go(r, "calling")
    /\ UNCHANGED <<probe, failures, cooldownUntil, position, rows, clock>>

Tick ==
    /\ clock < MaxTime
    /\ clock' = clock + 1
    /\ UNCHANGED <<runtime, pc, position, attempted, host, rows>>

Done == (\A r \in Requests : pc[r] \in {"done", "failed"}) /\ UNCHANGED hvars

Step(r) == \/ Start(r) \/ ProbeTarget(r) \/ Select(r) \/ Row(r) \/ Finish(r)
           \/ Abandon(r) \/ Fail(r) \/ RankOnce(r) \/ Follow(r)

Next == (\E r \in Requests : Step(r)) \/ Tick \/ Done

Spec == Init /\ [][Next]_hvars

-----------------------------------------------------------------------------
TypeOK ==
    /\ probe \in [Hosts -> Probe \cup {NoProbe}]
    /\ reserved \in [Hosts -> 0 .. Cardinality(Requests)]
    /\ pc \in [Requests -> {"idle", "probe", "calling", "next", "done", "failed"}]
    /\ host \in [Requests -> Hosts \cup {Nowhere}]
    /\ \A r \in Requests : Len(attempted[r]) <= Cardinality(Hosts)

\* Reservations count exactly the calls under way at a host, through every
\* success, failure and abandoned stream; a request tries no host twice, and
\* once it has passed on a row of one host it never turns to another
\* (_stream_with_failover, _call_with_failover).
FailoverIsClean ==
    /\ \A h \in Hosts : reserved[h] = Cardinality({r \in Requests : host[r] = h})
    /\ \A r \in Requests :
         /\ Cardinality(Tried(r)) = Len(attempted[r])
         /\ Cardinality(rows[r]) <= 1
         /\ rows[r] # {} /\ host[r] # Nowhere => rows[r] = {host[r]}
         /\ pc[r] = "probe" => rows[r] = {}

\* When a request has found two idle hosts, it does not reserve the one that
\* another request holds: probing and reserving are apart, but the score is
\* taken again under the lock (_select_and_reserve).
IdleHostsAreUsed ==
    \A r \in Requests :
        pc[r] = "probe" /\ pc'[r] = "calling"
        => \A g \in Ranked(r) :
              found[r][g].load + reserved[g]
                  >= found[r][host'[r]].load + reserved[host'[r]]
=============================================================================
