---------------------------- MODULE StatusProbes ----------------------------
(***************************************************************************)
(* What answers the questions of load balancers and dashboards: the        *)
(* readiness probe (src/readiness.rs), the counts of shares behind a       *)
(* flight (src/share_summary_cache.rs) and the monitoring summary behind a *)
(* mutex (src/monitoring_cache.rs).  Each keeps its answer for one second, *)
(* and each bounds how much work its callers can start.  A caller may time *)
(* out or disconnect while the work it started goes on.                    *)
(***************************************************************************)
EXTENDS Naturals, FiniteSets

CONSTANTS
  Callers,
  AnswerTtl,   \* CACHE_TTL, TTL and MONITORING_SUMMARY_TTL: ages below it are fresh
  NoAnswer

ASSUME ProbeAssumption == AnswerTtl \in Nat \ {0}

ProbeKinds == {"readiness", "shares", "monitoring"}

VARIABLES
  answers,  \* kind -> age of the cached answer, or NoAnswer
  holder,   \* kind -> who holds the permit, the flight or the refresh lock
  works,    \* running work: [kind, owner, age]
  caller    \* caller -> [kind, at], or NoAnswer

probeVars == <<answers, holder, works, caller>>

StatusProbesInit ==
  /\ answers = [k \in ProbeKinds |-> NoAnswer]
  /\ holder = [k \in ProbeKinds |-> NoAnswer]
  /\ works = {}
  /\ caller = [c \in Callers |-> NoAnswer]

\* cached() and fresh()
FreshAnswer(k) == answers[k] # NoAnswer /\ answers[k] < AnswerTtl

Asks(c, k, at) == caller[c] # NoAnswer /\ caller[c].kind = k /\ caller[c].at = at

Leaves(c) == caller' = [caller EXCEPT ![c] = NoAnswer]

Waits(c, k, at) == caller' = [caller EXCEPT ![c] = [kind |-> k, at |-> at]]

\* The look at the cache at the head of check, get_with and get_or_try_insert.
Ask(c, k) ==
  /\ caller[c] = NoAnswer
  /\ ~FreshAnswer(k)
  /\ Waits(c, k, "waiting")
  /\ UNCHANGED <<answers, holder, works>>

Start(k, owner) ==
  works' = works \cup {[kind |-> k, owner |-> owner, age |-> 0]}

-----------------------------------------------------------------------------
\* check: the permit, the second look at the cache, and the dispatch; the permit
\* moves into the work.
ReadinessAdmitted(c) ==
  /\ Asks(c, "readiness", "waiting") /\ holder["readiness"] = NoAnswer
  /\ IF FreshAnswer("readiness")
     THEN Leaves(c) /\ UNCHANGED <<holder, works>>
     ELSE /\ holder' = [holder EXCEPT !["readiness"] = c]
          /\ Start("readiness", c) /\ Waits(c, "readiness", "started")
  /\ UNCHANGED answers

\* PROBE_TIMEOUT, while queueing or while the work runs: the permit is the work's.
ProbeTimeout(c) ==
  /\ \E at \in {"waiting", "started"} : Asks(c, "readiness", at)
  /\ Leaves(c)
  /\ UNCHANGED <<answers, holder, works>>

\* get_with under its mutex: join the flight or start one.
JoinFlight(c) ==
  /\ Asks(c, "shares", "waiting")
  /\ IF FreshAnswer("shares")
     THEN Leaves(c) /\ UNCHANGED <<answers, holder, works>>
     ELSE /\ answers' = [answers EXCEPT !["shares"] = NoAnswer]
          /\ Waits(c, "shares", "started")
          /\ IF holder["shares"] = NoAnswer
             THEN holder' = [holder EXCEPT !["shares"] = c] /\ Start("shares", c)
             ELSE UNCHANGED <<holder, works>>

\* get_or_try_insert after refresh.lock().
RefreshLocked(c) ==
  /\ Asks(c, "monitoring", "waiting") /\ holder["monitoring"] = NoAnswer
  /\ IF FreshAnswer("monitoring")
     THEN Leaves(c) /\ UNCHANGED <<holder, works>>
     ELSE /\ holder' = [holder EXCEPT !["monitoring"] = c]
          /\ Start("monitoring", c) /\ Waits(c, "monitoring", "started")
  /\ UNCHANGED answers

\* The caller disconnects: the refresh lock goes with it, the work does not.
DropCaller(c) ==
  /\ caller[c] # NoAnswer
  /\ Leaves(c)
  /\ holder' = [holder EXCEPT !["monitoring"] = IF @ = c THEN NoAnswer ELSE @]
  /\ UNCHANGED <<answers, works>>

-----------------------------------------------------------------------------
\* The readiness worker stores its answer itself, its caller there or not.
\* A failed probe is an answer, too; work that the dispatcher rejects is none.
ReadinessDone(w, ran) ==
  /\ w.kind = "readiness"
  /\ works' = works \ {w}
  /\ answers' = [answers EXCEPT !["readiness"] = IF ran THEN 0 ELSE @]
  /\ holder' = [holder EXCEPT !["readiness"] = IF @ = w.owner THEN NoAnswer ELSE @]
  /\ caller' = [c \in Callers |->
       IF c = w.owner /\ Asks(c, "readiness", "started") THEN NoAnswer ELSE caller[c]]

\* The flight's task stores an answer that is as old as the flight, wakes every
\* waiter and ends the flight; an error is sent and not stored.
FlightDone(w, ok) ==
  /\ w.kind = "shares"
  /\ works' = works \ {w}
  /\ answers' = [answers EXCEPT !["shares"] =
       IF ok THEN w.age ELSE @]
  /\ holder' = [holder EXCEPT !["shares"] = NoAnswer]
  /\ caller' = [c \in Callers |-> IF Asks(c, "shares", "started") THEN NoAnswer ELSE caller[c]]

\* The loader's result reaches the caller that still holds the lock, or nobody.
LoadDone(w, ok) ==
  /\ w.kind = "monitoring"
  /\ works' = works \ {w}
  /\ IF holder["monitoring"] = w.owner /\ Asks(w.owner, "monitoring", "started")
     THEN /\ answers' = [answers EXCEPT !["monitoring"] =
                 IF ok THEN 0 ELSE @]
          /\ holder' = [holder EXCEPT !["monitoring"] = NoAnswer]
          /\ Leaves(w.owner)
     ELSE UNCHANGED <<answers, holder, caller>>

Aged(age) == IF age < AnswerTtl THEN age + 1 ELSE age

ClockTick ==
  /\ answers' = [k \in ProbeKinds |->
       IF answers[k] = NoAnswer THEN NoAnswer ELSE Aged(answers[k])]
  /\ works' = {[w EXCEPT !.age = Aged(@)] : w \in works}
  /\ UNCHANGED <<holder, caller>>

StatusProbesNext ==
  \/ \E c \in Callers :
       \/ \E k \in ProbeKinds : Ask(c, k)
       \/ ReadinessAdmitted(c) \/ ProbeTimeout(c) \/ JoinFlight(c) \/ RefreshLocked(c)
       \/ DropCaller(c)
  \/ \E w \in works :
       \E ok \in BOOLEAN : ReadinessDone(w, ok) \/ FlightDone(w, ok) \/ LoadDone(w, ok)
  \/ ClockTick

StatusProbesSpec == StatusProbesInit /\ [][StatusProbesNext]_probeVars

-----------------------------------------------------------------------------
\* However many callers time out or disconnect, at most one readiness probe and at
\* most one query for the counts of shares run at a time, so that a hanging storage
\* holds one worker and not one for every caller.
ProbesSerialized ==
  \A k \in {"readiness", "shares"} : Cardinality({w \in works : w.kind = k}) <= 1
=============================================================================
