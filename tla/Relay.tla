------------------------------- MODULE Relay -------------------------------
(***************************************************************************)
(* One run of Relay.Do (relay/relay.go): the request is offered to the     *)
(* candidates in list order; one upstream is tried at most 1 + retry       *)
(* times, and the loop decides after each failed attempt whether to try    *)
(* the same upstream again, move to the next one, or give up.              *)
(*                                                                         *)
(* A candidate is its position in the list.  The client may disconnect at  *)
(* any moment, and an administrator may swap the configuration while the   *)
(* loop runs: retry_on_timeout is read again at every decision and the     *)
(* timeout at every attempt, while the candidates and their retry budgets  *)
(* are the copies the router made for this request.                        *)
(***************************************************************************)
EXTENDS Naturals

CONSTANTS
  MaxCands,  \* the longest candidate list considered
  MaxRetry   \* the largest retry budget considered (config allows 0..10)

ASSUME RelayAssumption == MaxCands \in Nat \ {0} /\ MaxRetry \in Nat

VARIABLES
  n,              \* len(candidates)
  retry,          \* candidates[k].Retry
  retryOnTimeout, \* live config: retry_on_timeout
  deadlineOn,     \* live config: the timeout that applies to this request is > 0
  ctxDone,        \* the client has disconnected
  pc,             \* where the loop stands
  i,              \* index of the current candidate
  a,              \* number of the current attempt on it
  armed,          \* the attempt in flight has a deadline
  last,           \* classification of the last failed attempt
  result,         \* what Do returns
  tried,          \* tryOnce calls per candidate
  ended,          \* verdict of the last finished attempt per candidate
  retryEvents,    \* emit("retry", k, k) per candidate
  failoverEvents, \* emit("failover", k, k+1) per candidate
  permitted       \* retry_on_timeout was on at some moment since the last timeout

config == <<retryOnTimeout, deadlineOn>>
request == <<n, retry>>
events == <<retryEvents, failoverEvents>>
relayVars == <<n, retry, retryOnTimeout, deadlineOn, ctxDone, pc, i, a, armed, last,
              result, tried, ended, retryEvents, failoverEvents, permitted>>

Slots == 1 .. MaxCands

\* How tryOnce classifies an attempt.  "pass" is a 4xx other than 429; "other"
\* is a status that is neither 2xx, 4xx nor 5xx and is retried like a 5xx.
Answers == {"ok", "pass", "r429", "s5xx", "other"}
Errors == {"network", "timeout"}
Verdicts == Answers \cup Errors \cup {"cancelled"}
Results == {"pending", "response", "passthrough", "failure", "cancelled",
            "nocandidate"}
Places == {"enter", "attempt", "flight", "judge", "resend", "backoff",
           "failover", "done"}

-----------------------------------------------------------------------------
\* The retry policy, with the live flag.  CanRetrySameNot429, and every definition
\* below whose comment says "Mutant", is used only to show that a property can fail.
CanRetrySameNot429(f) ==
  f \in {"network", "s5xx", "other"} \/ (f = "timeout" /\ retryOnTimeout)

CanRetrySame(f) ==
  \/ f \in {"network", "r429", "s5xx", "other"}
  \/ f = "timeout" /\ retryOnTimeout

CanFailoverAlways(f) == f # "cancelled" \* Mutant: the flag only guards retries

CanFailover(f) == CanRetrySame(f)

BudgetPlusOne(k) == retry[k] + 2 \* Mutant: off by one

Budget(k) == retry[k] + 1

HasNext == i < n

NoDeadline == FALSE \* Mutant: the attempt's context has no timeout

Deadline == deadlineOn

\* Mutant: failovers are observed and retries are not.
EmitNoRetry == UNCHANGED retryEvents

EmitRetry == retryEvents' = [retryEvents EXCEPT ![i] = @ + 1]

-----------------------------------------------------------------------------
RelayInit ==
  /\ n \in 0 .. MaxCands
  /\ retry \in [Slots -> 0 .. MaxRetry]
  /\ retryOnTimeout \in BOOLEAN
  /\ deadlineOn \in BOOLEAN
  /\ ctxDone = FALSE
  /\ pc = "enter" /\ i = 0 /\ a = 0
  /\ armed = FALSE
  /\ last = "none" /\ result = "pending"
  /\ tried = [k \in Slots |-> 0]
  /\ ended = [k \in Slots |-> "none"]
  /\ retryEvents = [k \in Slots |-> 0]
  /\ failoverEvents = [k \in Slots |-> 0]
  /\ permitted = FALSE

\* Do returns.
Return(res) == pc' = "done" /\ result' = res

\* The two early returns, then the first attempt.
Enter ==
  /\ pc = "enter"
  /\ \/ n = 0 /\ Return("nocandidate") /\ UNCHANGED <<i, a>>
     \/ n > 0 /\ ctxDone /\ Return("cancelled") /\ UNCHANGED <<i, a>>
     \/ /\ n > 0 /\ ~ctxDone
        /\ pc' = "attempt" /\ i' = 1 /\ a' = 1
        /\ UNCHANGED result
  /\ UNCHANGED <<request, config, ctxDone, armed, last, tried, ended, events,
                 permitted>>

\* tryOnce up to the outgoing call: the deadline comes from the configuration
\* of this moment; a call whose context is already done never leaves, and a request
\* that cannot be built counts as a network error, whatever the context.
Attempt ==
  /\ pc = "attempt"
  /\ tried' = [tried EXCEPT ![i] = @ + 1]
  /\ armed' = Deadline
  /\ \/ /\ ctxDone
        /\ last' = "cancelled"
        /\ ended' = [ended EXCEPT ![i] = "cancelled"]
        /\ Return("cancelled")
     \/ /\ last' = "network"
        /\ ended' = [ended EXCEPT ![i] = "network"]
        /\ pc' = "judge" /\ UNCHANGED result
     \/ ~ctxDone /\ pc' = "flight" /\ UNCHANGED <<last, ended, result>>
  /\ UNCHANGED <<request, config, ctxDone, i, a, events, permitted>>

\* The upstream answers with a status.
Answer(v) ==
  /\ pc = "flight"
  /\ last' = v
  /\ ended' = [ended EXCEPT ![i] = v]
  /\ \/ v = "ok" /\ Return("response")
     \/ v = "pass" /\ Return("passthrough")
     \/ v \notin {"ok", "pass"} /\ pc' = "judge" /\ UNCHANGED result
  /\ UNCHANGED <<request, config, ctxDone, i, a, armed, tried, events, permitted>>

\* The call returns an error: a cancelled parent context wins, then a deadline
\* (ours, or the transport's handshake timeout), then "network".
CallError(kind) ==
  /\ pc = "flight"
  /\ LET f == IF ctxDone THEN "cancelled" ELSE kind IN
     /\ last' = f
     /\ ended' = [ended EXCEPT ![i] = f]
     /\ permitted' = IF f = "timeout" THEN retryOnTimeout ELSE permitted
     /\ IF f = "cancelled" THEN Return("cancelled")
                           ELSE pc' = "judge" /\ UNCHANGED result
  /\ UNCHANGED <<request, config, ctxDone, i, a, armed, tried, events>>

\* After a failed attempt: again on this upstream, or leave its loop.
Judge ==
  /\ pc = "judge"
  /\ IF CanRetrySame(last) /\ a < Budget(i)
       THEN pc' = "resend" /\ a' = a + 1
       ELSE pc' = "failover" /\ a' = a
  /\ UNCHANGED <<request, config, ctxDone, i, armed, last, result, tried, ended,
                 events, permitted>>

\* The second look at the policy, at the top of a further attempt.
Resend ==
  /\ pc = "resend"
  /\ pc' = IF CanRetrySame(last) THEN "backoff" ELSE "failover"
  /\ UNCHANGED <<request, config, ctxDone, i, a, armed, last, result, tried,
                 ended, events, permitted>>

\* The wait before a further attempt; when both are ready, select picks any.
Backoff ==
  /\ pc = "backoff"
  /\ \/ ctxDone /\ Return("cancelled") /\ UNCHANGED retryEvents
     \/ /\ pc' = "attempt"
        /\ EmitRetry
        /\ UNCHANGED result
  /\ UNCHANGED <<request, config, ctxDone, i, a, armed, last, tried, ended,
                 failoverEvents, permitted>>

\* The third look: go to the next candidate, or return the last failure.
Failover ==
  /\ pc = "failover"
  /\ IF CanFailover(last) /\ HasNext
       THEN /\ failoverEvents' = [failoverEvents EXCEPT ![i] = @ + 1]
            /\ pc' = "attempt" /\ i' = i + 1 /\ a' = 1
            /\ UNCHANGED result
       ELSE Return("failure") /\ UNCHANGED <<i, a, failoverEvents>>
  /\ UNCHANGED <<request, config, ctxDone, armed, last, tried, ended,
                 retryEvents, permitted>>

\* The environment: the client leaves; the configuration is swapped.
Disconnect ==
  /\ pc # "done" /\ ~ctxDone
  /\ ctxDone' = TRUE
  /\ UNCHANGED <<request, config, pc, i, a, armed, last, result, tried, ended,
                 events, permitted>>

Reconfigure ==
  /\ pc # "done"
  /\ retryOnTimeout' \in BOOLEAN /\ deadlineOn' \in BOOLEAN
  /\ permitted' = (permitted \/ retryOnTimeout')
  /\ UNCHANGED <<request, ctxDone, pc, i, a, armed, last, result, tried, ended,
                 events>>

Step ==
  \/ Enter \/ Attempt \/ Judge \/ Resend \/ Backoff \/ Failover
  \/ \E v \in Answers : Answer(v)
  \/ \E kind \in Errors : CallError(kind)

RelayNext == Step \/ Disconnect \/ Reconfigure

RelaySpec == RelayInit /\ [][RelayNext]_relayVars

\* The goroutine is scheduled: every local step is taken, and a call in flight
\* returns once its deadline is armed or its context is done.  An upstream owes
\* no answer.
Fairness ==
  /\ WF_relayVars(Enter \/ Attempt \/ Judge \/ Resend \/ Backoff \/ Failover)
  /\ WF_relayVars((armed \/ ctxDone) /\ CallError("timeout"))

FairSpec == RelaySpec /\ Fairness

-----------------------------------------------------------------------------
RelayTypeOK ==
  /\ n \in 0 .. MaxCands
  /\ retry \in [Slots -> 0 .. MaxRetry]
  /\ retryOnTimeout \in BOOLEAN /\ deadlineOn \in BOOLEAN /\ ctxDone \in BOOLEAN
  /\ pc \in Places
  /\ i \in 0 .. n /\ a \in 0 .. MaxRetry + 1
  /\ armed \in BOOLEAN /\ permitted \in BOOLEAN
  /\ last \in Verdicts \cup {"none"}
  /\ result \in Results
  /\ tried \in [Slots -> Nat]
  /\ ended \in [Slots -> Verdicts \cup {"none"}]
  /\ retryEvents \in [Slots -> Nat]
  /\ failoverEvents \in [Slots -> Nat]

\* An upstream is tried at most 1 + retry times, and upstreams are tried strictly
\* in list order: none after the current one yet, none before it skipped.
BoundedInOrder ==
  \A k \in Slots :
    /\ tried[k] <= retry[k] + 1
    /\ k > i => tried[k] = 0
    /\ k < i => tried[k] > 0

\* Do gives up on a retryable failure only after every candidate used its whole
\* budget; only a timeout ends a candidate's turn early.
GivesUpOnlyWhenExhausted ==
  pc = "done" /\ result = "failure" /\ last # "timeout" =>
    \A k \in 1 .. n : tried[k] = retry[k] + 1 \/ ended[k] = "timeout"

\* The observer (metrics) hears of every attempt but the first, exactly once:
\* as a retry on the same upstream or as one failover to the next, never of an
\* attempt that a disconnect prevented.
EventsMatchAttempts ==
  pc = "done" => \A k \in Slots :
    /\ tried[k] > 0 => retryEvents[k] = tried[k] - 1
    /\ tried[k] = 0 => retryEvents[k] = 0
    /\ failoverEvents[k] = IF k < i THEN 1 ELSE 0

\* A request that timed out is not sent again, to any upstream, unless
\* retry_on_timeout was on at some moment since: it may have been billed.
TimeoutNotResent ==
  [][tried' # tried /\ last = "timeout" => permitted]_relayVars

\* With a timeout configured, Do returns, whatever the upstreams do.
Terminates == []deadlineOn => <>(pc = "done")
=============================================================================
