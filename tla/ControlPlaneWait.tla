-------------------------- MODULE ControlPlaneWait --------------------------
(***************************************************************************)
(* waitAllReady (internal/healthcheck/cluster.go): one goroutine per check *)
(* polls the apiserver until the check passes or the context is done, and  *)
(* reports once on a buffered channel; the caller counts the reports.      *)
(* Meanwhile the node and its pods become ready and unready as they like,  *)
(* and the deadline or the cancellation of the caller may strike anywhere. *)
(***************************************************************************)
EXTENDS Integers, FiniteSets

CONSTANT Checks    \* the node and the static pods

ASSUME ChecksAssumption == IsFiniteSet(Checks) /\ Checks # {}

VARIABLES
    ready,      \* whether the object of a check is Ready right now
    go,         \* the goroutine of each check
    passed,     \* the number of names in the channel
    remaining,  \* the reports the caller still waits for
    ctx,        \* the derived context: "open" or "done"
    main,       \* the caller: "waiting" in its select, or returned "nil" or "error"
    \* history
    witnessed   \* the checks that have been seen ready

vars == <<ready, go, passed, remaining, ctx, main, witnessed>>

\* a goroutine is in its request, about to report, in its select, or has returned
\* after its report or because the context was done
GoStates == {"poll", "report", "select", "reported", "cancelled"}

Init ==
    /\ ready \in [Checks -> BOOLEAN]
    /\ go = [c \in Checks |-> "poll"]
    /\ passed = 0
    /\ remaining = Cardinality(Checks)
    /\ ctx = "open"
    /\ main = "waiting"
    /\ witnessed = {}

-----------------------------------------------------------------------------
(* The goroutine of a check *)

\* nodeReady or staticPodReady finds the condition true
PollPasses(c) ==
    /\ go[c] = "poll"
    /\ ready[c]
    /\ go' = [go EXCEPT ![c] = "report"]
    /\ witnessed' = witnessed \union {c}
    /\ UNCHANGED <<ready, passed, remaining, ctx, main>>

\* it is false, or the request fails
PollFails(c) ==
    /\ go[c] = "poll"
    /\ go' = [go EXCEPT ![c] = "select"]
    /\ UNCHANGED <<ready, passed, remaining, ctx, main, witnessed>>

\* mutants: a channel without buffer; a goroutine that goes on after its report
ReportUnbuffered(c) ==
    /\ go[c] = "report"
    /\ passed = 0 /\ main = "waiting"
    /\ passed' = passed + 1
    /\ go' = [go EXCEPT ![c] = "reported"]
    /\ UNCHANGED <<ready, remaining, ctx, main, witnessed>>

ReportAgain(c) ==
    /\ go[c] = "report"
    /\ passed < Cardinality(Checks)
    /\ passed' = passed + 1
    /\ go' = [go EXCEPT ![c] = "select"]
    /\ UNCHANGED <<ready, remaining, ctx, main, witnessed>>

\* the send, which blocks while the buffer is full
Report(c) ==
    /\ go[c] = "report"
    /\ passed < Cardinality(Checks)
    /\ passed' = passed + 1
    /\ go' = [go EXCEPT ![c] = "reported"]
    /\ UNCHANGED <<ready, remaining, ctx, main, witnessed>>

\* two seconds later
PollAgain(c) ==
    /\ go[c] = "select"
    /\ go' = [go EXCEPT ![c] = "poll"]
    /\ UNCHANGED <<ready, passed, remaining, ctx, main, witnessed>>

SeesDone(c) ==
    /\ go[c] = "select"
    /\ ctx = "done"
    /\ go' = [go EXCEPT ![c] = "cancelled"]
    /\ UNCHANGED <<ready, passed, remaining, ctx, main, witnessed>>

-----------------------------------------------------------------------------
(* The caller *)

\* mutant: an empty channel is taken for a report
ReceiveUnguarded ==
    /\ main = "waiting"
    /\ passed' = passed - 1
    /\ remaining' = remaining - 1
    /\ \/ remaining > 1 /\ UNCHANGED <<ctx, main>>
       \/ remaining = 1 /\ ctx' = "done" /\ main' = "nil"
    /\ UNCHANGED <<ready, go, witnessed>>

\* the last report ends the loop, and the deferred cancel ends the context
Receive ==
    /\ main = "waiting"
    /\ passed > 0
    /\ passed' = passed - 1
    /\ remaining' = remaining - 1
    /\ \/ remaining > 1 /\ UNCHANGED <<ctx, main>>
       \/ remaining = 1 /\ ctx' = "done" /\ main' = "nil"
    /\ UNCHANGED <<ready, go, witnessed>>

Expire ==
    /\ main = "waiting"
    /\ ctx = "done"
    /\ main' = "error"
    /\ UNCHANGED <<ready, go, passed, remaining, ctx, witnessed>>

-----------------------------------------------------------------------------
(* The surroundings *)

\* the deadline passes or the caller's context is cancelled
Deadline ==
    /\ ctx = "open"
    /\ ctx' = "done"
    /\ UNCHANGED <<ready, go, passed, remaining, main, witnessed>>

ConditionChanges(c) ==
    /\ ready' = [ready EXCEPT ![c] = ~@]
    /\ UNCHANGED <<go, passed, remaining, ctx, main, witnessed>>

-----------------------------------------------------------------------------

Goroutine(c) == PollPasses(c) \/ PollFails(c) \/ Report(c) \/ PollAgain(c) \/ SeesDone(c)

Next ==
    \/ \E c \in Checks : Goroutine(c)
    \/ Receive \/ Expire \/ Deadline
    \/ \E c \in Checks : ConditionChanges(c)

\* Goroutines and the caller are scheduled, every request returns (the client has
\* a timeout), and every caller's context has a deadline.  A select that begins
\* with the context done takes that case, as its timer has just been started: so
\* SeesDone cannot be passed over for ever.
Fairness ==
    /\ \A c \in Checks : WF_vars(Goroutine(c)) /\ SF_vars(SeesDone(c))
    /\ WF_vars(Receive \/ Expire)
    /\ WF_vars(Deadline)

Safety == Init /\ [][Next]_vars

Spec == Safety /\ Fairness

-----------------------------------------------------------------------------
(* Properties *)

TypeOK ==
    /\ ready \in [Checks -> BOOLEAN]
    /\ go \in [Checks -> GoStates]
    /\ passed \in 0..Cardinality(Checks)
    /\ remaining \in 0..Cardinality(Checks)
    /\ ctx \in {"open", "done"}
    /\ main \in {"waiting", "nil", "error"}
    /\ witnessed \subseteq Checks

Abstract == INSTANCE Readiness WITH confirmed <- witnessed, result <- main

\* waitAllReady does what its callers rely on: it returns nil only after every
\* check, not only the right number of reports, has passed.
ImplementsReadiness == Abstract!Spec

\* The wait returns, and no goroutine outlives it for ever: not after success, and
\* not when the caller gave up and nobody receives any more (CR5's "leaked all four
\* goroutines").
WaitEnds == <>[](/\ main # "waiting"
                 /\ \A c \in Checks : go[c] \in {"reported", "cancelled"})
=============================================================================
