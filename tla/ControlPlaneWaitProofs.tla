----------------------- MODULE ControlPlaneWaitProofs -----------------------
(***************************************************************************)
(* waitAllReady keeps the safety half of Readiness for any number of       *)
(* checks: counting the reports is enough, because each goroutine reports  *)
(* at most once.                                                           *)
(***************************************************************************)
EXTENDS ControlPlaneWait, FiniteSetTheorems, TLAPS

N == Cardinality(Checks)

Reported == {c \in Checks : go[c] = "reported"}

\* the reports in the channel and the reports received are the goroutines that
\* have reported, each of them after a poll that passed
CountInv ==
    /\ TypeOK
    /\ passed + (N - remaining) = Cardinality(Reported)
    /\ main = "waiting" => remaining > 0
    /\ \A c \in Checks : go[c] \in {"report", "reported"} => c \in witnessed

\* The number of checks is a positive number, and so is bounded what has reported.
LEMMA Counting ==
    /\ N \in Nat \ {0}
    /\ IsFiniteSet(Reported) /\ Cardinality(Reported) \in 0..N
    /\ Cardinality(Reported) = N => Reported = Checks
  <1>1. Reported \subseteq Checks
    BY DEF Reported
  <1>2. QED
    BY <1>1, ChecksAssumption, FS_CardinalityType, FS_EmptySet, FS_Subset DEF N

\* A goroutine that reports, and has not yet, adds one to those that have.
LEMMA ReportCounts ==
    ASSUME TypeOK, NEW c \in Checks, go[c] # "reported",
           go' = [go EXCEPT ![c] = "reported"]
    PROVE  Cardinality(Reported') = Cardinality(Reported) + 1
  <1>1. Reported' = Reported \union {c} /\ c \notin Reported
    BY DEF Reported, TypeOK
  <1>2. QED  BY <1>1, Counting, FS_AddElement

\* A goroutine that goes elsewhere leaves that number alone.
LEMMA OthersDoNotCount ==
    ASSUME TypeOK, NEW c \in Checks, NEW s \in GoStates, go[c] # "reported", s # "reported",
           go' = [go EXCEPT ![c] = s]
    PROVE  Reported' = Reported
  BY DEF Reported, TypeOK

\* Every step keeps the count.
LEMMA CountStep == CountInv /\ [Next]_vars => CountInv'
  <1> SUFFICES ASSUME CountInv, [Next]_vars PROVE CountInv'
    OBVIOUS
  <1>t. TypeOK /\ N \in Nat \ {0} /\ N = Cardinality(Checks)
    BY Counting DEF CountInv, N
  <1>1. ASSUME NEW c \in Checks, PollPasses(c) PROVE CountInv'
    <2>1. Reported' = Reported
      BY <1>t, <1>1, OthersDoNotCount DEF PollPasses, GoStates
    <2>2. TypeOK'
      BY <1>t, <1>1 DEF PollPasses, TypeOK, GoStates
    <2>3. \A d \in Checks : go'[d] \in {"report", "reported"} => d \in witnessed'
      BY <1>t, <1>1 DEF PollPasses, TypeOK, CountInv
    <2>4. QED  BY <1>1, <2>1, <2>2, <2>3 DEF CountInv, PollPasses
  <1>2. ASSUME NEW c \in Checks, PollFails(c) PROVE CountInv'
    <2>1. Reported' = Reported
      BY <1>t, <1>2, OthersDoNotCount DEF PollFails, GoStates
    <2>2. TypeOK'
      BY <1>t, <1>2 DEF PollFails, TypeOK, GoStates
    <2>3. \A d \in Checks : go'[d] \in {"report", "reported"} => d \in witnessed'
      BY <1>t, <1>2 DEF PollFails, TypeOK, CountInv
    <2>4. QED  BY <1>2, <2>1, <2>2, <2>3 DEF CountInv, PollFails
  <1>3. ASSUME NEW c \in Checks, Report(c) PROVE CountInv'
    <2>1. Cardinality(Reported') = Cardinality(Reported) + 1
      BY <1>t, <1>3, ReportCounts DEF Report
    <2>2. TypeOK'
      BY <1>t, <1>3 DEF Report, TypeOK, GoStates
    <2>3. \A d \in Checks : go'[d] \in {"report", "reported"} => d \in witnessed'
      BY <1>t, <1>3 DEF Report, TypeOK, CountInv
    <2>4. passed' + (N - remaining') = Cardinality(Reported')
      BY <1>t, <1>3, <2>1, Counting DEF Report, TypeOK, CountInv
    <2>5. QED  BY <1>3, <2>2, <2>3, <2>4 DEF CountInv, Report
  <1>4. ASSUME NEW c \in Checks, PollAgain(c) PROVE CountInv'
    <2>1. Reported' = Reported
      BY <1>t, <1>4, OthersDoNotCount DEF PollAgain, GoStates
    <2>2. TypeOK'
      BY <1>t, <1>4 DEF PollAgain, TypeOK, GoStates
    <2>3. \A d \in Checks : go'[d] \in {"report", "reported"} => d \in witnessed'
      BY <1>t, <1>4 DEF PollAgain, TypeOK, CountInv
    <2>4. QED  BY <1>4, <2>1, <2>2, <2>3 DEF CountInv, PollAgain
  <1>5. ASSUME NEW c \in Checks, SeesDone(c) PROVE CountInv'
    <2>1. Reported' = Reported
      BY <1>t, <1>5, OthersDoNotCount DEF SeesDone, GoStates
    <2>2. TypeOK'
      BY <1>t, <1>5 DEF SeesDone, TypeOK, GoStates
    <2>3. \A d \in Checks : go'[d] \in {"report", "reported"} => d \in witnessed'
      BY <1>t, <1>5 DEF SeesDone, TypeOK, CountInv
    <2>4. QED  BY <1>5, <2>1, <2>2, <2>3 DEF CountInv, SeesDone
  <1>6. CASE Receive
    <2>1. /\ passed \in 0..N /\ remaining \in 0..N /\ passed > 0 /\ main = "waiting"
          /\ passed' = passed - 1 /\ remaining' = remaining - 1
          /\ UNCHANGED <<ready, go, witnessed>>
      BY <1>t, <1>6 DEF Receive, TypeOK
    <2>a. remaining > 0
      BY <2>1 DEF CountInv
    <2>b. \/ remaining > 1 /\ main' = main
          \/ remaining = 1 /\ main' = "nil"
      BY <1>6, Zenon DEF Receive
    <2>2. /\ remaining > 0
          /\ \/ remaining > 1 /\ main' = main
             \/ remaining = 1 /\ main' = "nil"
      BY <2>a, <2>b
    <2>3. TypeOK'
      BY <1>t, <1>6, <2>1, <2>2 DEF Receive, TypeOK
    <2>4. Reported' = Reported
      BY <2>1 DEF Reported
    <2>5. passed' + (N - remaining') = Cardinality(Reported')
      BY <1>t, <2>1, <2>4, Counting DEF CountInv
    <2>6. main' = "waiting" => remaining' > 0
      BY <2>1, <2>2
    <2>7. QED  BY <2>1, <2>3, <2>5, <2>6 DEF CountInv
  <1>7. CASE Expire
    <2>1. Reported' = Reported
      BY <1>7 DEF Expire, Reported
    <2>2. QED  BY <1>t, <1>7, <2>1 DEF Expire, CountInv, TypeOK
  <1>8. CASE Deadline
    <2>1. Reported' = Reported
      BY <1>8 DEF Deadline, Reported
    <2>2. QED  BY <1>t, <1>8, <2>1 DEF Deadline, CountInv, TypeOK
  <1>9. ASSUME NEW c \in Checks, ConditionChanges(c) PROVE CountInv'
    <2>1. Reported' = Reported
      BY <1>9 DEF ConditionChanges, Reported
    <2>2. ready' \in [Checks -> BOOLEAN]
      BY <1>t, <1>9 DEF ConditionChanges, TypeOK
    <2>3. QED  BY <1>t, <1>9, <2>1, <2>2 DEF ConditionChanges, CountInv, TypeOK
  <1>10. CASE UNCHANGED vars
    BY <1>t, <1>10 DEF vars, CountInv, TypeOK, Reported
  <1>11. QED
    BY <1>1, <1>2, <1>3, <1>4, <1>5, <1>6, <1>7, <1>8, <1>9, <1>10 DEF Next, Goroutine

\* The count is right when the wait begins.
LEMMA CountInit == Init => CountInv
  <1> SUFFICES ASSUME Init PROVE CountInv
    OBVIOUS
  <1>1. N \in Nat \ {0} /\ N = Cardinality(Checks)
    BY Counting DEF N
  <1>2. Cardinality(Reported) = 0
    <2>1. Reported = {}
      BY DEF Init, Reported
    <2>2. QED  BY <2>1, FS_EmptySet
  <1>3. TypeOK
    BY <1>1 DEF Init, TypeOK, GoStates
  <1>4. QED  BY <1>1, <1>2, <1>3 DEF Init, CountInv

\* The types of ControlPlaneWait, for any set of checks.
THEOREM TypeCorrect == Safety => []TypeOK
  <1>1. CountInv => TypeOK
    BY DEF CountInv
  <1>2. QED  BY <1>1, CountInit, CountStep, PTL DEF Safety

\* For any set of checks waitAllReady keeps what its callers rely on: it returns
\* nil only after every one of them was seen ready, and never changes its verdict.
THEOREM WaitImplementsReadiness == Safety => ImplementsReadiness
  <1>1. Init => Abstract!Init
    BY DEF Init, Abstract!Init
  <1>2. CountInv /\ [Next]_vars => [Abstract!Next]_(Abstract!vars)
    <2> SUFFICES ASSUME CountInv, [Next]_vars
                 PROVE  Abstract!Next \/ UNCHANGED <<witnessed, main>>
      BY DEF Abstract!vars
    <2>1. ASSUME NEW c \in Checks, PollPasses(c) PROVE Abstract!Next
      BY <2>1 DEF PollPasses, Abstract!Next, Abstract!Confirm
    <2>2. CASE Receive /\ main' # main
      <3>1. /\ passed \in 0..N /\ passed > 0 /\ remaining = 1 /\ main = "waiting" /\ main' = "nil"
            /\ witnessed' = witnessed
        BY <2>2 DEF Receive, CountInv, TypeOK, N
      <3>2. Cardinality(Reported) = N
        BY <3>1, Counting DEF CountInv
      <3>3. Reported = Checks
        BY <3>2, Counting
      <3>4. witnessed = Checks
        BY <3>3 DEF CountInv, TypeOK, Reported
      <3>5. QED  BY <3>1, <3>4 DEF Abstract!Next, Abstract!Succeed
    <2>3. CASE Receive /\ main' = main
      BY <2>3 DEF Receive
    <2>4. CASE Expire
      BY <2>4 DEF Expire, Abstract!Next, Abstract!GiveUp
    <2>5. ASSUME NEW c \in Checks,
                 \/ PollFails(c) \/ Report(c) \/ PollAgain(c) \/ SeesDone(c)
                 \/ ConditionChanges(c)
          PROVE  UNCHANGED <<witnessed, main>>
      BY <2>5 DEF PollFails, Report, PollAgain, SeesDone, ConditionChanges
    <2>6. CASE Deadline \/ UNCHANGED vars
      BY <2>6 DEF Deadline, vars
    <2>7. QED  BY <2>1, <2>2, <2>3, <2>4, <2>5, <2>6 DEF Next, Goroutine
  <1>3. QED  BY <1>1, <1>2, CountInit, CountStep, PTL DEF Safety, ImplementsReadiness, Abstract!Spec
=============================================================================
