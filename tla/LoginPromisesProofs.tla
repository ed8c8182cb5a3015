------------------------ MODULE LoginPromisesProofs -------------------------
(***************************************************************************)
(* Proofs about two of the abstract specifications the login flow          *)
(* implements, for every value of their constants: what a store of         *)
(* one-time tickets promises, and what the rate limit of logins does.      *)
(***************************************************************************)
EXTENDS OneTimeTicket, LoginLimiter, FiniteSetTheorems, TLAPS

-----------------------------------------------------------------------------
(* One-time tickets.                                                       *)

\* The functions are total on the tickets.
TicketInv ==
  /\ DOMAIN state = Ticket
  /\ DOMAIN subject = Ticket
  /\ DOMAIN answers = Ticket
  /\ AnsweredAtMostOnce

LEMMA TicketStep == TicketInv /\ [TicketNext]_ticketVars => TicketInv'
<1> SUFFICES ASSUME TicketInv, [TicketNext]_ticketVars PROVE TicketInv'
  OBVIOUS
<1> USE DEF TicketInv, AnsweredAtMostOnce
<1>1. ASSUME NEW t \in Ticket, NEW s \in Subject, Issue(t, s) PROVE TicketInv'
  BY <1>1 DEF Issue
<1>2. ASSUME NEW t \in Ticket, Redeem(t) PROVE TicketInv'
  <2>1. answers[t] = <<>> /\ answers'[t] = Append(<<>>, subject[t]) /\ state'[t] = "redeemed"
    BY <1>2 DEF Redeem
  <2>2. answers'[t] = <<subject'[t]>>
    BY <1>2, <2>1 DEF Redeem
  <2>3. \A s \in Ticket \ {t} : answers'[s] = answers[s] /\ state'[s] = state[s]
    BY <1>2 DEF Redeem
  <2>. QED
    BY <1>2, <2>1, <2>2, <2>3 DEF Redeem
<1>3. ASSUME NEW T \in SUBSET Ticket, GiveUp(T) PROVE TicketInv'
  BY <1>3 DEF GiveUp
<1>4. CASE PassTime
  BY <1>4 DEF PassTime
<1>5. CASE UNCHANGED ticketVars
  BY <1>5 DEF ticketVars
<1>. QED
  BY <1>1, <1>2, <1>3, <1>4, <1>5 DEF TicketNext

\* Whatever a store that behaves like OneTimeTicket is used for, a ticket is
\* answered at most once, and with the subject it was issued for.
THEOREM TicketsAnsweredOnce == TicketSpec => []AnsweredAtMostOnce
<1>1. TicketInit => TicketInv
  BY DEF TicketInit, TicketInv, AnsweredAtMostOnce
<1>2. TicketInv => AnsweredAtMostOnce
  BY DEF TicketInv
<1>. QED
  BY <1>1, <1>2, TicketStep, PTL DEF TicketSpec

-----------------------------------------------------------------------------
(* The rate limit, for any set of keys, any finite number of attempts and  *)
(* every limit, window and number of open requests.                        *)

USE LimitAssumption

\* Failures counted for k and attempts that may still add one.
Pending(k) == Counted(k) \cup Passed(k)

OpenBounded == Cardinality(Open) <= Concurrency

PendingBounded ==
  \A k \in Key : Cardinality(Pending(k)) < MaxAttempts + Concurrency

\* The inductive invariant.  Pending counts the rows and the attempts together,
\* so that recording a failure, which turns one into the other, leaves it
\* alone; OpenBounded is what a passed check may add.
LimiterInv ==
  /\ LimiterTypeOK
  /\ OpenOrCounted
  /\ OpenBounded
  /\ PendingBounded

\* Every set of attempts is finite, and a smaller one has fewer members.
LEMMA SubsetCardinality ==
  ASSUME NEW S \in SUBSET Attempt, NEW T \in SUBSET S
  PROVE  /\ IsFiniteSet(S) /\ IsFiniteSet(T)
         /\ Cardinality(S) \in Nat /\ Cardinality(T) \in Nat
         /\ Cardinality(T) <= Cardinality(S)
<1>1. IsFiniteSet(S)
  BY AttemptAssumption, FS_Subset
<1>2. IsFiniteSet(T) /\ Cardinality(T) <= Cardinality(S)
  BY <1>1, FS_Subset
<1> QED
  BY <1>1, <1>2, FS_CardinalityType

LEMMA InitInv == LimiterInit => LimiterInv
<1> SUFFICES ASSUME LimiterInit PROVE LimiterInv
  OBVIOUS
<1>1. LimiterTypeOK
  BY DEF LimiterInit, LimiterTypeOK, Phase, OutOfWindow
<1>2. OpenOrCounted
  BY DEF LimiterInit, OpenOrCounted, Open, OutOfWindow
<1>3. Open = {}
  BY DEF LimiterInit, Open
<1>4. \A k \in Key : Pending(k) = {}
  BY DEF LimiterInit, Pending, Counted, Passed
<1> QED
  BY <1>1, <1>2, <1>3, <1>4, FS_EmptySet DEF LimiterInv, OpenBounded, PendingBounded

\* Types, and the bookkeeping of keys, are kept by every step.
LEMMA StepTypes ==
  ASSUME LimiterTypeOK, OpenOrCounted, [LimiterNext]_limiterVars
  PROVE  LimiterTypeOK' /\ OpenOrCounted'
<1> USE DEF LimiterTypeOK, OpenOrCounted, Open, OutOfWindow, Phase
<1>1. ASSUME NEW a \in Attempt, NEW k \in Key, Submit(a, k)
      PROVE  LimiterTypeOK' /\ OpenOrCounted'
  BY <1>1 DEF Submit
<1>2. ASSUME NEW a \in Attempt, Refuse(a) \/ Succeed(a)
      PROVE  LimiterTypeOK' /\ OpenOrCounted'
  BY <1>2 DEF Refuse, Succeed
<1>3. ASSUME NEW a \in Attempt, Pass(a)
      PROVE  LimiterTypeOK' /\ OpenOrCounted'
  BY <1>3 DEF Pass
<1>4. ASSUME NEW a \in Attempt, Fail(a)
      PROVE  LimiterTypeOK' /\ OpenOrCounted'
  BY <1>4 DEF Fail
<1>5. ASSUME NEW D \in SUBSET Open, Abort(D)
      PROVE  LimiterTypeOK' /\ OpenOrCounted'
  BY <1>5 DEF Abort
<1>6. CASE Tick
  BY <1>6 DEF Tick
<1>7. CASE UNCHANGED limiterVars
  BY <1>7 DEF limiterVars
<1> QED
  BY <1>1, <1>2, <1>3, <1>4, <1>5, <1>6, <1>7 DEF LimiterNext

\* No step but a submission opens a request, and that one looks at the bound.
LEMMA StepOpen ==
  ASSUME LimiterTypeOK, OpenOrCounted, OpenBounded, [LimiterNext]_limiterVars
  PROVE  OpenBounded'
<1>1. ASSUME NEW a \in Attempt, NEW k \in Key, Submit(a, k)
      PROVE  OpenBounded'
  <2>1. Open' = Open \cup {a}
    BY <1>1 DEF Submit, Open, LimiterTypeOK
  <2>2. IsFiniteSet(Open) /\ Cardinality(Open) \in Nat
    BY SubsetCardinality DEF Open
  <2>3. Cardinality(Open') \in {Cardinality(Open), Cardinality(Open) + 1}
    BY <2>1, <2>2, FS_AddElement
  <2>4. Cardinality(Open) < Concurrency
    BY <1>1 DEF Submit
  <2> QED
    BY <2>2, <2>3, <2>4 DEF OpenBounded
<1>2. ASSUME Open' \subseteq Open
      PROVE  OpenBounded'
  <2>1. Open \in SUBSET Attempt
    BY DEF Open
  <2>2. /\ Cardinality(Open') \in Nat /\ Cardinality(Open) \in Nat
        /\ Cardinality(Open') <= Cardinality(Open)
    BY <1>2, <2>1, SubsetCardinality
  <2> QED
    BY <2>2 DEF OpenBounded
<1>3. ASSUME NEW a \in Attempt, Refuse(a) \/ Pass(a) \/ Fail(a) \/ Succeed(a)
      PROVE  Open' \subseteq Open
  BY <1>3 DEF Refuse, Pass, Fail, Succeed, Open, LimiterTypeOK
<1>4. ASSUME NEW D \in SUBSET Open, Abort(D)
      PROVE  Open' \subseteq Open
  BY <1>4 DEF Abort, Open
<1>5. ASSUME Tick \/ UNCHANGED limiterVars
      PROVE  Open' \subseteq Open
  BY <1>5 DEF Tick, limiterVars, Open
<1> QED
  BY <1>1, <1>2, <1>3, <1>4, <1>5 DEF LimiterNext

\* Only a check that is passed adds to Pending, and it found fewer than
\* MaxAttempts rows; the attempts that passed before it are open.
LEMMA StepPending ==
  ASSUME LimiterInv, OpenBounded', [LimiterNext]_limiterVars
  PROVE  PendingBounded'
<1> USE DEF LimiterInv
<1>1. ASSUME NEW k \in Key, Pending(k)' \subseteq Pending(k)
      PROVE  Cardinality(Pending(k)') < MaxAttempts + Concurrency
  <2>1. Pending(k) \in SUBSET Attempt
    BY DEF Pending, Counted, Passed
  <2>2. /\ Cardinality(Pending(k)') \in Nat /\ Cardinality(Pending(k)) \in Nat
        /\ Cardinality(Pending(k)') <= Cardinality(Pending(k))
    BY <1>1, <2>1, SubsetCardinality
  <2>3. Cardinality(Pending(k)) < MaxAttempts + Concurrency
    BY DEF PendingBounded
  <2> QED
    BY <2>2, <2>3
<1>2. ASSUME NEW a \in Attempt, NEW k \in Key, Submit(a, k), NEW l \in Key
      PROVE  Pending(l)' \subseteq Pending(l)
  BY <1>2 DEF Submit, Pending, Counted, Passed, LimiterTypeOK, OpenOrCounted, Open, OutOfWindow
<1>3. ASSUME NEW a \in Attempt, Refuse(a) \/ Succeed(a) \/ Fail(a), NEW l \in Key
      PROVE  Pending(l)' \subseteq Pending(l)
  BY <1>3 DEF Refuse, Succeed, Fail, Pending, Counted, Passed, LimiterTypeOK, Phase
<1>4. ASSUME NEW D \in SUBSET Open, Abort(D), NEW l \in Key
      PROVE  Pending(l)' \subseteq Pending(l)
  BY <1>4, LimitAssumption DEF Abort, Pending, Counted, Passed, LimiterTypeOK, Phase, Open
<1>5. ASSUME Tick, NEW l \in Key
      PROVE  Pending(l)' \subseteq Pending(l)
  BY <1>5, LimitAssumption DEF Tick, Pending, Counted, Passed, LimiterTypeOK, Phase, OutOfWindow
<1>6. ASSUME UNCHANGED limiterVars, NEW l \in Key
      PROVE  Pending(l)' \subseteq Pending(l)
  BY <1>6 DEF limiterVars, Pending, Counted, Passed
<1>7. ASSUME NEW a \in Attempt, Pass(a), NEW l \in Key
      PROVE  Cardinality(Pending(l)') < MaxAttempts + Concurrency
  <2>1. CASE l # key[a]
    <3>1. Pending(l)' \subseteq Pending(l)
      BY <1>7, <2>1 DEF Pass, Pending, Counted, Passed, LimiterTypeOK, Phase
    <3> QED
      BY <3>1, <1>1
  <2>2. CASE l = key[a]
    <3>1. Counted(l)' = Counted(l) /\ Counted(l) \in SUBSET Attempt
      BY <1>7 DEF Pass, Counted
    <3>2. Passed(l)' \in SUBSET Open' /\ Open' \in SUBSET Attempt
      BY DEF Passed, Open
    <3>3. IsFiniteSet(Counted(l)) /\ Cardinality(Counted(l)) \in Nat
      BY <3>1, SubsetCardinality
    <3>4. /\ IsFiniteSet(Passed(l)') /\ Cardinality(Passed(l)') \in Nat
          /\ Cardinality(Open') \in Nat /\ Cardinality(Passed(l)') <= Cardinality(Open')
      BY <3>2, SubsetCardinality
    <3>5. Cardinality(Counted(l)) < MaxAttempts
      BY <1>7, <2>2, <3>3 DEF Pass, Limited
    <3>6. Cardinality(Passed(l)') <= Concurrency
      BY <3>4 DEF OpenBounded
    <3>7. Cardinality(Counted(l) \cap Passed(l)') \in Nat
      BY <3>3, FS_Intersection, FS_CardinalityType
    <3>8. Cardinality(Counted(l) \cup Passed(l)')
            = Cardinality(Counted(l)) + Cardinality(Passed(l)')
                - Cardinality(Counted(l) \cap Passed(l)')
      BY <3>3, <3>4, FS_Union
    <3>9. Pending(l)' = Counted(l) \cup Passed(l)'
      BY <3>1 DEF Pending
    <3>10. Cardinality(Counted(l)) + Cardinality(Passed(l)')
             - Cardinality(Counted(l) \cap Passed(l)') < MaxAttempts + Concurrency
      BY <3>3, <3>4, <3>5, <3>6, <3>7
    <3> QED
      BY <3>8, <3>9, <3>10
  <2> QED
    BY <2>1, <2>2
<1>8. SUFFICES ASSUME NEW l \in Key
               PROVE  Cardinality(Pending(l)') < MaxAttempts + Concurrency
  BY DEF PendingBounded
<1> QED
  BY <1>1, <1>2, <1>3, <1>4, <1>5, <1>6, <1>7 DEF LimiterNext

THEOREM LimiterInvariant == LimiterSpec => []LimiterInv
<1>1. LimiterInv /\ [LimiterNext]_limiterVars => LimiterInv'
  BY StepTypes, StepOpen, StepPending DEF LimiterInv
<1> QED
  BY InitInv, <1>1, PTL DEF LimiterSpec

\* Every variable keeps its type.
THEOREM LimiterTypeCorrect == LimiterSpec => []LimiterTypeOK
<1>1. LimiterInv => LimiterTypeOK
  BY DEF LimiterInv
<1> QED
  BY LimiterInvariant, <1>1, PTL

\* The rows and the attempts of Pending are different attempts, so the bound on
\* it is a bound on the sum.
LEMMA PendingIsSum ==
  ASSUME LimiterInv, NEW k \in Key
  PROVE  Cardinality(Pending(k)) = Cardinality(Counted(k)) + Cardinality(Passed(k))
<1>1. Counted(k) \in SUBSET Attempt /\ Passed(k) \in SUBSET Attempt
  BY DEF Counted, Passed
<1>2. Counted(k) \cap Passed(k) = {}
  BY DEF Counted, Passed, LimiterInv, LimiterTypeOK, OpenOrCounted, Open, OutOfWindow
<1>3. /\ IsFiniteSet(Counted(k)) /\ Cardinality(Counted(k)) \in Nat
      /\ IsFiniteSet(Passed(k)) /\ Cardinality(Passed(k)) \in Nat
  BY <1>1, SubsetCardinality
<1>4. Cardinality({}) = 0
  BY FS_EmptySet
<1>5. Cardinality(Counted(k) \cup Passed(k))
        = Cardinality(Counted(k)) + Cardinality(Passed(k)) - Cardinality(Counted(k) \cap Passed(k))
  BY <1>3, FS_Union
<1>6. Cardinality(Counted(k) \cap Passed(k)) = 0
  BY <1>2, <1>4
<1>7. Cardinality(Counted(k) \cup Passed(k)) = Cardinality(Counted(k)) + Cardinality(Passed(k))
  BY <1>3, <1>5, <1>6
<1> QED
  BY <1>7 DEF Pending

\* However requests interleave, fewer than MaxAttempts + Concurrency failures
\* are counted for a key in one window: the separate count and insert of
\* authenticate overshoot the limit by less than the number of requests that
\* can be open at once.
THEOREM OvershootIsBounded == LimiterSpec => []OvershootBounded
<1>1. LimiterInv => OvershootBounded
  <2> SUFFICES ASSUME LimiterInv, NEW k \in Key
               PROVE  Cardinality(Counted(k)) + Cardinality(Passed(k)) < MaxAttempts + Concurrency
    BY DEF OvershootBounded
  <2> QED
    BY PendingIsSum DEF LimiterInv, PendingBounded
<1> QED
  BY LimiterInvariant, <1>1, PTL

=============================================================================
