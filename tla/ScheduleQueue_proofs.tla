----------------------- MODULE ScheduleQueue_proofs -----------------------
(***************************************************************************)
(* Proofs about ScheduleQueue, for every set of pull payments and every    *)
(* bound.                                                                  *)
(***************************************************************************)
EXTENDS ScheduleQueue, SequenceTheorems, TLAPS

LEMMA CopiesAreEntries ==
    ASSUME NEW id \in PullPaymentID, NEW k \in Nat
    PROVE  Copies(id, k) \in Seq(PullPaymentID) /\ Len(Copies(id, k)) = k
BY DEF Copies

\* A non-empty queue splits into a pull payment and a shorter queue.
LEMMA HeadAndTail ==
    ASSUME NEW q \in Seq(PullPaymentID), q # <<>>
    PROVE  /\ Head(q) \in PullPaymentID
           /\ Tail(q) \in Seq(PullPaymentID)
           /\ Len(Tail(q)) = Len(q) - 1
BY HeadTailProperties

-----------------------------------------------------------------------------
(* The type invariant, and with it: one pending drip for each waiting entry,*)
(* and the flag is up while an execution is awaited.                        *)
FlagCoversRunning == running # NoID => isExecuting

QueueInv == QueueTypeOK /\ DripsMatchQueue /\ FlagCoversRunning

\* queue() called k times keeps it.
LEMMA QueueKeepsInv ==
    ASSUME QueueInv, NEW id \in PullPaymentID, NEW k \in Nat, k >= 1,
           NEW missing, Queue(id, k, missing)
    PROVE  QueueInv'
<1> USE QueueAssumption DEF QueueInv, QueueTypeOK, DripsMatchQueue, FlagCoversRunning
<1> DEFINE q == executionQueue \o Copies(id, k)
<1>1. Copies(id, k) \in Seq(PullPaymentID) /\ Len(Copies(id, k)) = k
  BY CopiesAreEntries
<1>2. q \in Seq(PullPaymentID) /\ Len(q) = Len(executionQueue) + k
  BY <1>1
<1>3. CASE isExecuting
  <2>1. /\ executionQueue' = q
        /\ drips' = drips + k
        /\ UNCHANGED <<isExecuting, running>>
    BY <1>3 DEF Queue
  <2> HIDE DEF q
  <2>. QED
    BY <1>2, <2>1
<1>4. CASE ~isExecuting
  <2>1. q # <<>>
    BY <1>2
  <2>2. /\ Head(q) \in PullPaymentID
        /\ Tail(q) \in Seq(PullPaymentID)
        /\ Len(Tail(q)) = Len(q) - 1
    BY <1>2, <2>1, HeadAndTail
  <2> HIDE DEF q
  <2>3. /\ isExecuting' = TRUE
        /\ executionQueue' = Tail(q)
        /\ running' = IF Head(q) \in missing THEN NoID ELSE Head(q)
        /\ drips' = drips + (k - 1)
    BY <1>4 DEF Queue, Execute, q
  <2>. QED
    BY <1>2, <2>2, <2>3
<1>. QED
  BY <1>3, <1>4

\* A drip, a return and a throw keep it.
LEMMA DripKeepsInv ==
    ASSUME QueueInv, NEW missing, Drip(missing)
    PROVE  QueueInv'
<1> USE QueueAssumption DEF QueueInv, QueueTypeOK, DripsMatchQueue, FlagCoversRunning
<1>1. /\ Head(executionQueue) \in PullPaymentID
      /\ Tail(executionQueue) \in Seq(PullPaymentID)
      /\ Len(Tail(executionQueue)) = Len(executionQueue) - 1
  BY HeadAndTail DEF Drip
<1>. QED
  BY <1>1 DEF Drip, Execute

LEMMA EndKeepsInv ==
    ASSUME QueueInv, Finish \/ Throw \/ UNCHANGED queueVars
    PROVE  QueueInv'
<1> USE QueueAssumption DEF QueueInv, QueueTypeOK, DripsMatchQueue, FlagCoversRunning
<1>1. CASE Finish
  BY <1>1 DEF Finish
<1>2. CASE Throw
  BY <1>2 DEF Throw
<1>3. CASE UNCHANGED queueVars
  BY <1>3 DEF queueVars
<1>. QED
  BY <1>1, <1>2, <1>3

LEMMA InitHasInv == QueueInit => QueueInv
<1> SUFFICES ASSUME QueueInit PROVE QueueInv
  OBVIOUS
<1>1. <<>> \in Seq(PullPaymentID) /\ Len(<<>>) = 0
  BY EmptySeq
<1>2. QueueTypeOK
  BY <1>1 DEF QueueInit, QueueTypeOK
<1>3. DripsMatchQueue /\ FlagCoversRunning
  BY <1>1 DEF QueueInit, DripsMatchQueue, FlagCoversRunning
<1>. QED
  BY <1>2, <1>3 DEF QueueInv

LEMMA QueueInvInductive == QueueInv /\ [QueueNext]_queueVars => QueueInv'
<1> SUFFICES ASSUME QueueInv, [QueueNext]_queueVars PROVE QueueInv'
  OBVIOUS
<1>1. ASSUME NEW id \in PullPaymentID, NEW k \in 1..Burst, NEW missing,
             Queue(id, k, missing)
      PROVE  QueueInv'
  <2>1. k \in Nat /\ k >= 1
    BY QueueAssumption
  <2>. QED
    BY <1>1, <2>1, QueueKeepsInv
<1>2. ASSUME NEW missing, Drip(missing)
      PROVE  QueueInv'
  BY <1>2, DripKeepsInv
<1>3. CASE Finish \/ Throw \/ UNCHANGED queueVars
  BY <1>3, EndKeepsInv
<1>. QED
  BY <1>1, <1>2, <1>3 DEF QueueNext, Serving

(* In every reachable state of the queue, QueueInv holds.                   *)
THEOREM QueueInvariant == QueueSafety => []QueueInv
<1>. QED
  BY InitHasInv, QueueInvInductive, PTL DEF QueueSafety

(* No waiting entry is without the timer that picks it up, and no timer     *)
(* polls for an entry that is gone.                                         *)
THEOREM DripsAlwaysMatchQueue == QueueSafety => []DripsMatchQueue
<1>1. QueueInv => DripsMatchQueue
  BY DEF QueueInv
<1>. QED
  BY <1>1, QueueInvariant, PTL

(* Executions never overlap.                                                *)
THEOREM ExecutionsNeverOverlap == QueueSafety => ExecutionsDoNotOverlap
<1> DEFINE A == running # NoID /\ running' # running => running' = NoID
<1>1. QueueInv /\ [QueueNext]_queueVars => [A]_queueVars
  <2> SUFFICES ASSUME QueueInv, QueueNext PROVE A
    OBVIOUS
  <2>1. ASSUME NEW id \in PullPaymentID, NEW k \in 1..Burst, NEW missing,
               Queue(id, k, missing)
        PROVE  A
    BY <2>1 DEF Queue, QueueInv, FlagCoversRunning
  <2>2. ASSUME NEW missing, Drip(missing)
        PROVE  A
    BY <2>2 DEF Drip, QueueInv, FlagCoversRunning
  <2>3. CASE Finish
    BY <2>3 DEF Finish
  <2>4. CASE Throw
    BY <2>4 DEF Throw
  <2>. QED
    BY <2>1, <2>2, <2>3, <2>4 DEF QueueNext, Serving
<1>. QED
  BY <1>1, QueueInvariant, PTL DEF QueueSafety, ExecutionsDoNotOverlap

-----------------------------------------------------------------------------
(* The refinement.  The entry being served and the waiting ones together    *)
(* form the serial queue's line.                                            *)

\* Starting to execute the head of q, q being all there is, moves the head
\* from the waiting entries to the one being served: the line is q.
LEMMA ExecuteKeepsLine ==
    ASSUME NEW q \in Seq(PullPaymentID), q # <<>>, Execute(q, {})
    PROVE  Line' = q
<1>1. Head(q) \in PullPaymentID /\ q = <<Head(q)>> \o Tail(q)
  BY HeadTailProperties
<1>2. running' = Head(q) /\ executionQueue' = Tail(q) /\ running' # NoID
  BY <1>1, QueueAssumption DEF Execute
<1>. QED
  BY <1>1, <1>2 DEF Line

LEMMA StepRefinesSerialQueue ==
    ASSUME QueueInv, ~MayThrow, [QueueNext]_queueVars
    PROVE  [Serial!Next]_Line
<1> USE QueueAssumption DEF QueueInv, QueueTypeOK
<1>0. Line \in Seq(PullPaymentID)
  <2>1. CASE running = NoID
    BY <2>1, EmptySeq, ConcatEmptySeq DEF Line
  <2>2. CASE running # NoID
    <3>1. <<running>> \in Seq(PullPaymentID)
      BY <2>2
    <3>. QED
      BY <2>2, <3>1, ConcatProperties DEF Line
  <2>. QED
    BY <2>1, <2>2
<1>1. ASSUME NEW id \in PullPaymentID, NEW k \in 1..Burst,
             Queue(id, k, {})
      PROVE  Serial!Submit(id, k)
  <2>1. k \in Nat /\ k >= 1
    OBVIOUS
  <2>2. Copies(id, k) \in Seq(PullPaymentID) /\ Len(Copies(id, k)) = k
    BY <2>1, CopiesAreEntries
  <2>3. Serial!Submit(id, k) <=> Line' = Line \o Copies(id, k)
    BY DEF Serial!Submit, Serial!Copies, Copies
  <2>4. CASE isExecuting
    <3>1. executionQueue' = executionQueue \o Copies(id, k) /\ running' = running
      BY <1>1, <2>4 DEF Queue
    <3>2. CASE running = NoID
      <4>1. Line = executionQueue /\ Line' = executionQueue'
        <5>1. executionQueue \o Copies(id, k) \in Seq(PullPaymentID)
          BY <2>2, ConcatProperties
        <5>. QED
          BY <3>1, <3>2, <5>1, ConcatEmptySeq DEF Line
      <4>. QED
        BY <2>3, <3>1, <4>1
    <3>3. CASE running # NoID
      <4>1. <<running>> \in Seq(PullPaymentID)
        BY <3>3
      <4>2. Line = <<running>> \o executionQueue /\ Line' = <<running>> \o executionQueue'
        BY <3>1, <3>3 DEF Line
      <4>3. (<<running>> \o executionQueue) \o Copies(id, k)
               = <<running>> \o (executionQueue \o Copies(id, k))
        BY <2>2, <4>1, ConcatAssociative
      <4>. QED
        BY <2>3, <3>1, <4>2, <4>3
    <3>. QED
      BY <3>2, <3>3
  <2>5. CASE ~isExecuting
    <3> DEFINE q == executionQueue \o Copies(id, k)
    <3>1. q \in Seq(PullPaymentID) /\ q # <<>>
      BY <2>1, <2>2
    <3>2. Execute(q, {})
      BY <1>1, <2>5 DEF Queue
    <3>3. Line' = q
      <4> HIDE DEF q
      <4>. QED
        BY <3>1, <3>2, ExecuteKeepsLine
    <3>4. running = NoID
      BY <2>5 DEF FlagCoversRunning
    <3>5. Line = executionQueue
      BY <3>4, ConcatEmptySeq DEF Line
    <3>. QED
      BY <2>3, <3>3, <3>5
  <2>. QED
    BY <2>4, <2>5
<1>2. ASSUME Drip({})
      PROVE  UNCHANGED Line
  <2>1. Line' = executionQueue
    BY <1>2, ExecuteKeepsLine DEF Drip
  <2>2. running = NoID
    BY <1>2 DEF Drip, FlagCoversRunning
  <2>. QED
    BY <2>1, <2>2, ConcatEmptySeq DEF Line
<1>3. ASSUME Finish
      PROVE  Serial!Serve
  <2>1. <<running>> \in Seq(PullPaymentID) /\ Line = <<running>> \o executionQueue
    BY <1>3 DEF Finish, Line
  <2>2. Line' = executionQueue
    BY <1>3, ConcatEmptySeq DEF Finish, Line
  <2>3. Line # <<>> /\ Tail(Line) = executionQueue
    BY <2>1
  <2>. QED
    BY <2>2, <2>3 DEF Serial!Serve
<1>4. CASE UNCHANGED queueVars
  BY <1>4 DEF queueVars, Line
<1>5. \/ \E id \in PullPaymentID, k \in 1..Burst : Queue(id, k, {})
      \/ Drip({})
      \/ Finish
      \/ UNCHANGED queueVars
  BY DEF QueueNext, Serving, Missing, Throw
<1>. QED
  BY <1>1, <1>2, <1>3, <1>4, <1>5 DEF Serial!Next

(* As long as no execution throws, the queue serves what it is handed in    *)
(* order, one entry at a time, and loses none.                              *)
THEOREM ImplementsSerialQueueSafely ==
    ~MayThrow => (QueueSafety => Serial!Safety)
<1> SUFFICES ASSUME ~MayThrow PROVE QueueSafety => Serial!Safety
  OBVIOUS
<1>1. QueueInit => Serial!Init
  <2> SUFFICES ASSUME QueueInit PROVE Serial!Init
    OBVIOUS
  <2>. QED
    BY ConcatEmptySeq, EmptySeq DEF QueueInit, Serial!Init, Line
<1>2. QueueInv /\ [QueueNext]_queueVars => [Serial!Next]_Line
  BY StepRefinesSerialQueue
<1>. QED
  BY <1>1, <1>2, QueueInvariant, PTL DEF QueueSafety, Serial!Safety
=============================================================================
