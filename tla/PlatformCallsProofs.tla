------------------------ MODULE PlatformCallsProofs ------------------------
(***************************************************************************)
(* Proofs about PlatformCalls for any number of overlapping calls, any     *)
(* threshold, recovery timeout and number of attempts.                     *)
(***************************************************************************)
EXTENDS PlatformCalls, TLAPS

(* The type of failures is kept because it saturates; a closed breaker has *)
(* room because what closes it also resets the count.                      *)
IInv == TypeOK /\ ClosedBelowThreshold

CallRecord == [pc : {"idle", "running", "refreshing", "failing"},
               attempt : 1..MaxAttempts, refreshed : BOOLEAN]

LEMMA UpToType ==
  ASSUME NEW max \in Nat, NEW n \in 0..max
  PROVE  UpTo(n, max) \in 0..max
  BY DEF UpTo

LEMMA InitIInv == Init => IInv
<1> SUFFICES ASSUME Init PROVE IInv  OBVIOUS
<1> USE CallsAssumption DEF CallsAssumption
<1>1. Idle \in CallRecord  BY DEF Idle, CallRecord
<1>2. call \in [Call -> CallRecord]  BY <1>1 DEF Init
<1>3. state = "closed" /\ failures \in 0..Threshold /\ since \in 0..Recovery
  BY DEF Init
<1>4. healthy \in BOOLEAN  BY DEF Init
<1>5. TypeOK  BY <1>2, <1>3, <1>4 DEF TypeOK, CallRecord
<1>6. ClosedBelowThreshold
  BY DEF Init, ClosedBelowThreshold
<1> QED  BY <1>5, <1>6 DEF IInv

(* The three ways a step changes the breaker keep what concerns it alone.  *)
BreakerOK ==
  /\ state \in {"closed", "open", "half_open"}
  /\ failures \in 0..Threshold
  /\ since \in 0..Recovery
  /\ ClosedBelowThreshold

LEMMA BreakerKept ==
  ASSUME IInv, (EnterGate /\ Admits) \/ CountFailure \/ CountSuccess \/ Untouched
  PROVE  BreakerOK'
<1> USE CallsAssumption DEF CallsAssumption, IInv, TypeOK, BreakerOK, ClosedBelowThreshold
<1>1. CASE EnterGate  BY <1>1 DEF EnterGate
<1>2. CASE CountFailure
  <2> DEFINE n == UpTo(failures, Threshold)
  <2>1. n \in 0..Threshold  BY UpToType
  <2> HIDE DEF n
  <2> QED  BY <1>2, <2>1 DEF CountFailure, n
<1>3. CASE CountSuccess  BY <1>3 DEF CountSuccess
<1>4. CASE Untouched  BY <1>4 DEF Untouched
<1> QED  BY <1>1, <1>2, <1>3, <1>4

(* One call moves and no call enters: what remains is its own record.      *)
LEMMA AnswerIInv ==
  ASSUME IInv, NEW c \in Call, Answer(c)
  PROVE  IInv'
<1> USE CallsAssumption DEF CallsAssumption
<1>1. TypeOK /\ call[c].pc # "idle"
  BY DEF IInv, Answer, Succeed, Retry, Fail, HttpError, Unauthorized, RefreshSucceeds,
         RefreshFails, FailAfterRefresh, RefreshRefused
<1>2. (EnterGate /\ Admits) \/ CountFailure \/ CountSuccess \/ Untouched
  BY DEF Answer, Succeed, Retry, Fail, HttpError, Unauthorized, RefreshSucceeds,
         RefreshFails, FailAfterRefresh, RefreshRefused
<1>3. BreakerOK'  BY <1>2, BreakerKept
<1>4. \E r \in CallRecord : call' = [call EXCEPT ![c] = r]
  <2>0. call[c] \in CallRecord  BY <1>1 DEF TypeOK, CallRecord
  <2>1. CASE Return(c)
    <3>1. Idle \in CallRecord  BY DEF Idle, CallRecord
    <3> QED  BY <2>1, <3>1 DEF Return
  <2>2. CASE Retry(c)
    <3> DEFINE r == [call[c] EXCEPT !.attempt = @ + 1, !.refreshed = FALSE]
    <3>0. call[c].attempt + 1 \in 1..MaxAttempts  BY <2>0, <2>2 DEF CallRecord, Retry
    <3>1. r \in CallRecord  BY <2>0, <3>0 DEF CallRecord
    <3>2. call' = [call EXCEPT ![c] = r]  BY <2>2 DEF Retry
    <3> QED  BY <3>1, <3>2
  <2>3. CASE call' = [call EXCEPT ![c].pc = "refreshing"]
    <3> DEFINE r == [call[c] EXCEPT !.pc = "refreshing"]
    <3>1. r \in CallRecord  BY <2>0 DEF CallRecord
    <3> QED  BY <2>3, <3>1
  <2>4. CASE RefreshSucceeds(c)
    <3> DEFINE r == [call[c] EXCEPT !.pc = "running", !.refreshed = TRUE]
    <3>1. r \in CallRecord  BY <2>0 DEF CallRecord
    <3>2. call' = [call EXCEPT ![c] = r]  BY <2>4 DEF RefreshSucceeds
    <3> QED  BY <3>1, <3>2
  <2>5. CASE RefreshFails(c)
    <3> DEFINE r == [call[c] EXCEPT
                       !.pc = IF call[c].attempt < MaxAttempts THEN "running" ELSE "failing",
                       !.attempt = UpTo(@, MaxAttempts), !.refreshed = FALSE]
    <3>0. UpTo(call[c].attempt, MaxAttempts) \in 1..MaxAttempts
      BY <2>0 DEF CallRecord, UpTo
    <3>1. r \in CallRecord  BY <2>0, <3>0 DEF CallRecord
    <3>2. call' = [call EXCEPT ![c] = r]  BY <2>5 DEF RefreshFails
    <3> QED  BY <3>1, <3>2
  <2> QED
    BY <2>1, <2>2, <2>3, <2>4, <2>5
       DEF Answer, Succeed, Fail, HttpError, Unauthorized, FailAfterRefresh, RefreshRefused
<1>5. PICK r \in CallRecord : call' = [call EXCEPT ![c] = r]  BY <1>4
<1>6. healthy' \in BOOLEAN
  BY <1>1 DEF TypeOK, Answer, Succeed, Retry, Fail, HttpError, Unauthorized,
     RefreshSucceeds, RefreshFails, FailAfterRefresh, RefreshRefused
<1>7. TypeOK'
  <2>1. call' \in [Call -> CallRecord]  BY <1>1, <1>5 DEF TypeOK, CallRecord
  <2> QED  BY <1>3, <1>6, <2>1 DEF BreakerOK, TypeOK, CallRecord
<1> QED  BY <1>3, <1>7 DEF IInv, BreakerOK

LEMMA EnterIInv ==
  ASSUME IInv, NEW c \in Call, Enter(c)
  PROVE  IInv'
<1> USE CallsAssumption DEF CallsAssumption
<1>1. BreakerOK'  BY BreakerKept DEF Enter
<1>2. TypeOK'
  <2>1. Started \in CallRecord  BY DEF Started, CallRecord
  <2>2. call' \in [Call -> CallRecord]
    BY <2>1 DEF Enter, IInv, TypeOK, CallRecord
  <2>3. UNCHANGED healthy  BY DEF Enter
  <2> QED  BY <1>1, <2>2, <2>3 DEF BreakerOK, TypeOK, CallRecord, IInv
<1> QED  BY <1>1, <1>2 DEF IInv, BreakerOK

LEMMA NextIInv == IInv /\ [Next]_vars => IInv'
<1> SUFFICES ASSUME IInv, [Next]_vars PROVE IInv'  OBVIOUS
<1>1. ASSUME NEW c \in Call, Enter(c) PROVE IInv'  BY <1>1, EnterIInv
<1>2. ASSUME NEW c \in Call, Answer(c) PROVE IInv'  BY <1>2, AnswerIInv
<1>3. CASE Tick
  BY <1>3, CallsAssumption
     DEF CallsAssumption, Tick, IInv, TypeOK, ClosedBelowThreshold
<1>4. CASE Heal
  BY <1>4 DEF Heal, IInv, TypeOK, ClosedBelowThreshold
<1>5. CASE UNCHANGED vars
  BY <1>5 DEF vars, IInv, TypeOK, ClosedBelowThreshold
<1> QED  BY <1>1, <1>2, <1>3, <1>4, <1>5 DEF Next

LEMMA Inductive == Spec => []IInv
  BY InitIInv, NextIInv, PTL DEF Spec

-----------------------------------------------------------------------------
(* The breaker's counters stay within their bounds and every call and      *)
(* nested refresh keeps its attempts, however calls overlap.               *)
THEOREM TypeCorrect == Spec => []TypeOK
<1>1. IInv => TypeOK  BY DEF IInv
<1> QED  BY <1>1, Inductive, PTL

(* For any number of overlapping calls: a closed breaker has counted fewer *)
(* failures than the threshold.                                            *)
THEOREM ClosedHasRoom == Spec => []ClosedBelowThreshold
<1>1. IInv => ClosedBelowThreshold  BY DEF IInv
<1> QED  BY <1>1, Inductive, PTL

(* Overlapping calls implement the gate of BreakerGate: the breaker stays  *)
(* open for the recovery timeout and closes only from half-open, whatever  *)
(* answers arrive late.                                                    *)
THEOREM ImplementsGate == Spec => GateKept
<1>1. Init => Gate!Init  BY DEF Init, Gate!Init
<1>2. ASSUME IInv, [Next]_vars
      PROVE  [Gate!Next]_<<state, since>>
  <2> USE DEF Gate!Next, Gate!Trip, Gate!Tick, Gate!Probe, Gate!Close
  <2>1. ASSUME (EnterGate /\ Admits) \/ CountFailure \/ CountSuccess \/ Untouched
        PROVE  [Gate!Next]_<<state, since>>
    BY <1>2, <2>1 DEF EnterGate, Admits, CountFailure, CountSuccess, Untouched
  <2>2. ASSUME NEW c \in Call, Enter(c) \/ Answer(c)
        PROVE  [Gate!Next]_<<state, since>>
    <3>1. (EnterGate /\ Admits) \/ CountFailure \/ CountSuccess \/ Untouched
      BY <2>2 DEF Enter, Answer, Succeed, Retry, Fail, HttpError, Unauthorized,
         RefreshSucceeds, RefreshFails, FailAfterRefresh, RefreshRefused
    <3> QED  BY <2>1, <3>1
  <2>3. CASE Tick  BY <2>3 DEF Tick
  <2>4. CASE Heal  BY <2>4 DEF Heal
  <2>5. CASE UNCHANGED vars  BY <2>5 DEF vars
  <2> QED  BY <1>2, <2>2, <2>3, <2>4, <2>5 DEF Next
<1> QED  BY <1>1, <1>2, Inductive, PTL DEF Spec, GateKept, Gate!Spec
=============================================================================
