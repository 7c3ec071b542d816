-------------------------- MODULE DriftSweepProofs --------------------------
(***************************************************************************)
(* Proofs about DriftSweep for any sessions, picks, creation times, number *)
(* of labels and length of a step, and for any number of errors, restarts  *)
(* and ticks within the bounds.                                            *)
(***************************************************************************)
EXTENDS DriftSweep, TLAPS

TaskRecord == [pc : {"asleep", "selecting", "sweeping", "drifting", "ranking", "telling"},
               todo : SUBSET Sessions, on : Sessions \cup {NoSession}, target : Times,
               seen : SUBSET Owners, alone : BOOLEAN, broken : BOOLEAN]
WriterRecord == [pc : {"idle", "building", "joining", "generating", "ranking"},
                 holds : SUBSET Candidate, todo : SUBSET Candidate, alone : BOOLEAN]

(* What a drift is about to commit was the expected time of day when its   *)
(* session was read, and so lies in what is expected now; and it is ahead  *)
(* of the committed one, which no other task moves.                        *)
TargetAhead(on, target) ==
  /\ on \in Sessions /\ Picked(on)
  /\ target \in Picks[on] .. Expected(on) /\ label[on] < target
TargetOnSchedule ==
  task.pc \in {"drifting", "ranking"} => TargetAhead(task.on, task.target)

(* In a settled session everything that is stored, queued or held by a     *)
(* task is for the committed time of day.                                  *)
HeldFor(w, time) == \A c \in w.holds \cup w.todo : c.for = time
SettledHeld ==
  \A s \in Sessions : settled[s] =>
    /\ \A c \in pool[s] : c.for = label[s]
    /\ \A time \in queue[s] : time = label[s]
    /\ \A o \in Owners : HeldFor(writer[s][o], label[s])

IInv == TypeOK /\ OnSchedule /\ TargetOnSchedule /\ SettledHeld

USE LabelsNat, SessionsPicked, NoSessionApart, BoundsNat

-----------------------------------------------------------------------------
(* The steps of the schedule that have elapsed: whole, and never fewer     *)
(* later on.                                                               *)
LEMMA WholeSteps ==
  ASSUME NEW a \in Nat, NEW d \in Nat \ {0}
  PROVE  a \div d \in Nat /\ d * (a \div d) <= a /\ a < d * (a \div d) + d
BY SMTT(20)

LEMMA StepsGrow ==
  ASSUME NEW a \in Nat, NEW b \in Nat, NEW d \in Nat \ {0}, a <= b
  PROVE  a \div d <= b \div d
<1> DEFINE p == a \div d
           q == b \div d
<1>1. p \in Nat /\ q \in Nat /\ d * p <= a /\ b < d * q + d
  BY WholeSteps
<1>2. d * p < d * (q + 1)
  <2>1. d * (q + 1) = d * q + d
    BY <1>1, SMT
  <2> QED
    BY <2>1, <1>1, SMT
<1> HIDE DEF p, q
<1>3. p < q + 1
  BY <1>1, <1>2, SMTT(20)
<1> QED
  BY <1>1, <1>3, SMT DEF p, q

LEMMA ExpectedInSchedule ==
  ASSUME NEW s \in Sessions, Picked(s), now \in Nat
  PROVE  Expected(s) \in Picks[s] .. Last
<1>1. Picks[s] \in Labels
  BY DEF Picked, Times
<1>2. Elapsed(s) \in Nat
  BY DEF Elapsed
<1>3. Elapsed(s) \div StepTime \in Nat
  BY <1>2, WholeSteps
<1> QED
  BY <1>1, <1>3 DEF Expected, Labels

LEMMA ExpectedGrows ==
  ASSUME NEW s \in Sessions, Picked(s), now \in Nat, now' \in Nat, now <= now'
  PROVE  Expected(s)' \in Int /\ Expected(s) <= Expected(s)'
<1>1. Picks[s] \in Labels
  BY DEF Picked, Times
<1>2. Elapsed(s) \in Nat /\ Elapsed(s)' \in Nat /\ Elapsed(s) <= Elapsed(s)'
  BY DEF Elapsed
<1> DEFINE steps == Elapsed(s) \div StepTime
           later == Elapsed(s)' \div StepTime
<1>3. steps \in Nat /\ later \in Nat /\ steps <= later
  BY <1>2, WholeSteps, StepsGrow
<1>4. /\ Expected(s) = IF Picks[s] + steps < Last THEN Picks[s] + steps ELSE Last
      /\ Expected(s)' = IF Picks[s] + later < Last THEN Picks[s] + later ELSE Last
  BY DEF Expected
<1> HIDE DEF steps, later
<1> QED
  BY <1>1, <1>3, <1>4 DEF Labels

(* With time that does not go back, what was on schedule stays on it.      *)
LEMMA ScheduleWidens ==
  ASSUME IInv, now' \in now .. MaxNow, NEW s \in Sessions, Picked(s),
         NEW l \in Picks[s] .. Expected(s)
  PROVE  l \in Picks[s] .. Expected(s)'
<1>1. now \in Nat /\ now' \in Nat /\ now <= now'
  BY DEF IInv, TypeOK
<1>2. Picks[s] \in Labels
  BY DEF Picked, Times
<1>3. Expected(s) \in Picks[s] .. Last
  BY <1>1, ExpectedInSchedule
<1>4. Expected(s)' \in Int /\ Expected(s) <= Expected(s)'
  BY <1>1, ExpectedGrows
<1> QED
  BY <1>2, <1>3, <1>4 DEF Labels

-----------------------------------------------------------------------------
LEMMA ExpectedLabel ==
  ASSUME NEW s \in Sessions, Picked(s), now \in Nat
  PROVE  Expected(s) \in Picks[s] .. Last /\ Picks[s] \in Labels /\ Expected(s) \in Labels
<1>1. Expected(s) \in Picks[s] .. Last
  BY ExpectedInSchedule
<1>2. Picks[s] \in Labels
  BY DEF Picked, Times
<1> QED
  BY <1>1, <1>2 DEF Labels

LEMMA AsleepRecord == Asleep \in TaskRecord /\ Asleep.pc = "asleep"
<1>1. {} \in SUBSET Sessions /\ {} \in SUBSET Owners /\ NoPick \in Times
  BY DEF Times
<1> QED
  BY <1>1 DEF Asleep, TaskRecord

LEMMA IdleRecord == Idle \in WriterRecord /\ \A time : HeldFor(Idle, time)
<1>1. {} \in SUBSET Candidate
  OBVIOUS
<1> QED
  BY <1>1 DEF Idle, WriterRecord, HeldFor

LEMMA DoneRecord ==
  ASSUME IInv, NEW s \in Sessions, Done(s)
  PROVE  task' \in TaskRecord /\ task'.pc = "sweeping"
<1>1. task.todo \ {s} \in SUBSET Sessions /\ task.broken \in BOOLEAN
  BY DEF IInv, TypeOK
<1> QED
  BY <1>1, AsleepRecord DEF Done, TaskRecord, Asleep

LEMMA InitIInv == Init => IInv
<1> SUFFICES ASSUME Init PROVE IInv
  OBVIOUS
<1>1. label = Picks /\ now = 0
  BY DEF Init
<1>2. TypeOK
  <2>1. \A s \in Sessions, o \in Owners : writer[s][o] = Idle
    BY DEF Init
  <2>2. writer \in [Sessions -> [Owners -> WriterRecord]]
    BY IdleRecord DEF Init
  <2>3. task \in TaskRecord
    BY AsleepRecord DEF Init
  <2>4. /\ pool \in [Sessions -> SUBSET Candidate] /\ queue \in [Sessions -> SUBSET Times]
        /\ settled \in [Sessions -> BOOLEAN]
    BY DEF Init
  <2> QED
    BY <2>2, <2>3, <2>4 DEF Init, TypeOK, TaskRecord, WriterRecord
<1>3. OnSchedule
  <2> SUFFICES ASSUME NEW s \in Sessions
               PROVE  IF Picked(s) THEN label[s] \in Picks[s] .. Expected(s)
                                   ELSE label[s] = NoPick
    BY DEF OnSchedule
  <2>1. CASE Picked(s)
    BY <1>1, <2>1, ExpectedLabel DEF Labels
  <2>2. CASE ~Picked(s)
    BY <1>1, <2>2 DEF Picked
  <2> QED
    BY <2>1, <2>2
<1>4. TargetOnSchedule
  BY DEF Init, Asleep, TargetOnSchedule
<1>5. SettledHeld
  BY IdleRecord DEF Init, SettledHeld
<1> QED
  BY <1>2, <1>3, <1>4, <1>5 DEF IInv

(* Steps that commit no drift leave the schedule of every session alone.   *)
LEMMA LabelsKept ==
  ASSUME IInv, now' \in now .. MaxNow, label' = label
  PROVE  OnSchedule'
<1> SUFFICES ASSUME NEW s \in Sessions
             PROVE  IF Picked(s) THEN label[s] \in Picks[s] .. Expected(s)'
                                 ELSE label[s] = NoPick
  BY DEF OnSchedule, Picked
<1>1. IF Picked(s) THEN label[s] \in Picks[s] .. Expected(s) ELSE label[s] = NoPick
  BY DEF IInv, OnSchedule
<1> QED
  BY <1>1, ScheduleWidens

LEMMA TargetKept ==
  ASSUME IInv, now' \in now .. MaxNow, label' = label,
         task'.pc = task.pc, task'.on = task.on, task'.target = task.target
  PROVE  TargetOnSchedule'
<1>1. CASE task.pc \in {"drifting", "ranking"}
  <2>1. TargetAhead(task.on, task.target)
    BY <1>1 DEF IInv, TargetOnSchedule
  <2>2. task.target \in Picks[task.on] .. Expected(task.on)'
    BY <2>1, ScheduleWidens DEF TargetAhead
  <2>3. task.on \in Sessions /\ Picked(task.on) /\ label[task.on] < task.target
    BY <2>1 DEF TargetAhead
  <2> QED
    BY <2>2, <2>3 DEF TargetOnSchedule, TargetAhead, Picked
<1>2. CASE task.pc \notin {"drifting", "ranking"}
  BY <1>2 DEF TargetOnSchedule
<1> QED
  BY <1>1, <1>2

(* A sweep that is not about to commit a drift has no target to keep.      *)
LEMMA NoTarget ==
  ASSUME task'.pc \notin {"drifting", "ranking"}
  PROVE  TargetOnSchedule'
BY DEF TargetOnSchedule

LEMMA NowStays ==
  ASSUME IInv, now' = now
  PROVE  now' \in now .. MaxNow
BY DEF IInv, TypeOK

-----------------------------------------------------------------------------
(* Steps of the scheduler and of clients, which change no row.             *)
LEMMA RowsKept ==
  ASSUME IInv, UNCHANGED <<label, queues>>, now' \in now .. MaxNow, active' \subseteq Sessions,
         connected' \subseteq Sessions, told' \in [Sessions -> Times], task' \in TaskRecord,
         errors' \in 0 .. MaxErrors, raised' \in Nat, restarts' \in 0 .. MaxRestarts,
         TargetOnSchedule'
  PROVE  IInv'
<1>1. now' \in 0 .. MaxNow
  BY DEF IInv, TypeOK
<1>2. TypeOK'
  BY <1>1 DEF IInv, TypeOK, TaskRecord, queues
<1>3. OnSchedule'
  BY LabelsKept
<1>4. SettledHeld'
  BY DEF IInv, SettledHeld, queues
<1> QED
  BY <1>2, <1>3, <1>4 DEF IInv

(* A rerank or build of another task, and what it read before: the sweep   *)
(* only loses the certainty that it is alone.                              *)
LEMMA WriterStep ==
  ASSUME IInv, UNCHANGED <<now, active, connected, label, settled, told, errors, raised, restarts>>,
         task'.pc = task.pc, task'.on = task.on, task'.target = task.target,
         task' \in TaskRecord,
         pool' \in [Sessions -> SUBSET Candidate], queue' \in [Sessions -> SUBSET Times],
         writer' \in [Sessions -> [Owners -> WriterRecord]],
         SettledHeld'
  PROVE  IInv'
<1>1. TypeOK'
  BY DEF IInv, TypeOK, TaskRecord, WriterRecord
<1>2. OnSchedule' /\ TargetOnSchedule'
  BY NowStays, LabelsKept, TargetKept
<1> QED
  BY <1>1, <1>2 DEF IInv

LEMMA WakeKeeps == IInv /\ Wake => IInv'
<1> SUFFICES ASSUME IInv, Wake PROVE IInv'
  OBVIOUS
<1> USE DEF Wake, rows, At
<1>1. task' \in TaskRecord /\ task'.pc = "selecting"
  BY DEF IInv, TypeOK, TaskRecord
<1> QED
  BY <1>1, NoTarget, NowStays, RowsKept DEF IInv, TypeOK

LEMMA SelectKeeps == IInv /\ Select => IInv'
<1> SUFFICES ASSUME IInv, Select PROVE IInv'
  OBVIOUS
<1> USE DEF Select, rows, At
<1>1. task' \in TaskRecord /\ task'.pc \in {"sweeping", "asleep"}
  <2>1. CASE task' = Asleep
    BY <2>1, AsleepRecord
  <2>2. CASE task' = [task EXCEPT !.pc = "sweeping", !.todo = @ \cap active]
    BY <2>2 DEF IInv, TypeOK, TaskRecord
  <2> QED
    BY <2>1, <2>2
<1>2. errors' \in 0 .. MaxErrors
  BY DEF IInv, TypeOK, Fails
<1> QED
  BY <1>1, <1>2, NoTarget, NowStays, RowsKept DEF IInv, TypeOK

(* The target is the expected time of day as the session is read: no       *)
(* earlier than the committed one, and different from it.                  *)
LEMMA GetSessionKeeps ==
  ASSUME IInv, NEW s \in Sessions, GetSession(s)
  PROVE  IInv'
<1> USE DEF GetSession, rows, At
<1>1. CASE Drifts(s)
  <2>1. Picked(s) /\ label[s] # Expected(s)
    BY <1>1 DEF Drifts, Due
  <2>2. Expected(s) \in Picks[s] .. Last /\ Picks[s] \in Labels /\ Expected(s) \in Labels
    BY <2>1, ExpectedLabel DEF IInv, TypeOK
  <2>3. label[s] \in Picks[s] .. Expected(s)
    BY <2>1 DEF IInv, OnSchedule
  <2>4. /\ task' \in TaskRecord
        /\ task'.pc = "drifting" /\ task'.on = s /\ task'.target = Expected(s)
    <3>1. task' = [task EXCEPT !.pc = "drifting", !.on = s, !.target = Expected(s)]
      BY <1>1
    <3>2. task \in TaskRecord /\ Expected(s) \in Times
      BY <2>2 DEF IInv, TypeOK, TaskRecord, Times
    <3> QED
      BY <3>1, <3>2 DEF TaskRecord
  <2>5. Expected(s) \in Picks[s] .. Expected(s) /\ label[s] < Expected(s)
    BY <2>1, <2>2, <2>3 DEF Labels
  <2>6. TargetAhead(s, Expected(s)) /\ Expected(s)' = Expected(s)
    BY <2>1, <2>5 DEF TargetAhead, Expected, Elapsed
  <2>7. TargetOnSchedule'
    BY <2>4, <2>6 DEF TargetOnSchedule, TargetAhead, Picked
  <2> QED
    BY <2>4, <2>7, NowStays, RowsKept DEF IInv, TypeOK
<1>2. CASE ~Drifts(s)
  <2>1. task' \in TaskRecord /\ task'.pc = "sweeping"
    BY <1>2, DoneRecord
  <2> QED
    BY <2>1, NoTarget, NowStays, RowsKept DEF IInv, TypeOK
<1> QED
  BY <1>1, <1>2

LEMMA RescoreKeeps ==
  ASSUME IInv, NEW s \in Sessions, Rescore(s)
  PROVE  IInv'
<1> USE DEF Rescore, rows, At
<1>1. {c.owner : c \in pool[s]} \in SUBSET Owners
  BY DEF IInv, TypeOK, Candidate
<1>2. /\ task' \in TaskRecord
      /\ task'.pc = "ranking" /\ task'.on = task.on /\ task'.target = task.target
  BY <1>1 DEF IInv, TypeOK, TaskRecord
<1>3. TargetOnSchedule'
  <2>1. TargetAhead(task.on, task.target)
    BY DEF IInv, TargetOnSchedule
  <2> QED
    BY <1>2, <2>1 DEF TargetOnSchedule, TargetAhead, Picked, Expected, Elapsed
<1> QED
  BY <1>2, <1>3, NowStays, RowsKept DEF IInv, TypeOK

LEMMA BroadcastKeeps ==
  ASSUME IInv, NEW s \in Sessions, Broadcast(s)
  PROVE  IInv'
<1> USE DEF Broadcast, rows, At
<1>1. task' \in TaskRecord /\ task'.pc = "sweeping"
  BY DoneRecord
<1>2. told' \in [Sessions -> Times]
  BY DEF IInv, TypeOK
<1> QED
  BY <1>1, <1>2, NoTarget, NowStays, RowsKept DEF IInv, TypeOK

LEMMA RaisesKeeps ==
  ASSUME IInv, NEW s \in Sessions, Raises(s)
  PROVE  IInv'
<1> USE DEF Raises, rows, At
<1>1. task' \in TaskRecord /\ task'.pc = "sweeping"
  <2>1. task.todo \ {s} \in SUBSET Sessions
    BY DEF IInv, TypeOK
  <2> QED
    BY <2>1, AsleepRecord DEF TaskRecord, Asleep
<1>2. errors' \in 0 .. MaxErrors /\ raised' \in Nat
  BY DEF IInv, TypeOK, Fails
<1> QED
  BY <1>1, <1>2, NoTarget, NowStays, RowsKept DEF IInv, TypeOK

LEMMA EndSweepKeeps == IInv /\ EndSweep => IInv'
<1> SUFFICES ASSUME IInv, EndSweep PROVE IInv'
  OBVIOUS
<1>1. task' \in TaskRecord /\ task'.pc = "asleep"
  BY AsleepRecord DEF EndSweep
<1> QED
  BY <1>1, NoTarget, NowStays, RowsKept DEF EndSweep, rows, IInv, TypeOK

(* A restart leaves no task that holds anything.                           *)
LEMMA RestartKeeps == IInv /\ Restart => IInv'
<1> SUFFICES ASSUME IInv, Restart PROVE IInv'
  OBVIOUS
<1> USE DEF Restart
<1>1. task' \in TaskRecord /\ task'.pc = "asleep"
  BY AsleepRecord
<1>2. writer' \in [Sessions -> [Owners -> WriterRecord]]
  BY IdleRecord
<1>3. restarts' \in 0 .. MaxRestarts /\ connected' \subseteq Sessions
  BY DEF IInv, TypeOK
<1>4. TypeOK'
  BY <1>1, <1>2, <1>3 DEF IInv, TypeOK, TaskRecord, WriterRecord
<1>5. \A s \in Sessions, o \in Owners : writer'[s][o] = Idle
  OBVIOUS
<1>6. SettledHeld'
  BY <1>5, IdleRecord DEF IInv, SettledHeld
<1> QED
  BY <1>1, <1>4, <1>6, NoTarget, NowStays, LabelsKept DEF IInv

LEMMA TickKeeps == IInv /\ Tick => IInv'
<1> SUFFICES ASSUME IInv, Tick PROVE IInv'
  OBVIOUS
<1> USE DEF Tick, rows
<1>1. now' \in now .. MaxNow
  BY DEF IInv, TypeOK
<1>2. TargetOnSchedule' /\ task' \in TaskRecord
  BY <1>1, TargetKept DEF IInv, TypeOK, TaskRecord
<1> QED
  BY <1>1, <1>2, RowsKept DEF IInv, TypeOK

(* Hosts and clients touch neither labels nor the scheduler.               *)
LEMMA OthersKeep ==
  ASSUME IInv, NEW s \in Sessions, Close(s) \/ Connect(s) \/ Disconnect(s)
  PROVE  IInv'
<1> USE DEF Close, Connect, Disconnect, rows
<1>1. active' \subseteq Sessions /\ connected' \subseteq Sessions
  BY DEF IInv, TypeOK
<1>2. told' \in [Sessions -> Times]
  BY DEF IInv, TypeOK
<1>3. UNCHANGED <<label, queues>> /\ task' = task /\ now' \in now .. MaxNow
  BY NowStays
<1>4. TargetOnSchedule' /\ task' \in TaskRecord
  BY <1>3, TargetKept DEF IInv, TypeOK, TaskRecord
<1> QED
  BY <1>1, <1>2, <1>3, <1>4, RowsKept DEF IInv, TypeOK

-----------------------------------------------------------------------------
(* The steps that write rows.                                              *)
LEMMA DisturbedHolds ==
  ASSUME IInv, NEW s \in Sessions
  PROVE  /\ Disturbed(s) \in [Owners -> WriterRecord]
         /\ \A o \in Owners : /\ Disturbed(s)[o].holds = writer[s][o].holds
                              /\ Disturbed(s)[o].todo = writer[s][o].todo
<1>1. \A o \in Owners : writer[s][o] \in WriterRecord
  BY DEF IInv, TypeOK, WriterRecord
<1> QED
  BY <1>1 DEF Disturbed, WriterRecord

LEMMA RescoredTimes ==
  ASSUME IInv, NEW s \in Sessions, At("ranking"), task.on = s
  PROVE  /\ Rescored(s) \subseteq Candidate
         /\ Late(s) = {} => \A c \in Rescored(s) : c.for = task.target
<1>1. pool[s] \subseteq Candidate /\ task.target \in Times
  BY DEF IInv, TypeOK
<1>2. ASSUME NEW c \in pool[s]
      PROVE  [c EXCEPT !.for = task.target] \in Candidate
             /\ [c EXCEPT !.for = task.target].for = task.target
  BY <1>1, <1>2 DEF Candidate
<1>3. Rescored(s) \subseteq Candidate
  BY <1>1, <1>2 DEF Rescored
<1>4. ASSUME Late(s) = {}, NEW c \in Rescored(s)
      PROVE  c.for = task.target
  <2>1. PICK d \in pool[s] :
          c = IF d.owner \in task.seen THEN [d EXCEPT !.for = task.target] ELSE d
    BY DEF Rescored
  <2>2. d.owner \in task.seen
    BY <1>4 DEF Late
  <2> QED
    BY <2>1, <2>2, <1>2
<1> QED
  BY <1>3, <1>4

LEMMA TimesTyped ==
  ASSUME NEW C \in SUBSET Candidate
  PROVE  TimesOf(C) \in SUBSET Times
BY DEF TimesOf, Candidate

LEMMA StaysTyped ==
  ASSUME IInv, NEW s \in Sessions, NEW alone \in BOOLEAN, NEW stay \in Stays(s, alone)
  PROVE  stay \subseteq queue[s] /\ stay \in SUBSET Times /\ (alone => stay = {})
<1>1. queue[s] \in SUBSET Times
  BY DEF IInv, TypeOK
<1> QED
  BY <1>1 DEF Stays

(* What is committed is the target, still on schedule whatever time has    *)
(* passed since.  A drift that settles its session rescored all that is    *)
(* stored, found nothing in the queue but what it deleted, and no task at  *)
(* work.                                                                   *)
LEMMA DriftKeeps ==
  ASSUME IInv, NEW s \in Sessions, Drift(s)
  PROVE  IInv'
<1> USE DEF Drift, At
<1>1. TargetAhead(s, task.target)
  BY DEF IInv, TargetOnSchedule
<1>2. task.target \in Times /\ task.alone \in BOOLEAN
  BY DEF IInv, TypeOK
<1>3. task' \in TaskRecord /\ task'.pc = "telling"
  BY DEF IInv, TypeOK, TaskRecord
<1>4. PICK late \in SUBSET Late(s), stay \in Stays(s, task.alone) :
        queue' = [queue EXCEPT ![s] =
                   TimesOf(Rescored(s) \ Late(s)) \cup TimesOf(late) \cup stay]
  OBVIOUS
<1> DEFINE q == TimesOf(Rescored(s) \ Late(s)) \cup TimesOf(late) \cup stay
<1>5. q \in SUBSET Times /\ Rescored(s) \in SUBSET Candidate
  <2>1. late \in SUBSET Candidate /\ Rescored(s) \in SUBSET Candidate
    BY RescoredTimes DEF Late, IInv, TypeOK
  <2>2. Rescored(s) \ Late(s) \in SUBSET Candidate
    BY <2>1
  <2>3. stay \in SUBSET Times
    BY <1>2, StaysTyped
  <2> QED
    BY <2>1, <2>2, <2>3, TimesTyped
<1>6. /\ label' = [label EXCEPT ![s] = task.target] /\ label \in [Sessions -> Times]
      /\ pool' = [pool EXCEPT ![s] = Rescored(s)] /\ pool \in [Sessions -> SUBSET Candidate]
      /\ queue' = [queue EXCEPT ![s] = q] /\ queue \in [Sessions -> SUBSET Times]
      /\ writer' = [writer EXCEPT ![s] = Disturbed(s)]
      /\ writer \in [Sessions -> [Owners -> WriterRecord]]
      /\ settled \in [Sessions -> BOOLEAN]
  BY <1>4 DEF IInv, TypeOK, WriterRecord
<1> DEFINE still == task.alone /\ Late(s) = {} /\ \A o \in Owners : writer[s][o] = Idle
<1>7. settled' = [settled EXCEPT ![s] = still] /\ still \in BOOLEAN
  BY <1>2
<1>8. UNCHANGED <<now, active, connected, told, errors, raised, restarts>>
  OBVIOUS
<1> HIDE DEF q, still, Drift
<1>9. TypeOK'
  <2>1. label' \in [Sessions -> Times]
    BY <1>2, <1>6
  <2>2. pool' \in [Sessions -> SUBSET Candidate]
    BY <1>5, <1>6
  <2>3. queue' \in [Sessions -> SUBSET Times]
    BY <1>5, <1>6
  <2>4. writer' \in [Sessions -> [Owners -> WriterRecord]]
    BY <1>6, DisturbedHolds
  <2>5. settled' \in [Sessions -> BOOLEAN]
    BY <1>6, <1>7
  <2> QED
    BY <1>3, <1>8, <2>1, <2>2, <2>3, <2>4, <2>5 DEF IInv, TypeOK, TaskRecord, WriterRecord
<1>10. OnSchedule'
  <2> SUFFICES ASSUME NEW z \in Sessions
               PROVE  IF Picked(z) THEN label'[z] \in Picks[z] .. Expected(z)
                                   ELSE label'[z] = NoPick
    BY <1>8 DEF OnSchedule, Picked, Expected, Elapsed
  <2>1. CASE z = s
    BY <1>1, <1>6, <2>1 DEF TargetAhead
  <2>2. CASE z # s
    BY <1>6, <2>2 DEF IInv, OnSchedule
  <2> QED
    BY <2>1, <2>2
<1>11. SettledHeld'
  <2> SUFFICES ASSUME NEW z \in Sessions, settled'[z]
               PROVE  /\ \A c \in pool'[z] : c.for = label'[z]
                      /\ \A time \in queue'[z] : time = label'[z]
                      /\ \A o \in Owners : HeldFor(writer'[z][o], label'[z])
    BY DEF SettledHeld, HeldFor
  <2>1. CASE z # s
    <3>1. /\ settled[z] /\ pool'[z] = pool[z] /\ queue'[z] = queue[z]
          /\ writer'[z] = writer[z] /\ label'[z] = label[z]
      BY <1>6, <1>7, <2>1
    <3> QED
      BY <3>1 DEF IInv, SettledHeld
  <2>2. CASE z = s
    <3>1. still
      BY <1>6, <1>7, <2>2
    <3>2. /\ pool'[z] = Rescored(s) /\ queue'[z] = q
          /\ writer'[z] = Disturbed(s) /\ label'[z] = task.target
      BY <1>6, <2>2
    <3>3. Late(s) = {} /\ task.alone
      BY <3>1 DEF still
    <3>4. \A c \in Rescored(s) : c.for = task.target
      BY <3>3, RescoredTimes DEF Drift
    <3>5. \A time \in q : time = task.target
      <4>1. stay = {} /\ late = {}
        BY <1>2, <3>3, StaysTyped
      <4> QED
        BY <4>1, <3>4 DEF q, TimesOf
    <3>6. ASSUME NEW o \in Owners
          PROVE  HeldFor(Disturbed(s)[o], task.target)
      <4>1. writer[s][o] = Idle
        BY <3>1 DEF still
      <4>2. Disturbed(s)[o].holds = {} /\ Disturbed(s)[o].todo = {}
        BY <4>1, DisturbedHolds DEF Idle
      <4> QED
        BY <4>2 DEF HeldFor
    <3> QED
      BY <3>2, <3>4, <3>5, <3>6
  <2> QED
    BY <2>1, <2>2
<1> QED
  BY <1>3, <1>9, <1>10, <1>11, NoTarget DEF IInv

(* What a task reads of a settled session is for its time of day, and what *)
(* it then writes is what it read.                                         *)
LEMMA WriterMoves ==
  ASSUME IInv, NEW s \in Sessions, NEW o \in Owners, NEW w \in WriterRecord,
         writer' = [writer EXCEPT ![s][o] = w],
         UNCHANGED <<now, active, connected, label, settled, told, errors, raised, restarts, queue, task>>,
         pool' = [pool EXCEPT ![s] = pool'[s]], pool'[s] \in SUBSET Candidate,
         settled[s] => HeldFor(w, label[s]) /\ \A c \in pool'[s] : c.for = label[s]
  PROVE  IInv'
<1>1. /\ pool \in [Sessions -> SUBSET Candidate] /\ queue \in [Sessions -> SUBSET Times]
      /\ writer \in [Sessions -> [Owners -> WriterRecord]] /\ task \in TaskRecord
  BY DEF IInv, TypeOK, TaskRecord, WriterRecord
<1>2. writer' \in [Sessions -> [Owners -> WriterRecord]]
  BY <1>1
<1>3. pool' \in [Sessions -> SUBSET Candidate]
  <2> DEFINE P == pool'[s]
  <2>1. pool' = [pool EXCEPT ![s] = P] /\ P \in SUBSET Candidate
    OBVIOUS
  <2> HIDE DEF P
  <2> QED
    BY <1>1, <2>1
<1>4. SettledHeld'
  <2> SUFFICES ASSUME NEW z \in Sessions, settled[z]
               PROVE  /\ \A c \in pool'[z] : c.for = label[z]
                      /\ \A time \in queue[z] : time = label[z]
                      /\ \A p \in Owners : HeldFor(writer'[z][p], label[z])
    BY DEF SettledHeld, HeldFor
  <2>1. /\ \A c \in pool[z] : c.for = label[z]
        /\ \A time \in queue[z] : time = label[z]
        /\ \A p \in Owners : HeldFor(writer[z][p], label[z])
    BY DEF IInv, SettledHeld
  <2>2. \A c \in pool'[z] : c.for = label[z]
    <3>1. CASE z = s
      BY <3>1
    <3>2. CASE z # s
      <4> DEFINE P == pool'[s]
      <4>1. pool' = [pool EXCEPT ![s] = P]
        OBVIOUS
      <4> HIDE DEF P
      <4>2. pool'[z] = pool[z]
        BY <4>1, <1>1, <3>2
      <4> QED
        BY <4>2, <2>1
    <3> QED
      BY <3>1, <3>2
  <2>3. ASSUME NEW p \in Owners
        PROVE  HeldFor(writer'[z][p], label[z])
    <3>1. writer'[z][p] = IF z = s /\ p = o THEN w ELSE writer[z][p]
      BY <1>1
    <3> QED
      BY <2>1, <3>1
  <2> QED
    BY <2>1, <2>2, <2>3
<1> QED
  BY <1>1, <1>2, <1>3, <1>4, WriterStep

LEMMA ScanKeeps ==
  ASSUME IInv, NEW s \in Sessions, NEW o \in Owners, Scan(s, o)
  PROVE  IInv'
<1> USE DEF Scan, Writes
<1>1. PICK pc \in {"building", "joining", "generating"}, M \in SUBSET Owners :
        Writes(s, o, [Idle EXCEPT !.pc = pc,
          !.holds = {[owner |-> p, for |-> label[s]] : p \in M},
          !.todo = IF pc = "generating" THEN {} ELSE {[owner |-> p, for |-> label[s]] : p \in M}])
  OBVIOUS
<1> DEFINE scored == {[owner |-> p, for |-> label[s]] : p \in M}
           w == [Idle EXCEPT !.pc = pc, !.holds = scored,
                             !.todo = IF pc = "generating" THEN {} ELSE scored]
<1>2. scored \in SUBSET Candidate /\ \A c \in scored : c.for = label[s]
  BY DEF IInv, TypeOK, Candidate
<1>3. writer' = [writer EXCEPT ![s][o] = w]
  BY <1>1
<1> HIDE DEF scored
<1>4. w \in WriterRecord /\ HeldFor(w, label[s])
  BY <1>2 DEF WriterRecord, Idle, HeldFor
<1>5. pool' = [pool EXCEPT ![s] = pool'[s]] /\ pool'[s] \in SUBSET Candidate
  BY DEF IInv, TypeOK
<1>6. settled[s] => \A c \in pool'[s] : c.for = label[s]
  BY DEF IInv, SettledHeld
<1> HIDE DEF w
<1> QED
  BY <1>3, <1>4, <1>5, <1>6, WriterMoves

LEMMA InsertKeeps ==
  ASSUME IInv, NEW s \in Sessions, NEW o \in Owners, Insert(s, o)
  PROVE  IInv'
<1> USE DEF Insert, Writes
<1>1. PICK c \in writer[s][o].todo :
        /\ pool' = [pool EXCEPT ![s] = IF \E d \in @ : d.owner = c.owner THEN @ ELSE @ \cup {c}]
        /\ Writes(s, o, [writer[s][o] EXCEPT !.todo = @ \ {c}])
  OBVIOUS
<1> DEFINE w == [writer[s][o] EXCEPT !.todo = @ \ {c}]
<1>2. writer[s][o] \in WriterRecord
  BY DEF IInv, TypeOK, WriterRecord
<1>3. /\ w \in WriterRecord /\ w.holds = writer[s][o].holds
      /\ w.todo = writer[s][o].todo \ {c} /\ c \in Candidate
  BY <1>2 DEF WriterRecord
<1>4. writer' = [writer EXCEPT ![s][o] = w]
  BY <1>1
<1>5. pool'[s] \subseteq pool[s] \cup {c} /\ pool' = [pool EXCEPT ![s] = pool'[s]]
  BY <1>1 DEF IInv, TypeOK
<1>6. pool'[s] \in SUBSET Candidate
  BY <1>3, <1>5 DEF IInv, TypeOK
<1>7. ASSUME settled[s]
      PROVE  HeldFor(w, label[s]) /\ \A d \in pool'[s] : d.for = label[s]
  <2>1. /\ \A d \in pool[s] : d.for = label[s]
        /\ \A d \in writer[s][o].holds \cup writer[s][o].todo : d.for = label[s]
    BY <1>7 DEF IInv, SettledHeld, HeldFor
  <2> HIDE DEF w
  <2> QED
    BY <1>3, <1>5, <2>1 DEF HeldFor
<1> HIDE DEF w
<1> QED
  BY <1>3, <1>4, <1>5, <1>6, <1>7, WriterMoves

LEMMA ReadPoolKeeps ==
  ASSUME IInv, NEW s \in Sessions, NEW o \in Owners, ReadPool(s, o)
  PROVE  IInv'
<1> USE DEF ReadPool, Writes
<1> DEFINE w == [Idle EXCEPT !.pc = "ranking", !.holds = pool[s]]
<1>1. writer' = [writer EXCEPT ![s][o] = w]
  OBVIOUS
<1>2. pool' = [pool EXCEPT ![s] = pool'[s]] /\ pool'[s] \in SUBSET Candidate
  BY DEF IInv, TypeOK
<1>3. w \in WriterRecord /\ w.holds = pool[s] /\ w.todo = {}
  BY <1>2 DEF WriterRecord, Idle
<1> HIDE DEF w
<1>4. settled[s] => HeldFor(w, label[s]) /\ \A c \in pool'[s] : c.for = label[s]
  BY <1>3 DEF IInv, SettledHeld, HeldFor
<1> QED
  BY <1>1, <1>2, <1>3, <1>4, WriterMoves

LEMMA GiveUpKeeps ==
  ASSUME IInv, NEW s \in Sessions, NEW o \in Owners, GiveUp(s, o)
  PROVE  IInv'
<1> USE DEF GiveUp, Writes
<1>1. pool' = [pool EXCEPT ![s] = pool'[s]] /\ pool'[s] \in SUBSET Candidate
  BY DEF IInv, TypeOK
<1>2. settled[s] => HeldFor(Idle, label[s]) /\ \A c \in pool'[s] : c.for = label[s]
  BY IdleRecord DEF IInv, SettledHeld
<1> QED
  BY <1>1, <1>2, IdleRecord, WriterMoves

LEMMA RanksKeeps ==
  ASSUME IInv, NEW s \in Sessions, NEW o \in Owners, NEW q \in SUBSET Times,
         Ranks(s, o, q), label' = label,
         settled[s] => \A time \in q : time = label[s]
  PROVE  IInv'
<1> USE DEF Ranks, At
<1>1. /\ queue \in [Sessions -> SUBSET Times] /\ pool \in [Sessions -> SUBSET Candidate]
      /\ writer \in [Sessions -> [Owners -> WriterRecord]] /\ task \in TaskRecord
  BY DEF IInv, TypeOK, TaskRecord, WriterRecord
<1>2. /\ task' \in TaskRecord
      /\ task'.pc = task.pc /\ task'.on = task.on /\ task'.target = task.target
  BY <1>1 DEF TaskRecord
<1> DEFINE D == [Disturbed(s) EXCEPT ![o] = Idle]
<1>3. D \in [Owners -> WriterRecord] /\ writer' = [writer EXCEPT ![s] = D]
  BY DisturbedHolds, IdleRecord
<1>4. ASSUME NEW p \in Owners, NEW time, HeldFor(writer[s][p], time)
      PROVE  HeldFor(D[p], time)
  <2>1. CASE p = o
    <3>1. D[p] = Idle
      BY <2>1, DisturbedHolds
    <3> QED
      BY <3>1, IdleRecord
  <2>2. CASE p # o
    <3>1. D[p] = Disturbed(s)[p]
      BY <2>2, DisturbedHolds
    <3> QED
      BY <3>1, <1>4, DisturbedHolds DEF HeldFor
  <2> QED
    BY <2>1, <2>2
<1> HIDE DEF D
<1>5. queue' \in [Sessions -> SUBSET Times] /\ writer' \in [Sessions -> [Owners -> WriterRecord]]
  BY <1>1, <1>3
<1>6. SettledHeld'
  <2> SUFFICES ASSUME NEW z \in Sessions, settled[z]
               PROVE  /\ \A c \in pool[z] : c.for = label[z]
                      /\ \A time \in queue'[z] : time = label[z]
                      /\ \A p \in Owners : HeldFor(writer'[z][p], label[z])
    BY DEF SettledHeld, HeldFor
  <2>1. /\ \A c \in pool[z] : c.for = label[z]
        /\ \A time \in queue[z] : time = label[z]
        /\ \A p \in Owners : HeldFor(writer[z][p], label[z])
    BY DEF IInv, SettledHeld
  <2>2. CASE z = s
    <3>1. queue'[z] = q /\ writer'[z] = D
      BY <1>1, <1>3, <2>2
    <3> QED
      BY <1>4, <2>1, <2>2, <3>1
  <2>3. CASE z # s
    <3>1. queue'[z] = queue[z] /\ writer'[z] = writer[z]
      BY <1>1, <1>3, <2>3
    <3> QED
      BY <2>1, <3>1
  <2> QED
    BY <2>2, <2>3
<1> QED
  BY <1>1, <1>2, <1>5, <1>6, WriterStep

LEMMA CommitsKeep ==
  ASSUME IInv, NEW s \in Sessions, NEW o \in Owners,
         Rerank(s, o) \/ Build(s, o) \/ Generate(s, o)
  PROVE  IInv'
<1> DEFINE H == TimesOf(writer[s][o].holds)
<1>1. /\ writer[s][o].holds \in SUBSET Candidate /\ writer[s][o].alone \in BOOLEAN
      /\ queue[s] \in SUBSET Times
  BY DEF IInv, TypeOK
<1>2. H \in SUBSET Times
  BY <1>1, TimesTyped
<1>3. settled[s] => \A time \in H \cup queue[s] : time = label[s]
  BY DEF IInv, SettledHeld, HeldFor, TimesOf
<1> HIDE DEF H
<1>4. CASE Rerank(s, o)
  <2>1. PICK stay \in Stays(s, writer[s][o].alone) : Ranks(s, o, H \cup stay)
    BY <1>4 DEF Rerank, H
  <2>2. stay \subseteq queue[s] /\ stay \in SUBSET Times
    BY <1>1, StaysTyped
  <2>3. H \cup stay \in SUBSET Times /\ (settled[s] => \A time \in H \cup stay : time = label[s])
    BY <1>2, <1>3, <2>2
  <2> QED
    BY <1>4, <2>1, <2>3, RanksKeeps DEF Rerank
<1>5. CASE Build(s, o)
  <2>1. queue[s] \cup H \in SUBSET Times /\ Ranks(s, o, queue[s] \cup H) /\ label' = label
    BY <1>1, <1>2, <1>5 DEF Build, H
  <2> QED
    BY <1>3, <2>1, RanksKeeps
<1>6. CASE Generate(s, o)
  <2>1. Ranks(s, o, H) /\ label' = label
    BY <1>6 DEF Generate, H
  <2> QED
    BY <1>2, <1>3, <2>1, RanksKeeps
<1> QED
  BY <1>4, <1>5, <1>6

LEMMA NextIInv == IInv /\ [Next]_vars => IInv'
<1> SUFFICES ASSUME IInv, [Next]_vars PROVE IInv'
  OBVIOUS
<1>1. CASE Wake
  BY <1>1, WakeKeeps
<1>2. CASE Select
  BY <1>2, SelectKeeps
<1>3. ASSUME NEW s \in Sessions,
             GetSession(s) \/ Rescore(s) \/ Drift(s) \/ Broadcast(s) \/ Raises(s)
      PROVE  IInv'
  BY <1>3, GetSessionKeeps, RescoreKeeps, DriftKeeps, BroadcastKeeps, RaisesKeeps
<1>4. CASE EndSweep
  BY <1>4, EndSweepKeeps
<1>5. CASE Restart
  BY <1>5, RestartKeeps
<1>6. ASSUME NEW s \in Sessions, NEW o \in Owners, Writer(s, o) PROVE IInv'
  BY <1>6, ScanKeeps, InsertKeeps, ReadPoolKeeps, GiveUpKeeps, CommitsKeep DEF Writer
<1>7. CASE Tick
  BY <1>7, TickKeeps
<1>8. ASSUME NEW s \in Sessions, Close(s) \/ Connect(s) \/ Disconnect(s) PROVE IInv'
  BY <1>8, OthersKeep
<1>9. CASE UNCHANGED vars
  <2>1. UNCHANGED <<label, queues>> /\ task' = task /\ now' \in now .. MaxNow
    BY <1>9, NowStays DEF vars
  <2>2. TargetOnSchedule' /\ task' \in TaskRecord
    BY <2>1, TargetKept DEF IInv, TypeOK, TaskRecord
  <2> QED
    BY <1>9, <2>1, <2>2, RowsKept DEF vars, IInv, TypeOK
<1> QED
  BY <1>1, <1>2, <1>3, <1>4, <1>5, <1>6, <1>7, <1>8, <1>9 DEF Next, Scheduler

LEMMA AlwaysIInv == Spec => []IInv
BY InitIInv, NextIInv, PTL DEF Spec

-----------------------------------------------------------------------------
(* Every column, the tasks and the scheduler's record keep their types,    *)
(* for any sessions, participants, picks and bounds.                       *)
THEOREM TypeCorrect == Spec => []TypeOK
<1>1. IInv => TypeOK
  BY DEF IInv
<1> QED
  BY <1>1, AlwaysIInv, PTL

(* compute_expected_time_of_day: for any sessions, picks and lengths of a  *)
(* step, no session is ever behind its pick or ahead of its schedule,      *)
(* whichever sweeps fail, are cut off or commit late.                      *)
THEOREM KeepsToSchedule == Spec => []OnSchedule
<1>1. IInv => OnSchedule
  BY DEF IInv
<1> QED
  BY <1>1, AlwaysIInv, PTL

(* _drift_one_session: a drift that overlapped no other task of its        *)
(* session leaves its pool and queue ranked for the new time of day, and   *)
(* no later build, join, rerank, generated playlist, failure or restart    *)
(* changes that before the session drifts again.                           *)
THEOREM SettledStaysRanked == Spec => []RankedWhenSettled
<1>1. IInv => RankedWhenSettled
  BY DEF IInv, SettledHeld, RankedWhenSettled, TimesOf
<1> QED
  BY <1>1, AlwaysIInv, PTL

(* _drift_one_session and _build_initial: no commit of any task takes the  *)
(* time of day of a session back.                                          *)
THEOREM OnlyForward == Spec => ForwardOnly
<1>1. IInv /\ [Next]_vars => [\A s \in Sessions : label[s] <= label'[s]]_vars
  <2> SUFFICES ASSUME IInv, [Next]_vars, NEW z \in Sessions
               PROVE  label[z] <= label'[z]
    OBVIOUS
  <2>1. label \in [Sessions -> Times] /\ label[z] \in Int
    BY DEF IInv, TypeOK, Times, Labels, NoPick
  <2>2. ASSUME NEW s \in Sessions, Drift(s) PROVE label[z] <= label'[z]
    <3>1. TargetAhead(s, task.target)
      BY <2>2 DEF IInv, TargetOnSchedule, Drift, At
    <3>2. label' = [label EXCEPT ![s] = task.target]
      BY <2>2 DEF Drift
    <3> QED
      BY <2>1, <3>1, <3>2 DEF TargetAhead
  <2>3. CASE label' = label
    BY <2>1, <2>3
  <2> QED
    BY <2>2, <2>3 DEF Next, Scheduler, Writer, vars, rows, Wake, Select, GetSession, Rescore,
      Broadcast, Raises, EndSweep, Tick, Restart, Close, Connect, Disconnect, Scan, Insert,
      ReadPool, Rerank, Build, Generate, GiveUp
<1> QED
  BY <1>1, AlwaysIInv, PTL DEF Spec, ForwardOnly
=============================================================================
