----------------------------- MODULE DriftSweep -----------------------------
(***************************************************************************)
(* The scheduler that moves the time of day of long sessions forward.      *)
(* Every interval it sweeps the sessions that have a socket, one after the *)
(* other over a single database session, while sockets come and go, hosts  *)
(* close sessions, the database fails and the process restarts, and while  *)
(* builds, joins, reranks and generated playlists go on with what they     *)
(* read of the session before.  Of a candidate and of a queue only the     *)
(* time of day they were scored for is kept; QueueTasks has the rest.      *)
(***************************************************************************)
EXTENDS Integers, FiniteSets

CONSTANTS
  Sessions,
  Owners,       \* participants, whose tracks are the candidates
  Picks,        \* Picks[s]: the host's pick, an index of the labels, or NoPick
  Created,      \* Created[s]: when the session was created
  NoSession,    \* no session is being drifted
  Last,         \* index of the last label, "Late Night"
  StepTime,     \* DRIFT_STEP_HOURS, in ticks of the clock
  MaxNow, MaxErrors, MaxRestarts   \* bounds on time, database errors, restarts

VARIABLES
  now,          \* the wall clock
  active,       \* sessions that are not closed
  connected,    \* sessions with a socket (ConnectionManager)
  label,        \* label[s]: committed time_of_day of the session's DNA
  pool,         \* pool[s]: whose candidates are stored, scored for which time of day
  queue,        \* queue[s]: the times of day its tracks are ranked for, the
                \* playing one excepted, which reranks keep as it is
  writer,       \* writer[s][o]: what a task for o has read of s and not written
  settled,      \* history: nothing else was at work on s when it last drifted
  told,         \* told[s]: time_of_day as of the last drift its clients know of
  task,         \* the scheduler: where it is, and what its sweep still has
  errors,       \* database errors so far
  raised,       \* drifts of a session that ended in an exception so far
  restarts

queues == <<pool, queue, writer, settled>>
vars == <<now, active, connected, label, queues, told, task, errors, raised, restarts>>
rows == <<active, label, queues>>

Labels == 0 .. Last
NoPick == -1
Times == Labels \cup {NoPick}
Candidate == [owner : Owners, for : Times]

Asleep == [pc |-> "asleep", todo |-> {}, on |-> NoSession, target |-> NoPick,
           seen |-> {}, alone |-> TRUE, broken |-> FALSE]
Idle == [pc |-> "idle", holds |-> {}, todo |-> {}, alone |-> TRUE]

ASSUME LabelsNat == Last \in Nat /\ StepTime \in Nat \ {0}
ASSUME SessionsPicked ==
  /\ Picks \in [Sessions -> Times]
  /\ Created \in [Sessions -> Nat]
ASSUME NoSessionApart == NoSession \notin Sessions
ASSUME BoundsNat == MaxNow \in Nat /\ MaxErrors \in Nat /\ MaxRestarts \in Nat

Init ==
  /\ now = 0
  /\ active = Sessions /\ connected \in SUBSET Sessions
  /\ label = Picks /\ told = Picks
  /\ pool = [s \in Sessions |-> {}] /\ queue = [s \in Sessions |-> {}]
  /\ writer = [s \in Sessions |-> [o \in Owners |-> Idle]]
  /\ settled = [s \in Sessions |-> TRUE]
  /\ task = Asleep
  /\ errors = 0 /\ raised = 0 /\ restarts = 0

-----------------------------------------------------------------------------
(* compute_expected_time_of_day: from the pick and the elapsed time alone. *)
Elapsed(s) == IF now < Created[s] THEN 0 ELSE now - Created[s]
Expected(s) ==
  LET index == Picks[s] + Elapsed(s) \div StepTime
  IN IF index < Last THEN index ELSE Last

Picked(s) == Picks[s] # NoPick
Due(s) == Picked(s) /\ label[s] # Expected(s)

At(pc) == task.pc = pc
Fails == errors < MaxErrors /\ errors' = errors + 1

(* A sweep starts with the sessions that have a socket, if any, ...        *)
Wake ==
  /\ At("asleep") /\ connected # {}
  /\ task' = [task EXCEPT !.pc = "selecting", !.todo = connected]
  /\ UNCHANGED <<now, connected, rows, told, errors, raised, restarts>>

(* ... and selects the active ones; an error here ends the sweep only.     *)
SelectFatal ==   \* mutant: the error ends the scheduler
  /\ At("selecting")
  /\ \/ task' = [task EXCEPT !.pc = "sweeping", !.todo = @ \cap active] /\ UNCHANGED errors
     \/ Fails /\ task' = [Asleep EXCEPT !.pc = "stopped"]
  /\ UNCHANGED <<now, connected, rows, told, raised, restarts>>
Select ==
  /\ At("selecting")
  /\ \/ task' = [task EXCEPT !.pc = "sweeping", !.todo = @ \cap active] /\ UNCHANGED errors
     \/ Fails /\ task' = Asleep
  /\ UNCHANGED <<now, connected, rows, told, raised, restarts>>

Done(s) == task' = [Asleep EXCEPT !.pc = "sweeping", !.todo = task.todo \ {s},
                                  !.broken = task.broken]

(* The row of the next session is read again: it drifts if it is due.      *)
DriftsUnpicked(s) == s \in active /\ label[s] # Expected(s)   \* mutant
Drifts(s) == s \in active /\ Due(s)

GetSessionSaving(s) ==   \* mutant: the target is saved before the re-rank
  /\ At("sweeping") /\ s \in task.todo /\ ~task.broken
  /\ IF Drifts(s)
     THEN task' = [task EXCEPT !.pc = "drifting", !.on = s, !.target = Expected(s)]
     ELSE Done(s)
  /\ label' = IF Drifts(s) THEN [label EXCEPT ![s] = Expected(s)] ELSE label
  /\ UNCHANGED <<now, connected, active, queues, told, errors, raised, restarts>>
GetSession(s) ==
  /\ At("sweeping") /\ s \in task.todo /\ ~task.broken
  /\ IF Drifts(s)
     THEN task' = [task EXCEPT !.pc = "drifting", !.on = s, !.target = Expected(s)]
     ELSE Done(s)
  /\ UNCHANGED <<now, connected, rows, told, errors, raised, restarts>>

(* The stored candidates are scored for the target, and the queue is read; *)
(* others see neither until the commit.                                    *)
Rescore(s) ==
  /\ At("drifting") /\ task.on = s
  /\ task' = [task EXCEPT !.pc = "ranking", !.seen = {c.owner : c \in pool[s]}]
  /\ UNCHANGED <<now, connected, rows, told, errors, raised, restarts>>

TimesOf(C) == {c.for : c \in C}
Rescored(s) ==
  {IF c.owner \in task.seen THEN [c EXCEPT !.for = task.target] ELSE c : c \in pool[s]}

(* Candidates inserted since the drift scored those it saw.                *)
Late(s) == {c \in pool[s] : c.owner \notin task.seen}

(* A rerank deletes the rows it read: those another task has committed     *)
(* since then may stay.                                                    *)
Stays(s, alone) == IF alone THEN {{}} ELSE SUBSET queue[s]

(* A commit to the queue disturbs the reranks that have read it.           *)
Disturbed(s) ==
  [o \in Owners |-> [writer[s][o] EXCEPT !.alone = writer[s][o].pc # "ranking"]]

(* The new target, the rescored pool and the re-ranked queue are committed *)
(* in one transaction.  Its rerank reads the pool once more.               *)
DriftSilent(s) ==   \* mutant: no broadcast
  /\ At("ranking") /\ task.on = s
  /\ label' = [label EXCEPT ![s] = task.target]
  /\ Done(s)
  /\ UNCHANGED <<now, active, connected, queues, told, errors, raised, restarts>>
Drift(s) ==
  /\ At("ranking") /\ task.on = s
  /\ label' = [label EXCEPT ![s] = task.target]
  /\ pool' = [pool EXCEPT ![s] = Rescored(s)]
  /\ \E late \in SUBSET Late(s), stay \in Stays(s, task.alone) :
       queue' = [queue EXCEPT ![s] = TimesOf(Rescored(s) \ Late(s)) \cup TimesOf(late) \cup stay]
  /\ writer' = [writer EXCEPT ![s] = Disturbed(s)]
  /\ settled' = [settled EXCEPT ![s] =
                   task.alone /\ Late(s) = {} /\ \A o \in Owners : writer[s][o] = Idle]
  /\ task' = [task EXCEPT !.pc = "telling"]
  /\ UNCHANGED <<now, active, connected, told, errors, raised, restarts>>

Broadcast(s) ==
  /\ At("telling") /\ task.on = s
  /\ told' = [told EXCEPT ![s] = label[s]]
  /\ Done(s)
  /\ UNCHANGED <<now, connected, rows, errors, raised, restarts>>

(* The exception of one session's drift is logged and the sweep goes on,   *)
(* without a rollback: once a statement has failed, so does every later    *)
(* one of the same database session.  (Scoring and ranking what the        *)
(* database returned raises nothing by itself.)                            *)
Raises(s) ==
  /\ s \in task.todo
  /\ \/ At("sweeping") /\ task.broken /\ UNCHANGED errors
     \/ At("sweeping") /\ ~task.broken /\ Fails
     \/ (At("drifting") \/ At("ranking")) /\ task.on = s /\ Fails
  /\ task' = [Asleep EXCEPT !.pc = "sweeping", !.todo = task.todo \ {s}, !.broken = TRUE]
  /\ raised' = raised + 1
  /\ UNCHANGED <<now, connected, rows, told, restarts>>

EndSweep ==
  /\ At("sweeping") /\ task.todo = {}
  /\ task' = Asleep
  /\ UNCHANGED <<now, connected, rows, told, errors, raised, restarts>>

-----------------------------------------------------------------------------
(* The other writers of a session's pool and queue.                        *)
WriterAt(s, o, pc) == writer[s][o].pc = pc
Writes(s, o, w) == writer' = [writer EXCEPT ![s][o] = w]

(* A build (of an empty pool) scans some of the participants, a join one   *)
(* more; a generated playlist stores none, and one stands for all it scans.*)
(* They are scored for the time of day read with the session at the start. *)
Scan(s, o) ==
  /\ WriterAt(s, o, "idle")
  /\ \E pc \in {"building", "joining", "generating"}, M \in SUBSET Owners :
       LET scored == {[owner |-> p, for |-> label[s]] : p \in M}
       IN /\ pc = "building" => pool[s] = {}
          /\ pc # "building" => M = {o}
          /\ pc = "joining" => pool[s] # {} /\ \A c \in pool[s] : c.owner # o
          /\ Writes(s, o, [Idle EXCEPT !.pc = pc, !.holds = scored,
                             !.todo = IF pc = "generating" THEN {} ELSE scored])
  /\ UNCHANGED <<now, active, connected, label, pool, queue, settled, told, task,
                 errors, raised, restarts>>

(* persist_candidate_pool for one participant, unless it is stored already.*)
Insert(s, o) ==
  /\ \E c \in writer[s][o].todo :
       /\ pool' = [pool EXCEPT ![s] =
                     IF \E d \in @ : d.owner = c.owner THEN @ ELSE @ \cup {c}]
       /\ Writes(s, o, [writer[s][o] EXCEPT !.todo = @ \ {c}])
  /\ UNCHANGED <<now, active, connected, label, queue, settled, told, task,
                 errors, raised, restarts>>

(* A rerank, also the one a join ends with, reads the queue and the pool.  *)
ReadPool(s, o) ==
  /\ \/ WriterAt(s, o, "idle")
     \/ WriterAt(s, o, "joining") /\ writer[s][o].todo = {}
  /\ Writes(s, o, [Idle EXCEPT !.pc = "ranking", !.holds = pool[s]])
  /\ UNCHANGED <<now, active, connected, label, pool, queue, settled, told, task,
                 errors, raised, restarts>>

(* A task for o commits the queue q and ends.                              *)
Ranks(s, o, q) ==
  /\ queue' = [queue EXCEPT ![s] = q]
  /\ writer' = [writer EXCEPT ![s] = [Disturbed(s) EXCEPT ![o] = Idle]]
  /\ task' = [task EXCEPT !.alone = @ /\ ~(At("ranking") /\ task.on = s)]
  /\ UNCHANGED <<now, active, connected, pool, settled, told, errors, raised, restarts>>

Rerank(s, o) ==
  /\ WriterAt(s, o, "ranking")
  /\ \E stay \in Stays(s, writer[s][o].alone) :
       Ranks(s, o, TimesOf(writer[s][o].holds) \cup stay)
  /\ UNCHANGED label

(* _build_initial adds its tracks and assigns the DNA it began with, which *)
(* is the one its session object was loaded with: no column is updated.    *)
BuildSavingDna(s, o) ==   \* mutant: the assignment reaches the database
  /\ WriterAt(s, o, "building") /\ writer[s][o].todo = {} /\ writer[s][o].holds # {}
  /\ Ranks(s, o, queue[s] \cup TimesOf(writer[s][o].holds))
  /\ \E t \in TimesOf(writer[s][o].holds) : label' = [label EXCEPT ![s] = t]
Build(s, o) ==
  /\ WriterAt(s, o, "building") /\ writer[s][o].todo = {}
  /\ Ranks(s, o, queue[s] \cup TimesOf(writer[s][o].holds))
  /\ UNCHANGED label

(* generate_playlist replaces whatever is queued.                          *)
Generate(s, o) ==
  /\ WriterAt(s, o, "generating")
  /\ Ranks(s, o, TimesOf(writer[s][o].holds))
  /\ UNCHANGED label

(* Adapter and database errors end a task; so does the unique key.         *)
GiveUp(s, o) ==
  /\ ~WriterAt(s, o, "idle") /\ Writes(s, o, Idle)
  /\ UNCHANGED <<now, active, connected, label, pool, queue, settled, told, task,
                 errors, raised, restarts>>

-----------------------------------------------------------------------------
Tick ==
  /\ now < MaxNow /\ now' = now + 1
  /\ UNCHANGED <<connected, rows, told, task, errors, raised, restarts>>

Close(s) ==
  /\ s \in active /\ active' = active \ {s}
  /\ UNCHANGED <<now, connected, label, queues, told, task, errors, raised, restarts>>

(* A client that connects reads the queue as it is.                        *)
Connect(s) ==
  /\ s \notin connected /\ connected' = connected \cup {s}
  /\ told' = [told EXCEPT ![s] = label[s]]
  /\ UNCHANGED <<now, rows, task, errors, raised, restarts>>

Disconnect(s) ==
  /\ s \in connected /\ connected' = connected \ {s}
  /\ UNCHANGED <<now, rows, told, task, errors, raised, restarts>>

(* The lifespan handler cancels the scheduler and starts another; tasks    *)
(* and sockets are gone, and what was not committed is rolled back.        *)
Restart ==
  /\ restarts < MaxRestarts /\ restarts' = restarts + 1
  /\ task' = Asleep /\ connected' = {}
  /\ writer' = [s \in Sessions |-> [o \in Owners |-> Idle]]
  /\ UNCHANGED <<now, active, label, pool, queue, settled, told, errors, raised>>

Scheduler ==
  \/ Wake \/ Select \/ EndSweep
  \/ \E s \in Sessions :
       GetSession(s) \/ Rescore(s) \/ Drift(s) \/ Broadcast(s) \/ Raises(s)

Writer(s, o) ==
  \/ Scan(s, o) \/ Insert(s, o) \/ ReadPool(s, o)
  \/ Rerank(s, o) \/ Build(s, o) \/ Generate(s, o) \/ GiveUp(s, o)

Next ==
  \/ Scheduler \/ \E s \in Sessions, o \in Owners : Writer(s, o)
  \/ Tick \/ Restart \/ \E s \in Sessions : Close(s) \/ Connect(s) \/ Disconnect(s)

Spec == Init /\ [][Next]_vars

(* The loop of the scheduler never ends, and time passes.                  *)
FairSpec == Spec /\ WF_vars(Scheduler) /\ WF_vars(Tick)

-----------------------------------------------------------------------------
TypeOK ==
  /\ now \in 0 .. MaxNow
  /\ active \subseteq Sessions /\ connected \subseteq Sessions
  /\ label \in [Sessions -> Times] /\ told \in [Sessions -> Times]
  /\ pool \in [Sessions -> SUBSET Candidate]
  /\ queue \in [Sessions -> SUBSET Times]
  /\ writer \in [Sessions -> [Owners ->
       [pc : {"idle", "building", "joining", "generating", "ranking"},
        holds : SUBSET Candidate, todo : SUBSET Candidate, alone : BOOLEAN]]]
  /\ settled \in [Sessions -> BOOLEAN]
  /\ task \in [pc : {"asleep", "selecting", "sweeping", "drifting", "ranking", "telling"},
               todo : SUBSET Sessions, on : Sessions \cup {NoSession}, target : Times,
               seen : SUBSET Owners, alone : BOOLEAN, broken : BOOLEAN]
  /\ errors \in 0 .. MaxErrors /\ raised \in Nat /\ restarts \in 0 .. MaxRestarts

(* The time of day of a session is one that was expected at some moment    *)
(* since its creation: never behind the host's pick, ahead of the clock or *)
(* past "Late Night", and never given to a session without a pick.         *)
OnSchedule ==
  \A s \in Sessions :
    IF Picked(s) THEN label[s] \in Picks[s] .. Expected(s) ELSE label[s] = NoPick

(* A drift that found no other task at work on its session leaves pool and *)
(* queue ranked for the time of day it committed, and until the session    *)
(* next drifts they stay so, whatever is built, joined, skipped, generated *)
(* or fails in between.  Tracks ranked for another time come only from     *)
(* tasks that overlapped a drift; one that nothing overlaps repairs them.  *)
RankedWhenSettled ==
  \A s \in Sessions : settled[s] => TimesOf(pool[s]) \cup queue[s] \subseteq {label[s]}

(* time_drift.py:15: the time of day only ever steps forward, although     *)
(* drifts commit what was expected when they began, and builds assign the  *)
(* DNA they read before a drift that may have committed since.             *)
ForwardOnly == [][\A s \in Sessions : label[s] <= label'[s]]_vars

(* A session that keeps its sockets and stays open is brought to the       *)
(* expected time of day, though sweeps fail and ticks are missed.          *)
CatchesUp ==
  \A s \in Sessions : []<>(s \in active /\ s \in connected => ~Due(s))

(* Whoever stays connected is told of every drift by the sweep itself.     *)
ClientsTold ==
  \A s \in Sessions : []<>(s \in connected => told[s] = label[s])

(* time_drift.py:174: one session's failure does not take down the rest of *)
(* the sweep, so no more drifts fail than the database has failed.         *)
SweepIsolates == raised <= errors
=============================================================================
