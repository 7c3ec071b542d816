--------------------------- MODULE NativePlayback ---------------------------
(***************************************************************************)
(* What happens after a queue commit on a Spotify session: the task that   *)
(* committed starts playback of position 0 on the host's device and        *)
(* appends the rest to Spotify's own queue, which can only be appended to. *)
(* Every await is a step, so the tasks of concurrent skips, builds and     *)
(* Retry-Playback requests interleave.  The commit itself is one step here *)
(* (QueueTasks takes it apart), so two first builds do not overlap here.   *)
(***************************************************************************)
EXTENDS Naturals, SequencesExt

CONSTANTS
  Task,       \* background tasks and /play requests
  Track,
  MaxQueue,   \* bounds the length of the stored queue
  MaxNative,  \* bounds the length of Spotify's queue
  Nothing     \* no track

ASSUME PlaybackAssumption ==
  /\ MaxQueue \in Nat /\ MaxNative \in Nat
  /\ Nothing \notin Track

VARIABLES
  queue,    \* queue_tracks by position
  playing,  \* the track the host's device plays
  native,   \* Spotify's queue
  device,   \* a device is active
  task

vars == <<queue, playing, native, device, task>>

Queues == {q \in BoundedSeq(Track, MaxQueue) : IsInjective(q)}
Current(q) == IF q = <<>> THEN Nothing ELSE Head(q)
Rest(q) == IF q = <<>> THEN <<>> ELSE Tail(q)

Blank == [pc |-> "new", kind |-> "none", before |-> Nothing, current |-> Nothing,
          todo |-> <<>>, alone |-> TRUE, good |-> TRUE]

Init ==
  /\ queue = <<>> /\ playing = Nothing /\ native = <<>> /\ device \in BOOLEAN
  /\ task = [t \in Task |-> Blank]

At(t, pc) == task[t].pc = pc
Active(t) == task[t].pc \notin {"new", "ended"}
Goto(t, pc) == task' = [task EXCEPT ![t].pc = pc]

(* The history fields alone and good say of a task that nothing else ran   *)
(* or played on since it began, and that nothing it asked Spotify failed.  *)
Begin(t) ==
  /\ At(t, "new")
  /\ \E kind \in {"rerank", "build", "play"} :
       task' = [u \in Task |->
         IF u = t THEN [task[t] EXCEPT
                          !.kind = kind,
                          !.pc = CASE kind = "rerank" -> "before"
                                   [] kind = "build"  -> "commit"
                                   [] OTHER           -> "current",
                          !.alone = \A v \in Task : ~Active(v)]
         ELSE [task[u] EXCEPT !.alone = FALSE]]
  /\ UNCHANGED <<queue, playing, native, device>>

-----------------------------------------------------------------------------
(* _rerank and _build_initial.                                             *)

(* track_id_before                                                         *)
ReadBefore(t) ==
  /\ At(t, "before")
  /\ task' = [task EXCEPT ![t].before = Current(queue), ![t].pc = "commit"]
  /\ UNCHANGED <<queue, playing, native, device>>

(* rerank_from_candidates keeps the current track or drops it.             *)
Reranked == {q \in Queues :
  queue # <<>> => Current(q) = Current(queue) \/ Current(queue) \notin Range(q)}

Rerank(t) ==
  /\ At(t, "commit") /\ task[t].kind = "rerank"
  /\ queue' \in Reranked
  /\ Goto(t, "current")
  /\ UNCHANGED <<playing, native, device>>

(* A first build goes on with the tracks it has in hand, if any.           *)
BuildFirst(t) ==
  /\ At(t, "commit") /\ task[t].kind = "build" /\ queue = <<>>
  /\ queue' \in Queues
  /\ task' = [task EXCEPT ![t].pc = IF queue' = <<>> THEN "ended" ELSE "devices",
                          ![t].current = Current(queue'),
                          ![t].todo = Rest(queue')]
  /\ UNCHANGED <<playing, native, device>>

(* A build that finds a pool reranks and leaves playback alone; so do a    *)
(* guest's join and the drift sweep.                                       *)
BuildAgain(t) ==
  /\ At(t, "commit") /\ task[t].kind = "build"
  /\ queue' \in Reranked
  /\ Goto(t, "ended")
  /\ UNCHANGED <<playing, native, device>>

AttemptsWhenSame(t, current) ==   \* mutant: the comparison is inverted
  current # Nothing /\ (task[t].kind = "play" \/ current = task[t].before)
AttemptsNothing(t, current) ==   \* mutant: an empty queue is not asked for
  task[t].kind = "play" \/ current # task[t].before

(* The current row, read again after the commit.  Playback is attempted    *)
(* only when it is another track than before; /play attempts it always.    *)
(* Without a host adapter nothing more is done.                            *)
Attempts(t, current) ==
  current # Nothing /\ (task[t].kind = "play" \/ current # task[t].before)

ReadCurrentStale(t) ==   \* mutant: playback is started for the row read first
  /\ At(t, "current")
  /\ task' = [task EXCEPT
       ![t].current = IF task[t].before = Nothing THEN Current(queue) ELSE task[t].before,
       ![t].pc = IF Attempts(t, Current(queue)) THEN "devices" ELSE "order"]
  /\ UNCHANGED <<queue, playing, native, device>>

ReadCurrent(t) ==
  /\ At(t, "current")
  /\ \/ Goto(t, "ended")
     \/ LET c == Current(queue)
        IN task' = [task EXCEPT
             ![t].current = c,
             ![t].pc = IF Attempts(t, c) THEN "devices"
                       ELSE IF task[t].kind = "play" THEN "ended" ELSE "order"]
  /\ UNCHANGED <<queue, playing, native, device>>

-----------------------------------------------------------------------------
(* attempt_spotify_playback.                                               *)

AfterAttempt(t) == IF task[t].kind = "build" THEN "add" ELSE "order"

Devices(t) ==
  /\ At(t, "devices")
  /\ \/ device /\ Goto(t, "start")
     \/ task' = [task EXCEPT ![t].pc = AfterAttempt(t), ![t].good = FALSE]
  /\ UNCHANGED <<queue, playing, native, device>>

Start(t) ==
  /\ At(t, "start")
  /\ \/ /\ device
        /\ playing' = task[t].current
        /\ Goto(t, AfterAttempt(t))
     \/ /\ task' = [task EXCEPT ![t].pc = AfterAttempt(t), ![t].good = FALSE]
        /\ UNCHANGED playing
  /\ UNCHANGED <<queue, native, device>>

-----------------------------------------------------------------------------
(* sync_native_queue.                                                      *)

ReadOrder(t) ==
  /\ At(t, "order")
  /\ task' = [task EXCEPT ![t].todo = Rest(queue), ![t].pc = "add"]
  /\ UNCHANGED <<queue, playing, native, device>>

(* What one add_to_queue appends to Spotify's queue: with_retry repeats    *)
(* the POST up to twice when an answer is lost, whether or not it took     *)
(* effect.                                                                 *)
Added(t) ==
  LET h == Head(task[t].todo) IN {<<>>, <<h>>, <<h, h>>, <<h, h, h>>}

AddBackwards(t) ==   \* mutant: the tracks are added from the end
  /\ At(t, "add") /\ task[t].todo # <<>> /\ device
  /\ Len(native) < MaxNative
  /\ native' = Append(native, Last(task[t].todo))
  /\ task' = [task EXCEPT ![t].todo = Front(@)]
  /\ UNCHANGED <<queue, playing, device>>

(* A failure is counted and skipped, also one whose add took effect;       *)
(* without a device every add fails.                                       *)
Add(t) ==
  /\ At(t, "add") /\ task[t].todo # <<>>
  /\ \E s \in Added(t), ok \in BOOLEAN :
       /\ ok => s # <<>>
       /\ s # <<>> => device /\ Len(native \o s) <= MaxNative
       /\ native' = native \o s
       /\ task' = [task EXCEPT ![t].todo = Tail(@), ![t].good = @ /\ ok /\ Len(s) = 1]
  /\ UNCHANGED <<queue, playing, device>>

Done(t) ==
  /\ At(t, "add") /\ task[t].todo = <<>>
  /\ Goto(t, "ended")
  /\ UNCHANGED <<queue, playing, native, device>>

-----------------------------------------------------------------------------
(* Spotify plays on when a track ends; nothing tells the server.           *)
Advance ==
  /\ device /\ native # <<>>
  /\ playing' = Head(native) /\ native' = Tail(native)
  /\ task' = [t \in Task |-> [task[t] EXCEPT !.alone = FALSE]]
  /\ UNCHANGED <<queue, device>>

DeviceChange ==
  /\ device' = ~device
  /\ UNCHANGED <<queue, playing, native, task>>

Next ==
  \/ \E t \in Task :
       \/ Begin(t) \/ ReadBefore(t) \/ Rerank(t) \/ BuildFirst(t) \/ BuildAgain(t)
       \/ ReadCurrent(t) \/ Devices(t) \/ Start(t) \/ ReadOrder(t) \/ Add(t) \/ Done(t)
  \/ Advance \/ DeviceChange

Spec == Init /\ [][Next]_vars

-----------------------------------------------------------------------------
(* Properties.                                                             *)

Pcs == {"new", "before", "commit", "current", "devices", "start", "order", "add", "ended"}
Kinds == {"none", "rerank", "build", "play"}
Tasks == [pc : Pcs, kind : Kinds, before : Track \cup {Nothing},
          current : Track \cup {Nothing}, todo : Queues, alone : BOOLEAN, good : BOOLEAN]

(* Every variable has its type, and a start names a track.                 *)
TypeOK ==
  /\ queue \in Queues
  /\ playing \in Track \cup {Nothing}
  /\ native \in BoundedSeq(Track, MaxNative)
  /\ device \in BOOLEAN
  /\ \A t \in Task : task[t] \in Tasks
  /\ \A t \in Task : At(t, "devices") \/ At(t, "start") => task[t].current # Nothing

(* A task that ran alone, and that Spotify served without a failure, ends  *)
(* with its queue on the device: the tracks after position 0 are the end   *)
(* of Spotify's queue, in order, and when it had a new position 0 that is  *)
(* what plays.  The reads after the commit, the start and the adds make it *)
(* true together.  (A rerank that empties the queue stops nothing.)        *)
UndisturbedSync ==
  [][\A t \in Task :
       At(t, "add") /\ task'[t].pc = "ended" /\ task[t].alone /\ task[t].good
         /\ queue # <<>> =>
         /\ IsSuffix(Rest(queue), native)
         /\ task[t].current # task[t].before => playing = Current(queue)]_vars

(* A task that runs alone asks Spotify to play only the track that is      *)
(* position 0 of the stored queue at that moment, whatever kind of task it *)
(* is and whichever reads it took the track from.                          *)
StartsCurrent ==
  \A t \in Task : At(t, "start") /\ task[t].alone => task[t].current = Current(queue)
=============================================================================
