----------------------------- MODULE QueueTasks -----------------------------
(***************************************************************************)
(* The concurrent writers of one session's queue.  Every HTTP handler,     *)
(* background task and drift sweep opens a database session of its own and *)
(* yields at every await, so the tasks of one JAM interleave between any   *)
(* two SQL statements.  One action is one statement (or one handler part   *)
(* with no await that matters inside); a task keeps in its record what the *)
(* code keeps in locals and in the identity map of its database session.   *)
(* READ COMMITTED: a statement sees what was committed when it started;    *)
(* DELETE and UPDATE lock their rows until the task commits.               *)
(***************************************************************************)
EXTENDS QueueRows, SequencesExt

CONSTANTS
  Task,       \* requests and sweeps; each runs once, which bounds a behaviour
  May,        \* May[t]: what task t may be: "connect", "skip", "reconnect", ...
  Host,       \* the member that created the session
  HostTrack,  \* HostTrack[t]: the track on the host's platform that t resolves to
  Public,     \* tracks of public playlists on the host's platform
  NoRow       \* no queue row

ASSUME TaskAssumption ==
  /\ Host \in Member
  /\ HostTrack \in [Track -> Track]
  /\ Public \subseteq Track
  /\ NoRow \notin Nat \cup Row
  /\ May \in [Task -> SUBSET {"connect", "skip", "reconnect", "join", "drift"}]

VARIABLES
  rows,       \* committed queue_tracks rows
  pool,       \* committed session_candidate_tracks rows
  sess,       \* the sessions row: effective threshold, build status, DNA
  members,    \* session_participants
  events,     \* playback_events
  nextId,     \* next fresh queue row id (uuid4 in the code)
  task,       \* the running requests and background tasks
  clean       \* history: the last queue write saw the queue and the session
              \* row exactly as they were when it committed

vars == <<rows, pool, sess, members, events, nextId, task, clean>>

Native == {t \in Track : HostTrack[t] = t}

NoView == [threshold |-> NoThreshold, status |-> "empty", dna |-> 0]

(* A task that holds nothing: not yet started ("new") or over ("ended").   *)
Blank(pc) ==
  [pc |-> pc, job |-> "none", member |-> Host, skip |-> NoRow, view |-> NoView,
   seen |-> {}, cands |-> {}, todo |-> <<>>, batch |-> {}, plan |-> <<>>,
   threshold |-> NoThreshold]

Init ==
  /\ rows = {} /\ pool = {} /\ events = {} /\ nextId = 0
  /\ sess = NoView
  /\ members = {Host}
  /\ task = [t \in Task |-> Blank("new")]
  /\ clean = TRUE

At(t, pc) == task[t].pc = pc
Goto(t, pc) == task' = [task EXCEPT ![t].pc = pc]
EndUnclosed(t) == task' = [task EXCEPT ![t].pc = "ended"]   \* mutant: the session is not closed
End(t) == task' = [task EXCEPT ![t] = Blank("ended")]
Active(t) == task[t].pc \notin {"new", "ended"}

-----------------------------------------------------------------------------
(* Locks, as the statements executed so far imply them.                    *)

(* rows deleted and not yet committed                                      *)
LockedRows(t) == IF At(t, "commit") THEN Ids(task[t].seen) ELSE {}

(* drift's autoflushed UPDATE of the sessions row, until its session ends  *)
LocksSession(t) ==
  task[t].job = "drift" /\ task[t].pc \notin {"new", "load", "rescore"}

(* drift's autoflushed UPDATE of the candidate rows                        *)
LocksPool(t) ==
  task[t].job = "drift" /\ task[t].pc \in {"readPool", "delete", "commit"}

(* The build status after a write that leaves n tracks.  SQLAlchemy emits  *)
(* an UPDATE of the column only when the value differs from the loaded one.*)
StatusAfter(t, n) ==
  IF StatusOf(n) = task[t].view.status THEN sess.status ELSE StatusOf(n)

CurrentsOf(R) == {r \in R : r.current}

(* The current row c is kept unless it is the one that t skips.            *)
ProtectedWhenSkipped(t, c) == c # NoRow /\ c.id = task[t].skip   \* mutant
Protected(t, c) == c # NoRow /\ c.id # task[t].skip

(* The current row the rerank of t found: the first by position, if any.   *)
CurrentSeen(t) ==
  LET C == CurrentsOf(task[t].seen) IN IF C = {} THEN {NoRow} ELSE Lowest(C)

(* Candidates of the song of the current row are left out, whether that    *)
(* row is kept or skipped.                                                 *)
EligibleByTrackId(t, c) ==   \* mutant: other copies of the song stay in
  {x \in task[t].cands : c = NoRow \/ x.track # c.track}
Eligible(t, c) ==
  {x \in task[t].cands : c = NoRow \/ Song[x.track] # Song[c.track]}

Base(t, c) == IF Protected(t, c) THEN 1 ELSE 0

(* how many pool tracks follow the protected one                           *)
Taken(t, c) ==
  LET n == Cardinality(Eligible(t, c))
      room == Size - Base(t, c)
  IN IF n <= room THEN n ELSE room

Left(t, c) == Base(t, c) + Taken(t, c)

UpdatesSession(t) ==
  \/ At(t, "commit") /\ \E c \in CurrentSeen(t) :
        StatusOf(Left(t, c)) # task[t].view.status
  \/ At(t, "write") /\ \/ StatusOf(Len(task[t].plan)) # task[t].view.status
                       \/ task[t].threshold # task[t].view.threshold

WaitsFor(t, u) ==
  /\ t # u
  /\ \/ At(t, "delete") /\ Ids(task[t].seen) \cap LockedRows(u) # {}
     \/ At(t, "post") /\ task[t].skip \in LockedRows(u)
     \/ At(t, "bump") /\ LocksPool(u)
     \/ UpdatesSession(t) /\ LocksSession(u)

Free(t) == \A u \in Task : ~WaitsFor(t, u)

-----------------------------------------------------------------------------
(* Requests.                                                               *)

(* A WebSocket client connected; the debounced optimize_queue starts.      *)
Connect(t) ==
  /\ At(t, "new") /\ "connect" \in May[t]
  /\ task' = [task EXCEPT ![t].pc = "load", ![t].job = "build"]
  /\ UNCHANGED <<rows, pool, sess, members, events, nextId, clean>>

(* POST reconnect: schedules a rerank that skips nothing.                  *)
Reconnect(t) ==
  /\ At(t, "new") /\ "reconnect" \in May[t]
  /\ task' = [task EXCEPT ![t].pc = "load", ![t].job = "rerank"]
  /\ UNCHANGED <<rows, pool, sess, members, events, nextId, clean>>

(* PATCH skip reads the row at the lowest position.                        *)
Skip(t) ==
  /\ At(t, "new") /\ "skip" \in May[t]
  /\ \/ rows = {} /\ task' = [task EXCEPT ![t].pc = "load", ![t].job = "rerank"]
     \/ \E r \in Lowest(rows) :
          task' = [task EXCEPT ![t].pc = "post", ![t].job = "rerank",
                               ![t].skip = r.id, ![t].seen = {r}]
  /\ UNCHANGED <<rows, pool, sess, members, events, nextId, clean>>

(* It inserts the playback event, whose foreign key waits for a deleter of *)
(* the row and fails (a 500, nothing scheduled) when the row is gone.      *)
PostSkip(t) ==
  /\ At(t, "post") /\ Free(t)
  /\ \/ /\ task[t].skip \in Ids(rows)
        /\ \E r \in task[t].seen :
             events' = events \cup {[by |-> t, row |-> r.id, track |-> r.track]}
        /\ task' = [task EXCEPT ![t].pc = "load", ![t].seen = {}]
     \/ /\ task[t].skip \notin Ids(rows)
        /\ End(t)
        /\ UNCHANGED events
  /\ UNCHANGED <<rows, pool, sess, members, nextId, clean>>

(* GET join: the participant row is committed, then guest_joined starts.   *)
Join(t) ==
  /\ At(t, "new") /\ "join" \in May[t]
  /\ \E m \in Member \ members :
       /\ members' = members \cup {m}
       /\ task' = [task EXCEPT ![t].pc = "load", ![t].job = "join", ![t].member = m]
  /\ UNCHANGED <<rows, pool, sess, events, nextId, clean>>

(* The drift sweep reaches this session.                                   *)
Drift(t) ==
  /\ At(t, "new") /\ "drift" \in May[t]
  /\ \A u \in Task : ~(task[u].job = "drift" /\ Active(u))
  /\ task' = [task EXCEPT ![t].pc = "load", ![t].job = "drift"]
  /\ UNCHANGED <<rows, pool, sess, members, events, nextId, clean>>

-----------------------------------------------------------------------------
(* Background tasks.                                                       *)

(* db.get(Session): what the identity map holds until the task ends.       *)
(* guest_joined also looks at the pool, and builds when there is none.     *)
(* A sweep that finds the expected time of day already set does nothing.   *)
Load(t) ==
  /\ At(t, "load")
  /\ LET job == task[t].job
         building == job = "build" \/ (job = "join" /\ pool = {})
         next == CASE building         -> "scan"
                   [] job = "join"     -> "overlap"
                   [] job = "rerank"   -> "readQueue"
                   [] OTHER            -> "rescore"
     IN IF job = "drift" /\ sess.dna = LastDna
        THEN End(t)
        ELSE task' = [task EXCEPT ![t].pc = next, ![t].view = sess,
                        ![t].job = IF building THEN "build" ELSE job]
  /\ UNCHANGED <<rows, pool, sess, members, events, nextId, clean>>

(* What a scan of the saved playlists of members M finds, scored.          *)
Scanned(M, dna) == UNION {Scored(m, Library[m], dna, M) : m \in M}

Accepted(D) == Passing(D, LadderStop(D))

(* Public playlists are searched when the ladder ends short: any of their  *)
(* tracks that pass the floor and whose song was not accepted already.     *)
Searched(D, dna) ==
  IF LadderReached(D) THEN {{}}
  ELSE SUBSET {p \in Public : /\ Score[dna][p] >= 1
                              /\ \A c \in Accepted(D) : Song[c.track] # Song[p]}

Unresolvable(C) == {c \in C : c.track \notin Native}

(* _build_initial up to its first write.  With a pool it reranks instead.  *)
(* Otherwise it scans the members it finds (a failing scan is skipped),    *)
(* descends the ladder, searches public playlists, and resolves what was   *)
(* accepted for the host's platform (a resolution may fail); without a     *)
(* host adapter nothing is searched or resolved.                           *)
ScanInto(t, M, D, X, ranked, order) ==
  LET dna == task[t].view.dna
  IN task' = [task EXCEPT
       ![t].pc = "persist",
       ![t].threshold = LadderStop(D),
       ![t].plan = [i \in DOMAIN ranked |-> HostTrack[ranked[i].track]],
       ![t].todo = Append([i \in DOMAIN order |-> Scored(order[i], Library[order[i]], dna, M)],
                          Scored(Host, X, dna, M))]

Scan(t) ==
  /\ At(t, "scan")
  /\ \/ /\ pool # {}
        /\ task' = [task EXCEPT ![t].pc = "readQueue", ![t].job = "rerank"]
     \/ /\ pool = {}
        /\ \E M \in SUBSET members, hostAdapter \in BOOLEAN :
           \E D \in Dedupes(Scanned(M, task[t].view.dna)) :
           \E X \in IF hostAdapter THEN Searched(D, task[t].view.dna) ELSE {{}} :
           LET all == Accepted(D) \cup Scored(Host, X, task[t].view.dna, M)
           IN \E F \in SUBSET Unresolvable(all) :
              \E ranked \in IF hostAdapter THEN Rankings(all \ F) ELSE {<<>>} :
              \E order \in SetToSeqs(M) : ScanInto(t, M, D, X, ranked, order)
  /\ UNCHANGED <<rows, pool, sess, members, events, nextId, clean>>

(* persist_candidate_pool, its SELECT: which tracks the owner already has. *)
(* An empty batch returns before it; after the last one the task goes on.  *)
Persist(t) ==
  /\ At(t, "persist")
  /\ \/ /\ task[t].todo = <<>>
        /\ Goto(t, IF task[t].job = "join" THEN "readQueue" ELSE "write")
     \/ /\ task[t].todo # <<>>
        /\ task' = [task EXCEPT
             ![t].todo = Tail(@),
             ![t].batch = {c \in Head(task[t].todo) : \A d \in pool : ~SameKey(c, d)},
             ![t].pc = IF Head(task[t].todo) = {} THEN "persist" ELSE "insert"]
  /\ UNCHANGED <<rows, pool, sess, members, events, nextId, clean>>

(* uq_candidate_participant_track refuses a batch that another task has    *)
(* overtaken, which ends the task.                                         *)
OvertakenUnnoticed(t) == FALSE   \* mutant: the table without the constraint
Overtaken(t) == \E c \in task[t].batch, d \in pool : SameKey(c, d)

(* The INSERTs of persist_candidate_pool and its commit.                   *)
Insert(t) ==
  /\ At(t, "insert")
  /\ IF Overtaken(t)
     THEN End(t) /\ UNCHANGED pool
     ELSE /\ pool' = pool \cup task[t].batch
          /\ task' = [task EXCEPT ![t].pc = "persist", ![t].batch = {}]
  /\ UNCHANGED <<rows, sess, members, events, nextId, clean>>

(* The end of _build_initial: queue rows are added (none is deleted), the  *)
(* status and the threshold reached are stored.                            *)
Write(t) ==
  /\ At(t, "write") /\ Free(t)
  /\ LET k == task[t]
         n == Len(k.plan)
     IN /\ rows' = rows \cup RowsFrom(k.plan, nextId)
        /\ nextId' = nextId + n
        /\ sess' = [sess EXCEPT
             !.status = StatusAfter(t, n),
             !.threshold = IF k.threshold = k.view.threshold THEN @ ELSE k.threshold]
        /\ clean' = (rows = {} /\ sess.status = k.view.status)
  /\ End(t)
  /\ UNCHANGED <<pool, members, events>>

(* on_guest_joined scans the guest and reads the candidates to increment.  *)
(* A guest with no adapter ends here.                                      *)
ReadOverlap(t) ==
  /\ At(t, "overlap")
  /\ \/ End(t)
     \/ LET m == task[t].member
        IN task' = [task EXCEPT
             ![t].pc = IF Library[m] = {} THEN "persist" ELSE "bump",
             ![t].cands = pool,
             ![t].todo = <<Scored(m, Library[m], task[t].view.dna, {m})>>]
  /\ UNCHANGED <<rows, pool, sess, members, events, nextId, clean>>

(* update_social_overlap_incremental writes the count it read plus one.    *)
Bumped(t) ==
  {IF Overlap(c.track, {task[t].member}) > 0 THEN [c EXCEPT !.overlap = @ + 1] ELSE c :
     c \in task[t].cands}

BumpOverlap(t) ==
  /\ At(t, "bump") /\ Free(t)
  /\ pool' = {IF \E b \in Bumped(t) : SameKey(b, c) /\ Overlap(c.track, {task[t].member}) > 0
              THEN [c EXCEPT !.overlap = (CHOOSE b \in Bumped(t) : SameKey(b, c)).overlap]
              ELSE c : c \in pool}
  /\ task' = [task EXCEPT ![t].pc = "persist", ![t].cands = {}]
  /\ UNCHANGED <<rows, sess, members, events, nextId, clean>>

(* _drift_one_session sets the DNA (flushed with the SELECT that follows)  *)
(* and rescores the candidates that SELECT returned.                       *)
Rescore(t) ==
  /\ At(t, "rescore")
  /\ task' = [task EXCEPT
       ![t].pc = "readQueue",
       ![t].cands = {[c EXCEPT !.score = Score[task[t].view.dna + 1][c.track]] : c \in pool}]
  /\ UNCHANGED <<rows, pool, sess, members, events, nextId, clean>>

-----------------------------------------------------------------------------
(* rerank_from_candidates, run by every job but a first build.             *)

ReadQueue(t) ==
  /\ At(t, "readQueue")
  /\ task' = [task EXCEPT ![t].pc = "readPool", ![t].seen = rows]
  /\ UNCHANGED <<rows, pool, sess, members, events, nextId, clean>>

(* The pool as the transaction of t sees it: a drift sees its own scores.  *)
Visible(t) ==
  IF task[t].job = "drift"
  THEN {IF \E d \in task[t].cands : SameKey(c, d)
        THEN [c EXCEPT !.score = (CHOOSE d \in task[t].cands : SameKey(c, d)).score]
        ELSE c : c \in pool}
  ELSE pool

(* The rows are read afresh: the identity map is weak, and what an earlier *)
(* step of the task loaded has been flushed and let go.  A drift's batch   *)
(* is what it flushed and has to commit.                                   *)
ReadPool(t) ==
  /\ At(t, "readPool")
  /\ task' = [task EXCEPT
       ![t].pc = "delete",
       ![t].batch = task[t].cands,
       ![t].cands = Passing(Visible(t), ThresholdOr(task[t].view.threshold))]
  /\ UNCHANGED <<rows, pool, sess, members, events, nextId, clean>>

Delete(t) ==
  /\ At(t, "delete") /\ Free(t)
  /\ Goto(t, "commit")
  /\ UNCHANGED <<rows, pool, sess, members, events, nextId, clean>>

(* The tracks of the rebuilt queue: the protected current one, then the    *)
(* best of the pool.                                                       *)
Rebuilt(t, c, ranked) ==
  (IF Protected(t, c) THEN <<c.track>> ELSE <<>>)
    \o [i \in 1..Taken(t, c) |-> ranked[i].track]

(* ON DELETE SET NULL: events E once the rows R are deleted.               *)
DetachedByCascade(E, R) == {e \in E : e.row \notin Ids(R)}   \* mutant
Detached(E, R) ==
  {[e EXCEPT !.row = IF @ \in Ids(R) THEN NoRow ELSE @] : e \in E}

(* Drift commits its new scores and DNA along with the queue.              *)
Commit(t) ==
  /\ At(t, "commit") /\ Free(t)
  /\ \E c \in CurrentSeen(t) : \E ranked \in Rankings(Eligible(t, c)) :
       /\ rows' = {r \in rows : r.id \notin Ids(task[t].seen)}
                  \cup RowsFrom(Rebuilt(t, c, ranked), nextId)
       /\ nextId' = nextId + Left(t, c)
       /\ sess' = [sess EXCEPT
            !.status = StatusAfter(t, Left(t, c)),
            !.dna = IF task[t].job = "drift" THEN task[t].view.dna + 1 ELSE @]
  /\ pool' = IF task[t].job = "drift"
             THEN {IF \E d \in task[t].batch : SameKey(c, d)
                   THEN [c EXCEPT !.score = (CHOOSE d \in task[t].batch : SameKey(c, d)).score]
                   ELSE c : c \in pool}
             ELSE pool
  /\ events' = Detached(events, task[t].seen)
  /\ clean' = (task[t].seen = rows /\ task[t].view.status = sess.status)
  /\ End(t)
  /\ UNCHANGED members

-----------------------------------------------------------------------------
(* A task may end at any statement: an adapter or database error is caught *)
(* and logged at the top of the task and its transaction rolled back; a    *)
(* restart of the process ends them all.                                   *)
Fail(t) ==
  /\ Active(t)
  /\ End(t)
  /\ UNCHANGED <<rows, pool, sess, members, events, nextId, clean>>

(* PostgreSQL aborts one of two transactions that wait for each other.     *)
DeadlockVictim(t) ==
  /\ \E u \in Task : WaitsFor(t, u) /\ WaitsFor(u, t)
  /\ End(t)
  /\ UNCHANGED <<rows, pool, sess, members, events, nextId, clean>>

Request(t) == Connect(t) \/ Reconnect(t) \/ Skip(t) \/ Join(t) \/ Drift(t)

Step(t) ==
  \/ PostSkip(t) \/ Load(t)
  \/ Scan(t) \/ Persist(t) \/ Insert(t) \/ Write(t)
  \/ ReadOverlap(t) \/ BumpOverlap(t) \/ Rescore(t)
  \/ ReadQueue(t) \/ ReadPool(t) \/ Delete(t) \/ Commit(t)
  \/ DeadlockVictim(t)

(* Nothing left to do: every request was made and every task is over.      *)
Quiet ==
  /\ \A t \in Task : ~Active(t)
  /\ UNCHANGED vars

Next == (\E t \in Task : Request(t) \/ Step(t) \/ Fail(t)) \/ Quiet

Spec == Init /\ [][Next]_vars

-----------------------------------------------------------------------------
(* Properties.                                                             *)

PCs == {"new", "post", "load", "scan", "persist", "insert", "write", "overlap",
        "bump", "rescore", "readQueue", "readPool", "delete", "commit", "ended"}

SessionRow == [threshold : 0..Top, status : Statuses, dna : 0..LastDna]

TaskRecord ==
  [pc : PCs, job : {"none", "build", "rerank", "join", "drift"}, member : Member,
   skip : Nat \cup {NoRow}, view : SessionRow, seen : SUBSET Row,
   cands : SUBSET Candidate, todo : Seq(SUBSET Candidate), batch : SUBSET Candidate,
   plan : Seq(Track), threshold : 0..Top]

(* Every variable holds rows that satisfy the column types of models.py,   *)
(* a drifting task has a DNA to drift to, and row ids are never reused.    *)
TypeOK ==
  /\ rows \subseteq Row
  /\ pool \subseteq Candidate
  /\ sess \in SessionRow
  /\ members \subseteq Member
  /\ events \subseteq [by : Task, row : Nat \cup {NoRow}, track : Track]
  /\ nextId \in Nat
  /\ task \in [Task -> TaskRecord]
  /\ clean \in BOOLEAN

(* Whatever tasks overlapped before, once a writer has committed that saw  *)
(* the queue and the session row as they were, the queue is well formed:   *)
(* contiguous positions, position 0 alone current, the status its length's.*)
(* It says that duplicated or gapped queues come only from overlapping     *)
(* writers, and that one undisturbed rerank repairs them.                  *)
CleanQueue == clean => WellFormed(rows, sess.status)

(* A task is about to commit a rerank of the queue as it is.               *)
Undisturbed(t) == At(t, "commit") /\ task[t].seen = rows

Moved(t) == task'[t] # task[t] /\ rows' # rows

(* A rerank that nobody disturbed keeps the only current track at position *)
(* 0 and current, unless it is the row being skipped, and does not offer   *)
(* the same song again further down; the queue stays within its size.      *)
CurrentKept ==
  [][\A t \in Task : Undisturbed(t) /\ Moved(t) =>
       \A c \in rows : CurrentsOf(rows) = {c} /\ c.id # task[t].skip =>
         \E r \in rows' : /\ r.current /\ r.pos = 0 /\ r.track = c.track
                          /\ \A q \in rows' : Song[q.track] = Song[c.track] => q = r
                          /\ \A q \in rows' : q.pos < Size]_vars

(* A rerank that nobody disturbed and that skips the only current row      *)
(* leaves no track of that song in the queue.                              *)
SkippedGone ==
  [][\A t \in Task : Undisturbed(t) /\ Moved(t) =>
       \A c \in rows : CurrentsOf(rows) = {c} /\ c.id = task[t].skip =>
         \A r \in rows' : Song[r.track] # Song[c.track]]_vars

(* Recorded skips outlive the rows they were recorded against, and never   *)
(* point to a row that is gone: reranks delete every row while skips are   *)
(* being inserted with a foreign key to one.                               *)
EventsSurvive ==
  /\ \A e \in events : e.row \in Ids(rows) \cup {NoRow}
  /\ \A t \in Task : task[t].skip # NoRow /\ task[t].pc \notin {"post", "ended"} =>
       \E e \in events : e.by = t

(* No participant ever has two candidate rows for one track, although      *)
(* builds, guest merges and drifts read the pool long before they write it.*)
OneCandidatePerKey == \A c, d \in pool : SameKey(c, d) => c = d

(* One of two tasks that wait for each other is aborted by the database.   *)
Circling == {t \in Task : \E u \in Task : WaitsFor(t, u) /\ WaitsFor(u, t)}

(* The tasks under way that go on once those in S have: at once, if they   *)
(* wait for nobody.                                                        *)
After(S) == {t \in Task : Active(t) /\ (t \in S \/ \A u \in Task : WaitsFor(t, u) => u \in S)}

(* Tasks lock the session, the pool and the queue in different orders, and *)
(* yet none waits for ever: a wait leads over at most three others to tasks*)
(* that wait for nobody or for each other, never round a longer circle and *)
(* never to a task that has ended.  (A task has no endless loop, so that   *)
(* all of them come to an end.)                                            *)
WaitsEnd == {t \in Task : Active(t)} \subseteq After(After(After(After(Circling))))

-----------------------------------------------------------------------------
(* What the documentation says and overlapping tasks do not keep.          *)

(* A skip answered with 202 takes the skipped track off position 0 when    *)
(* its rerank commits.                                                     *)
SkipTakesEffect ==
  [][\A t \in Task, e \in events : At(t, "commit") /\ e.by = t /\ Moved(t) =>
       \A r \in rows' : r.current => r.track # e.track]_vars
=============================================================================
