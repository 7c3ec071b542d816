-------------------------- MODULE QueueTasksProofs --------------------------
(***************************************************************************)
(* Proofs about QueueTasks for any members, tracks, tasks and queue size.  *)
(***************************************************************************)
EXTENDS QueueTasks, FiniteSetTheorems, TLAPS

-----------------------------------------------------------------------------
(* Facts about the data operators of QueueRows.                            *)

(* The image of a finite set under a function is finite.                   *)
LEMMA ImageFinite ==
  ASSUME NEW S, IsFiniteSet(S), NEW f
  PROVE  IsFiniteSet({f[x] : x \in S})
<1> DEFINE T == {f[x] : x \in S}
           g == [x \in S |-> f[x]]
<1>1. g \in Surjection(S, T)  BY DEF Surjection
<1> QED  BY <1>1, FS_Surjection

(* The status set after a rebuild is one the column's check allows.        *)
LEMMA StatusOfType == ASSUME NEW n PROVE StatusOf(n) \in Statuses
  BY DEF StatusOf, Statuses

LEMMA OverlapType ==
  ASSUME NEW t, NEW M \in SUBSET Member
  PROVE  Overlap(t, M) \in Nat
<1> DEFINE N == {m \in M : \E u \in Library[m] : Song[u] = Song[t]}
<1>1. IsFiniteSet(N)  BY DataAssumption, FS_Subset DEF DataAssumption
<1> QED  BY <1>1, FS_CardinalityType DEF Overlap

LEMMA ScoredType ==
  ASSUME NEW m \in Member, NEW T \in SUBSET Track, NEW d \in 0..LastDna,
         NEW M \in SUBSET Member
  PROVE  Scored(m, T, d, M) \subseteq Candidate /\ IsFiniteSet(Scored(m, T, d, M))
<1> DEFINE f == [t \in T |->
      [owner |-> m, track |-> t, score |-> Score[d][t], overlap |-> Overlap(t, M)]]
<1>1. \A t \in T : f[t] \in Candidate
  <2> TAKE t \in T
  <2>1. Overlap(t, M) \in Nat  BY OverlapType
  <2>2. Score[d][t] \in 0..Top  BY DataAssumption DEF DataAssumption
  <2> QED  BY <2>1, <2>2 DEF Candidate
<1>2. Scored(m, T, d, M) = {f[t] : t \in T}  BY DEF Scored
<1>3. IsFiniteSet(T)  BY DataAssumption, FS_Subset DEF DataAssumption
<1>4. IsFiniteSet({f[t] : t \in T})  BY <1>3, ImageFinite
<1> QED  BY <1>1, <1>2, <1>4

LEMMA LadderStopType == ASSUME NEW C PROVE LadderStop(C) \in 0..Top
<1>1. 1 \in 0..Top  BY DataAssumption DEF DataAssumption
<1>2. CASE \E k \in 1..Top : StopsAt(C, k)
  BY <1>2 DEF LadderStop
<1>3. CASE ~\E k \in 1..Top : StopsAt(C, k)
  BY <1>1, <1>3 DEF LadderStop
<1> QED  BY <1>2, <1>3

(* A ranking of a finite set of candidates lists all of them.              *)
LEMMA RankingType ==
  ASSUME NEW C, IsFiniteSet(C), NEW r \in Rankings(C)
  PROVE  Cardinality(C) \in Nat /\ r \in [1..Cardinality(C) -> C]
<1>1. Cardinality(C) \in Nat  BY FS_CardinalityType
<1> QED  BY <1>1 DEF Rankings

(* Rows laid out from a sequence are rows, and form a well formed queue.   *)
LEMMA RowsFromType ==
  ASSUME NEW s \in Seq(Track), NEW id \in Nat
  PROVE  RowsFrom(s, id) \subseteq Row
<1> SUFFICES ASSUME NEW i \in 1..Len(s)
             PROVE  [id |-> id + i - 1, track |-> s[i], pos |-> i - 1, current |-> i = 1] \in Row
  BY DEF RowsFrom
<1>1. Len(s) \in Nat /\ s[i] \in Track  OBVIOUS
<1>2. id + i - 1 \in Nat /\ i - 1 \in Nat  BY <1>1
<1>3. (i = 1) \in BOOLEAN  OBVIOUS
<1> QED  BY <1>1, <1>2, <1>3 DEF Row

LEMMA RowsFromWellFormed ==
  ASSUME NEW s \in Seq(Track), NEW id \in Nat
  PROVE  WellFormed(RowsFrom(s, id), StatusOf(Len(s)))
<1> DEFINE R == RowsFrom(s, id)
           n == Len(s)
           Rec(i) == [id |-> id + i - 1, track |-> s[i], pos |-> i - 1, current |-> i = 1]
<1>0. n \in Nat /\ Size \in Nat \ {0}  BY DataAssumption DEF DataAssumption
<1>1. \A i \in 1..n : Rec(i) \in R  BY DEF RowsFrom
<1>2. ASSUME NEW r \in R
      PROVE  r.pos \in 0..(n - 1) /\ r = Rec(r.pos + 1) /\ (r.current <=> r.pos = 0)
  <2>1. PICK i \in 1..n : r = Rec(i)  BY DEF RowsFrom
  <2>2. r.pos = i - 1 /\ r.current = (i = 1)  BY <2>1
  <2>3. i = r.pos + 1  BY <1>0, <2>2
  <2>4. r.current <=> r.pos = 0
    <3>1. (i = 1) <=> (r.pos = 0)  BY <1>0, <2>2
    <3> QED  BY <2>2, <3>1, Zenon
  <2>5. r.pos \in 0..(n - 1)  BY <1>0, <2>2
  <2> HIDE DEF R
  <2> QED  BY <2>1, <2>3, <2>4, <2>5
<1>3. \A i \in 1..n : Rec(i).pos = i - 1  OBVIOUS
<1> HIDE DEF R, Rec, n
<1>4. \A r, q \in R : r.pos = q.pos => r = q
  <2> TAKE r, q \in R
  <2> HAVE r.pos = q.pos
  <2>1. Rec(r.pos + 1) = Rec(q.pos + 1)  OBVIOUS
  <2> QED  BY <1>2, <2>1
<1>5. \A r \in R : \A p \in 0..r.pos : \E q \in R : q.pos = p
  <2> TAKE r \in R
  <2> TAKE p \in 0..r.pos
  <2>1. p + 1 \in 1..n  BY <1>0, <1>2
  <2>2. Rec(p + 1) \in R /\ Rec(p + 1).pos = p  BY <1>1, <1>3, <2>1
  <2> QED  BY <2>2
<1>6. (R = {}) <=> (n = 0)
  <2>1. ASSUME n = 0 PROVE R = {}  BY <1>0, <1>2, <2>1
  <2>2. ASSUME n # 0 PROVE R # {}
    <3>1. 1 \in 1..n  BY <1>0, <2>2
    <3> QED  BY <1>1, <3>1
  <2> QED  BY <2>1, <2>2
<1>7. (\E r \in R : r.pos >= Size - 1) <=> (n >= Size)
  <2>1. ASSUME NEW r \in R, r.pos >= Size - 1 PROVE n >= Size
    BY <1>0, <1>2, <2>1
  <2>2. ASSUME n >= Size PROVE \E r \in R : r.pos >= Size - 1
    <3>1. n \in 1..n  BY <1>0, <2>2
    <3>2. Rec(n) \in R /\ Rec(n).pos = n - 1  BY <1>1, <1>3, <3>1
    <3> QED  BY <1>0, <2>2, <3>2
  <2> QED  BY <2>1, <2>2
<1>8. StatusOf(n) = IF R = {} THEN "empty"
                    ELSE IF \E r \in R : r.pos >= Size - 1 THEN "full" ELSE "partial"
  BY <1>0, <1>6, <1>7 DEF StatusOf
<1>9. \A r \in R : r.current <=> r.pos = 0  BY <1>2
<1> QED  BY <1>4, <1>5, <1>8, <1>9 DEF WellFormed, R, n

-----------------------------------------------------------------------------
(* The inductive invariant: types, finiteness of everything that is ranked *)
(* or counted, a DNA left for every drift under way, and CleanQueue.       *)

SharedOK ==
  /\ rows \subseteq Row
  /\ pool \subseteq Candidate /\ IsFiniteSet(pool)
  /\ sess \in SessionRow
  /\ members \subseteq Member
  /\ events \subseteq [by : Task, row : Nat \cup {NoRow}, track : Track]
  /\ nextId \in Nat
  /\ clean \in BOOLEAN

GoodRecord(r) ==
  /\ r \in TaskRecord
  /\ IsFiniteSet(r.cands)
  /\ IsFiniteSet(r.batch)
  /\ \A i \in 1..Len(r.todo) : IsFiniteSet(r.todo[i])
  /\ r.job = "drift" /\ r.pc # "load" => r.view.dna < LastDna
  /\ r.job = "none" => r.pc \in {"new", "ended"}
  /\ r.pc = "rescore" => r.job = "drift"

TasksOK == task \in [Task -> TaskRecord] /\ \A t \in Task : GoodRecord(task[t])

IInv == SharedOK /\ TasksOK /\ CleanQueue

LEMMA BlankGood ==
  ASSUME NEW pc \in {"new", "ended"}
  PROVE  GoodRecord(Blank(pc))
<1> DEFINE b == Blank(pc)
<1>1. NoView \in SessionRow
  BY DataAssumption DEF DataAssumption, NoView, SessionRow, NoThreshold, Statuses
<1>2. IsFiniteSet({})  BY FS_EmptySet
<1>3. <<>> \in Seq(SUBSET Candidate) /\ <<>> \in Seq(Track)  OBVIOUS
<1>4. NoThreshold \in 0..Top  BY DataAssumption DEF DataAssumption, NoThreshold
<1>5. b \in TaskRecord
  BY <1>1, <1>3, <1>4, TaskAssumption DEF TaskAssumption, Blank, TaskRecord, PCs
<1>6. b.cands = {} /\ b.batch = {} /\ b.job = "none" /\ b.todo = <<>> /\ b.pc = pc
  BY DEF Blank
<1>7. Len(b.todo) = 0  BY <1>6
<1> QED  BY <1>2, <1>5, <1>6, <1>7 DEF GoodRecord

(* A step that replaces the record of one task by a good one.              *)
LEMMA OneTask ==
  ASSUME TasksOK, NEW t \in Task, NEW r, GoodRecord(r), task' = [task EXCEPT ![t] = r]
  PROVE  TasksOK'
<1>1. r \in TaskRecord  BY DEF GoodRecord
<1>2. task' \in [Task -> TaskRecord]  BY <1>1 DEF TasksOK
<1>3. \A u \in Task : task'[u] = IF u = t THEN r ELSE task[u]  BY DEF TasksOK
<1>4. \A u \in Task : GoodRecord(task'[u])  BY <1>3 DEF TasksOK
<1> QED  BY <1>2, <1>4 DEF TasksOK, GoodRecord

(* A step that leaves everything but the tasks alone.                      *)
LEMMA SharedUnchanged ==
  ASSUME SharedOK, CleanQueue,
         UNCHANGED <<rows, pool, sess, members, events, nextId, clean>>
  PROVE  SharedOK' /\ CleanQueue'
  BY DEF SharedOK, CleanQueue, WellFormed

LEMMA EndGood ==
  ASSUME TasksOK, NEW t \in Task, End(t)
  PROVE  TasksOK'
  BY BlankGood, OneTask DEF End

LEMMA InitIInv == Init => IInv
<1> SUFFICES ASSUME Init PROVE IInv  OBVIOUS
<1> USE DEF Init
<1>1. NoView \in SessionRow
  BY DataAssumption DEF DataAssumption, NoView, SessionRow, NoThreshold, Statuses
<1>2. SharedOK
  BY <1>1, FS_EmptySet, TaskAssumption DEF SharedOK, TaskAssumption
<1>3. TasksOK
  <2>1. \A t \in Task : task[t] = Blank("new")  OBVIOUS
  <2>2. GoodRecord(Blank("new"))  BY BlankGood
  <2>3. Blank("new") \in TaskRecord  BY <2>2 DEF GoodRecord
  <2> QED  BY <2>1, <2>2, <2>3 DEF TasksOK
<1>4. CleanQueue
  BY DEF CleanQueue, WellFormed, NoView
<1> QED  BY <1>2, <1>3, <1>4 DEF IInv

-----------------------------------------------------------------------------
(* Requests.                                                               *)

(* The fields of a good record, for the steps that change some of them.    *)
LEMMA RecordFields ==
  ASSUME NEW r, r \in TaskRecord
  PROVE  /\ r = [pc |-> r.pc, job |-> r.job, member |-> r.member, skip |-> r.skip,
                 view |-> r.view, seen |-> r.seen, cands |-> r.cands, todo |-> r.todo,
                 batch |-> r.batch, plan |-> r.plan, threshold |-> r.threshold]
         /\ r.view \in SessionRow /\ r.view.dna \in 0..LastDna
         /\ r.seen \subseteq Row /\ r.cands \subseteq Candidate /\ r.batch \subseteq Candidate
         /\ r.todo \in Seq(SUBSET Candidate) /\ r.plan \in Seq(Track)
         /\ r.member \in Member /\ r.skip \in Nat \cup {NoRow} /\ r.threshold \in 0..Top
  BY DEF TaskRecord, SessionRow

LEMMA RequestTasks ==
  ASSUME IInv, NEW t \in Task, Request(t)
  PROVE  TasksOK'
<1> DEFINE k == task[t]
<1>0. TasksOK /\ GoodRecord(k) /\ k \in TaskRecord  BY DEF IInv, TasksOK
<1> USE RecordFields
<1>1. CASE Connect(t)
  <2> DEFINE r == [k EXCEPT !.pc = "load", !.job = "build"]
  <2>1. GoodRecord(r)  BY <1>0 DEF GoodRecord, TaskRecord, PCs
  <2>2. task' = [task EXCEPT ![t] = r]  BY <1>1 DEF Connect
  <2> QED  BY <1>0, <2>1, <2>2, OneTask
<1>2. CASE Reconnect(t)
  <2> DEFINE r == [k EXCEPT !.pc = "load", !.job = "rerank"]
  <2>1. GoodRecord(r)  BY <1>0 DEF GoodRecord, TaskRecord, PCs
  <2>2. task' = [task EXCEPT ![t] = r]  BY <1>2 DEF Reconnect
  <2> QED  BY <1>0, <2>1, <2>2, OneTask
<1>3. CASE Skip(t)
  <2>1. CASE rows = {} /\ task' = [task EXCEPT ![t].pc = "load", ![t].job = "rerank"]
    <3> DEFINE r == [k EXCEPT !.pc = "load", !.job = "rerank"]
    <3>1. GoodRecord(r)  BY <1>0 DEF GoodRecord, TaskRecord, PCs
    <3>2. task' = [task EXCEPT ![t] = r]  BY <2>1
    <3> QED  BY <1>0, <3>1, <3>2, OneTask
  <2>2. ASSUME NEW q \in Lowest(rows),
               task' = [task EXCEPT ![t].pc = "post", ![t].job = "rerank",
                                    ![t].skip = q.id, ![t].seen = {q}]
        PROVE  TasksOK'
    <3> DEFINE r == [k EXCEPT !.pc = "post", !.job = "rerank", !.skip = q.id, !.seen = {q}]
    <3>1. q \in Row /\ q.id \in Nat  BY DEF Lowest, IInv, SharedOK, Row
    <3>2. GoodRecord(r)  BY <1>0, <3>1 DEF GoodRecord, TaskRecord, PCs
    <3>3. task' = [task EXCEPT ![t] = r]  BY <2>2
    <3> QED  BY <1>0, <3>2, <3>3, OneTask
  <2> QED  BY <1>3, <2>1, <2>2 DEF Skip
<1>4. CASE Join(t)
  <2>1. PICK m \in Member \ members :
          task' = [task EXCEPT ![t].pc = "load", ![t].job = "join", ![t].member = m]
    BY <1>4 DEF Join
  <2> DEFINE r == [k EXCEPT !.pc = "load", !.job = "join", !.member = m]
  <2>2. GoodRecord(r)  BY <1>0 DEF GoodRecord, TaskRecord, PCs
  <2>3. task' = [task EXCEPT ![t] = r]  BY <2>1
  <2> QED  BY <1>0, <2>2, <2>3, OneTask
<1>5. CASE Drift(t)
  <2> DEFINE r == [k EXCEPT !.pc = "load", !.job = "drift"]
  <2>1. GoodRecord(r)  BY <1>0 DEF GoodRecord, TaskRecord, PCs
  <2>2. task' = [task EXCEPT ![t] = r]  BY <1>5 DEF Drift
  <2> QED  BY <1>0, <2>1, <2>2, OneTask
<1> QED  BY <1>1, <1>2, <1>3, <1>4, <1>5 DEF Request

(* A request changes no queue, and the members only by a join.             *)
LEMMA RequestShared ==
  ASSUME IInv, NEW t \in Task, Request(t)
  PROVE  SharedOK' /\ CleanQueue'
<1>1. CASE Join(t)
  <2>1. members' \subseteq Member  BY <1>1 DEF Join, IInv, SharedOK
  <2>2. UNCHANGED <<rows, pool, sess, events, nextId, clean>>  BY <1>1 DEF Join
  <2>3. SharedOK'  BY <2>1, <2>2 DEF IInv, SharedOK
  <2>4. CleanQueue'  BY <2>2 DEF IInv, CleanQueue, WellFormed
  <2> QED  BY <2>3, <2>4
<1>2. CASE ~Join(t)
  <2>1. UNCHANGED <<rows, pool, sess, members, events, nextId, clean>>
    BY <1>2 DEF Request, Connect, Reconnect, Skip, Drift
  <2> QED  BY <2>1, SharedUnchanged DEF IInv
<1> QED  BY <1>1, <1>2

-----------------------------------------------------------------------------
(* Steps that change the task and at most the events or the pool.          *)

LEMMA PostSkipIInv ==
  ASSUME IInv, NEW t \in Task, PostSkip(t)
  PROVE  IInv'
<1> DEFINE k == task[t]
           r == [k EXCEPT !.pc = "load", !.seen = {}]
<1>0. SharedOK /\ TasksOK /\ CleanQueue /\ GoodRecord(k) /\ k \in TaskRecord
  BY DEF IInv, TasksOK
<1>1. events' \subseteq [by : Task, row : Nat \cup {NoRow}, track : Track]
  BY <1>0, RecordFields DEF PostSkip, SharedOK, Row
<1>2. UNCHANGED <<rows, pool, sess, members, nextId, clean>>  BY DEF PostSkip
<1>3. SharedOK' /\ CleanQueue'
  BY <1>0, <1>1, <1>2 DEF SharedOK, CleanQueue, WellFormed
<1>4. GoodRecord(r)
  BY <1>0, RecordFields DEF GoodRecord, TaskRecord, PCs, PostSkip, At
<1>5. CASE task' = [task EXCEPT ![t].pc = "load", ![t].seen = {}]
  <2>1. task' = [task EXCEPT ![t] = r]  BY <1>5
  <2>2. TasksOK'  BY <1>0, <1>4, <2>1, OneTask
  <2> QED  BY <1>3, <2>2 DEF IInv
<1>6. CASE End(t)
  <2>1. TasksOK'  BY <1>0, <1>6, EndGood
  <2> QED  BY <1>3, <2>1 DEF IInv
<1> QED  BY <1>5, <1>6 DEF PostSkip

LEMMA LoadIInv ==
  ASSUME IInv, NEW t \in Task, Load(t)
  PROVE  IInv'
<1> DEFINE k == task[t]
           building == k.job = "build" \/ (k.job = "join" /\ pool = {})
           next == CASE building         -> "scan"
                     [] k.job = "join"   -> "overlap"
                     [] k.job = "rerank" -> "readQueue"
                     [] OTHER            -> "rescore"
           job == IF building THEN "build" ELSE k.job
           r == [k EXCEPT !.pc = next, !.view = sess, !.job = job]
<1>0. SharedOK /\ TasksOK /\ CleanQueue /\ GoodRecord(k) /\ k \in TaskRecord
  BY DEF IInv, TasksOK
<1>1. SharedOK' /\ CleanQueue'  BY <1>0, SharedUnchanged DEF Load
<1>2. CASE k.job = "drift" /\ sess.dna = LastDna
  <2>1. End(t)  BY <1>2 DEF Load
  <2>2. TasksOK'  BY <1>0, <2>1, EndGood
  <2> QED  BY <1>1, <2>2 DEF IInv
<1>3. CASE ~(k.job = "drift" /\ sess.dna = LastDna)
  <2>1. sess \in SessionRow /\ sess.dna \in 0..LastDna  BY <1>0 DEF SharedOK, SessionRow
  <2>2. next \in PCs  BY DEF PCs
  <2>3. job \in {"none", "build", "rerank", "join", "drift"}  BY <1>0 DEF TaskRecord
  <2> HIDE DEF next
  <2>4. r \in TaskRecord  BY <1>0, <2>1, <2>2, <2>3, RecordFields DEF TaskRecord
  <2>5. r.job = "drift" => r.view.dna < LastDna
    <3>1. r.job = job /\ r.view = sess  BY <1>0, RecordFields
    <3>2. LastDna \in Nat  BY DataAssumption DEF DataAssumption
    <3> QED  BY <1>3, <2>1, <3>1, <3>2
  <2>6. r.cands = k.cands /\ r.batch = k.batch /\ r.todo = k.todo /\ r.pc = next /\ r.job = job
    BY <1>0, RecordFields
  <2>7. k.job # "none"  BY <1>0 DEF Load, At, GoodRecord
  <2>8. job # "none" /\ (next = "rescore" => job = "drift")
    BY <1>0, <2>7 DEF next, TaskRecord
  <2>9. GoodRecord(r)
    <3> HIDE DEF r, job
    <3> QED  BY <1>0, <2>4, <2>5, <2>6, <2>8 DEF GoodRecord
  <2>10. task' = [task EXCEPT ![t] = r]  BY <1>3 DEF Load, next
  <2>11. TasksOK'  BY <1>0, <2>9, <2>10, OneTask
  <2> QED  BY <1>1, <2>11 DEF IInv
<1> QED  BY <1>2, <1>3

LEMMA PersistIInv ==
  ASSUME IInv, NEW t \in Task, Persist(t)
  PROVE  IInv'
<1> DEFINE k == task[t]
           go == [k EXCEPT !.pc = IF k.job = "join" THEN "readQueue" ELSE "write"]
           B == {c \in Head(k.todo) : \A d \in pool : ~SameKey(c, d)}
           r == [k EXCEPT !.todo = Tail(@), !.batch = B,
                          !.pc = IF Head(k.todo) = {} THEN "persist" ELSE "insert"]
<1>0. SharedOK /\ TasksOK /\ CleanQueue /\ GoodRecord(k) /\ k \in TaskRecord
  BY DEF IInv, TasksOK
<1>1. SharedOK' /\ CleanQueue'  BY <1>0, SharedUnchanged DEF Persist
<1>2. CASE k.todo = <<>> /\ Goto(t, IF k.job = "join" THEN "readQueue" ELSE "write")
  <2>1. task' = [task EXCEPT ![t] = go]  BY <1>2 DEF Goto
  <2>2. GoodRecord(go)
    <3>1. At(t, "persist")  BY DEF Persist
    <3> QED  BY <1>0, <3>1, RecordFields DEF GoodRecord, TaskRecord, PCs, At
  <2>3. TasksOK'  BY <1>0, <2>1, <2>2, OneTask
  <2> QED  BY <1>1, <2>3 DEF IInv
<1>3. CASE k.todo # <<>> /\ task' = [task EXCEPT
             ![t].todo = Tail(@),
             ![t].batch = {c \in Head(k.todo) : \A d \in pool : ~SameKey(c, d)},
             ![t].pc = IF Head(k.todo) = {} THEN "persist" ELSE "insert"]
  <2>0. k.todo \in Seq(SUBSET Candidate) /\ k.todo # <<>>  BY <1>0, <1>3, RecordFields
  <2>1. Head(k.todo) \subseteq Candidate /\ Head(k.todo) = k.todo[1] /\ 1 \in 1..Len(k.todo)
    BY <2>0
  <2>2. IsFiniteSet(Head(k.todo))  BY <1>0, <2>1 DEF GoodRecord
  <2>3. B \subseteq Candidate /\ IsFiniteSet(B)  BY <2>1, <2>2, FS_Subset
  <2>4. Tail(k.todo) \in Seq(SUBSET Candidate)  BY <2>0
  <2>5. \A i \in 1..Len(Tail(k.todo)) : IsFiniteSet(Tail(k.todo)[i])
    <3> TAKE i \in 1..Len(Tail(k.todo))
    <3>1. i + 1 \in 1..Len(k.todo) /\ Tail(k.todo)[i] = k.todo[i + 1]  BY <2>0
    <3> QED  BY <1>0, <3>1 DEF GoodRecord
  <2> HIDE DEF B
  <2>6. r.todo = Tail(k.todo) /\ r.batch = B /\ r.cands = k.cands /\ r.job = k.job
        /\ r.view = k.view /\ r.pc \in {"persist", "insert"}
    BY <1>0, RecordFields
  <2>7. r \in TaskRecord  BY <1>0, <2>3, <2>4, RecordFields DEF TaskRecord, PCs
  <2>8. GoodRecord(r)
    <3>1. At(t, "persist")  BY DEF Persist
    <3> QED  BY <1>0, <2>3, <2>5, <2>6, <2>7, <3>1 DEF GoodRecord, At
  <2>9. task' = [task EXCEPT ![t] = r]  BY <1>3 DEF B
  <2>10. TasksOK'  BY <1>0, <2>8, <2>9, OneTask
  <2> QED  BY <1>1, <2>10 DEF IInv
<1> QED  BY <1>2, <1>3 DEF Persist

LEMMA InsertIInv ==
  ASSUME IInv, NEW t \in Task, Insert(t)
  PROVE  IInv'
<1> DEFINE k == task[t]
           r == [k EXCEPT !.pc = "persist", !.batch = {}]
<1>0. SharedOK /\ TasksOK /\ CleanQueue /\ GoodRecord(k) /\ k \in TaskRecord
  BY DEF IInv, TasksOK
<1>1. UNCHANGED <<rows, sess, members, events, nextId, clean>>  BY DEF Insert
<1>2. CleanQueue'  BY <1>0, <1>1 DEF CleanQueue, WellFormed
<1>3. CASE Overtaken(t)
  <2>1. End(t) /\ UNCHANGED pool  BY <1>3 DEF Insert
  <2>2. TasksOK'  BY <1>0, <2>1, EndGood
  <2>3. SharedOK'  BY <1>0, <1>1, <2>1 DEF SharedOK
  <2> QED  BY <1>2, <2>2, <2>3 DEF IInv
<1>4. CASE ~Overtaken(t)
  <2>1. pool' = pool \cup k.batch /\ task' = [task EXCEPT ![t] = r]  BY <1>4 DEF Insert
  <2>2. pool' \subseteq Candidate /\ IsFiniteSet(pool')
    BY <1>0, <2>1, RecordFields, FS_Union DEF SharedOK, GoodRecord
  <2>3. SharedOK'  BY <1>0, <1>1, <2>2 DEF SharedOK
  <2>4. GoodRecord(r)
    <3>1. At(t, "insert") /\ IsFiniteSet({})  BY FS_EmptySet DEF Insert
    <3> QED  BY <1>0, <3>1, RecordFields DEF GoodRecord, TaskRecord, PCs, At
  <2>5. TasksOK'  BY <1>0, <2>1, <2>4, OneTask
  <2> QED  BY <1>2, <2>3, <2>5 DEF IInv
<1> QED  BY <1>3, <1>4

LEMMA ReadOverlapIInv ==
  ASSUME IInv, NEW t \in Task, ReadOverlap(t)
  PROVE  IInv'
<1> DEFINE k == task[t]
           S == Scored(k.member, Library[k.member], k.view.dna, {k.member})
           r == [k EXCEPT !.pc = IF Library[k.member] = {} THEN "persist" ELSE "bump",
                          !.cands = pool, !.todo = <<S>>]
<1>0. SharedOK /\ TasksOK /\ CleanQueue /\ GoodRecord(k) /\ k \in TaskRecord
  BY DEF IInv, TasksOK
<1>1. SharedOK' /\ CleanQueue'  BY <1>0, SharedUnchanged DEF ReadOverlap
<1>2. CASE End(t)
  <2>1. TasksOK'  BY <1>0, <1>2, EndGood
  <2> QED  BY <1>1, <2>1 DEF IInv
<1>3. CASE task' = [task EXCEPT
             ![t].pc = IF Library[k.member] = {} THEN "persist" ELSE "bump",
             ![t].cands = pool, ![t].todo = <<S>>]
  <2>1. k.member \in Member /\ k.view.dna \in 0..LastDna  BY <1>0, RecordFields
  <2>2. Library[k.member] \in SUBSET Track /\ {k.member} \in SUBSET Member
    BY <2>1, DataAssumption DEF DataAssumption
  <2>3. S \subseteq Candidate /\ IsFiniteSet(S)  BY <2>1, <2>2, ScoredType
  <2> HIDE DEF S
  <2>4. <<S>> \in Seq(SUBSET Candidate) /\ \A i \in 1..Len(<<S>>) : IsFiniteSet(<<S>>[i])
    BY <2>3
  <2>5. r \in TaskRecord /\ r.todo = <<S>> /\ r.cands = pool /\ r.batch = k.batch
        /\ r.job = k.job /\ r.view = k.view
    BY <1>0, <2>4, RecordFields DEF TaskRecord, PCs, SharedOK
  <2>6. GoodRecord(r)
    <3>1. At(t, "overlap")  BY DEF ReadOverlap
    <3> QED  BY <1>0, <2>4, <2>5, <3>1 DEF GoodRecord, SharedOK, At
  <2>7. task' = [task EXCEPT ![t] = r]  BY <1>3
  <2>8. TasksOK'  BY <1>0, <2>6, <2>7, OneTask
  <2> QED  BY <1>1, <2>8 DEF IInv
<1> QED  BY <1>2, <1>3 DEF ReadOverlap

(* Candidates with a count or a score replaced are candidates, and as many.*)
LEMMA MappedCandidates ==
  ASSUME NEW C, C \subseteq Candidate, IsFiniteSet(C),
         NEW f, DOMAIN f = C, \A c \in C : f[c] \in Candidate
  PROVE  {f[c] : c \in C} \subseteq Candidate /\ IsFiniteSet({f[c] : c \in C})
<1>1. IsFiniteSet({f[c] : c \in C})  BY ImageFinite
<1> QED  BY <1>1

LEMMA BumpedType ==
  ASSUME NEW t \in Task, task[t].cands \subseteq Candidate, IsFiniteSet(task[t].cands)
  PROVE  Bumped(t) \subseteq Candidate /\ IsFiniteSet(Bumped(t))
<1> DEFINE C == task[t].cands
           f == [c \in C |-> IF Overlap(c.track, {task[t].member}) > 0
                             THEN [c EXCEPT !.overlap = @ + 1] ELSE c]
<1>1. \A c \in C : f[c] \in Candidate
  <2> TAKE c \in C
  <2>1. c \in Candidate  OBVIOUS
  <2>2. [c EXCEPT !.overlap = @ + 1] \in Candidate  BY <2>1 DEF Candidate
  <2> QED  BY <2>1, <2>2
<1>2. Bumped(t) = {f[c] : c \in C}  BY DEF Bumped
<1> HIDE DEF f
<1>3. DOMAIN f = C  BY DEF f
<1> QED  BY <1>1, <1>2, <1>3, MappedCandidates

LEMMA BumpOverlapIInv ==
  ASSUME IInv, NEW t \in Task, BumpOverlap(t)
  PROVE  IInv'
<1> DEFINE k == task[t]
           B == Bumped(t)
           hit(c) == \E b \in B : SameKey(b, c) /\ Overlap(c.track, {k.member}) > 0
           f == [c \in pool |->
                  IF hit(c) THEN [c EXCEPT !.overlap = (CHOOSE b \in B : SameKey(b, c)).overlap]
                  ELSE c]
           r == [k EXCEPT !.pc = "persist", !.cands = {}]
<1>0. SharedOK /\ TasksOK /\ CleanQueue /\ GoodRecord(k) /\ k \in TaskRecord
  BY DEF IInv, TasksOK
<1>1. B \subseteq Candidate /\ IsFiniteSet(B)
  BY <1>0, BumpedType, RecordFields DEF GoodRecord
<1>2. pool' = {f[c] : c \in pool}  BY DEF BumpOverlap
<1>3. task' = [task EXCEPT ![t] = r]  BY DEF BumpOverlap
<1>4. UNCHANGED <<rows, sess, members, events, nextId, clean>>  BY DEF BumpOverlap
<1> HIDE DEF B
<1>5. \A c \in pool : f[c] \in Candidate
  <2> TAKE c \in pool
  <2>1. c \in Candidate  BY <1>0 DEF SharedOK
  <2>2. CASE hit(c)
    <3> DEFINE b == CHOOSE x \in B : SameKey(x, c)
    <3>1. \E x \in B : SameKey(x, c)  BY <2>2
    <3>2. b \in B  BY <3>1
    <3>3. b.overlap \in Nat  BY <1>1, <3>2 DEF Candidate
    <3> HIDE DEF b
    <3>4. [c EXCEPT !.overlap = b.overlap] \in Candidate  BY <2>1, <3>3 DEF Candidate
    <3> QED  BY <2>2, <3>4 DEF b
  <2>3. CASE ~hit(c)  BY <2>1, <2>3
  <2> QED  BY <2>2, <2>3
<1>6. DOMAIN f = pool  OBVIOUS
<1> HIDE DEF f
<1>7. pool' \subseteq Candidate /\ IsFiniteSet(pool')
  BY <1>0, <1>2, <1>5, <1>6, MappedCandidates DEF SharedOK
<1>8. SharedOK' /\ CleanQueue'
  BY <1>0, <1>4, <1>7 DEF SharedOK, CleanQueue, WellFormed
<1>9. r \in TaskRecord /\ r.cands = {} /\ r.batch = k.batch /\ r.todo = k.todo
      /\ r.job = k.job /\ r.view = k.view
  BY <1>0, RecordFields DEF TaskRecord, PCs
<1>10. GoodRecord(r)
  <2>1. At(t, "bump")  BY DEF BumpOverlap
  <2>2. IsFiniteSet({})  BY FS_EmptySet
  <2> QED  BY <1>0, <1>9, <2>1, <2>2 DEF GoodRecord, At
<1>11. TasksOK'  BY <1>0, <1>3, <1>10, OneTask
<1> QED  BY <1>8, <1>11 DEF IInv

LEMMA RescoreIInv ==
  ASSUME IInv, NEW t \in Task, Rescore(t)
  PROVE  IInv'
<1> DEFINE k == task[t]
           f == [c \in pool |-> [c EXCEPT !.score = Score[k.view.dna + 1][c.track]]]
           C == {f[c] : c \in pool}
           r == [k EXCEPT !.pc = "readQueue", !.cands = C]
<1>0. SharedOK /\ TasksOK /\ CleanQueue /\ GoodRecord(k) /\ k \in TaskRecord
  BY DEF IInv, TasksOK
<1>1. SharedOK' /\ CleanQueue'  BY <1>0, SharedUnchanged DEF Rescore
<1>2. At(t, "rescore")  BY DEF Rescore
<1>3. k.view.dna \in 0..LastDna /\ k.view.dna < LastDna
  BY <1>0, <1>2, RecordFields DEF GoodRecord, At
<1>4. k.view.dna + 1 \in 0..LastDna  BY <1>3, DataAssumption DEF DataAssumption
<1>5. \A c \in pool : f[c] \in Candidate
  <2> TAKE c \in pool
  <2>1. c \in Candidate /\ c.track \in Track  BY <1>0 DEF SharedOK, Candidate
  <2>2. Score[k.view.dna + 1][c.track] \in 0..Top
    BY <1>4, <2>1, DataAssumption DEF DataAssumption
  <2> QED  BY <2>1, <2>2 DEF Candidate
<1>6. task' = [task EXCEPT ![t] = r]  BY DEF Rescore
<1>7. DOMAIN f = pool  OBVIOUS
<1> HIDE DEF f
<1>8. C \subseteq Candidate /\ IsFiniteSet(C)
  BY <1>0, <1>5, <1>7, MappedCandidates DEF SharedOK
<1> HIDE DEF C
<1>9. r \in TaskRecord /\ r.cands = C /\ r.batch = k.batch /\ r.todo = k.todo
      /\ r.job = k.job /\ r.view = k.view
  BY <1>0, <1>8, RecordFields DEF TaskRecord, PCs
<1>10. GoodRecord(r)  BY <1>0, <1>2, <1>8, <1>9 DEF GoodRecord, At
<1>11. TasksOK'  BY <1>0, <1>6, <1>10, OneTask
<1> QED  BY <1>1, <1>11 DEF IInv

LEMMA ReadQueueIInv ==
  ASSUME IInv, NEW t \in Task, ReadQueue(t)
  PROVE  IInv'
<1> DEFINE k == task[t]
           r == [k EXCEPT !.pc = "readPool", !.seen = rows]
<1>0. SharedOK /\ TasksOK /\ CleanQueue /\ GoodRecord(k) /\ k \in TaskRecord
  BY DEF IInv, TasksOK
<1>1. SharedOK' /\ CleanQueue'  BY <1>0, SharedUnchanged DEF ReadQueue
<1>2. At(t, "readQueue")  BY DEF ReadQueue
<1>3. GoodRecord(r)  BY <1>0, <1>2, RecordFields DEF GoodRecord, TaskRecord, PCs, SharedOK, At
<1>4. task' = [task EXCEPT ![t] = r]  BY DEF ReadQueue
<1>5. TasksOK'  BY <1>0, <1>3, <1>4, OneTask
<1> QED  BY <1>1, <1>5 DEF IInv

LEMMA DeleteIInv ==
  ASSUME IInv, NEW t \in Task, Delete(t)
  PROVE  IInv'
<1> DEFINE k == task[t]
           r == [k EXCEPT !.pc = "commit"]
<1>0. SharedOK /\ TasksOK /\ CleanQueue /\ GoodRecord(k) /\ k \in TaskRecord
  BY DEF IInv, TasksOK
<1>1. SharedOK' /\ CleanQueue'  BY <1>0, SharedUnchanged DEF Delete
<1>2. At(t, "delete")  BY DEF Delete
<1>3. GoodRecord(r)  BY <1>0, <1>2, RecordFields DEF GoodRecord, TaskRecord, PCs, At
<1>4. task' = [task EXCEPT ![t] = r]  BY DEF Delete, Goto
<1>5. TasksOK'  BY <1>0, <1>3, <1>4, OneTask
<1> QED  BY <1>1, <1>5 DEF IInv

LEMMA EndingIInv ==
  ASSUME IInv, NEW t \in Task, Fail(t) \/ DeadlockVictim(t)
  PROVE  IInv'
<1>1. SharedOK' /\ CleanQueue'  BY SharedUnchanged DEF IInv, Fail, DeadlockVictim
<1>2. TasksOK'  BY EndGood DEF IInv, Fail, DeadlockVictim
<1> QED  BY <1>1, <1>2 DEF IInv

LEMMA VisibleType ==
  ASSUME IInv, NEW t \in Task
  PROVE  Visible(t) \subseteq Candidate /\ IsFiniteSet(Visible(t))
<1> DEFINE C == task[t].cands
           hit(c) == \E d \in C : SameKey(c, d)
           f == [c \in pool |->
                  IF hit(c) THEN [c EXCEPT !.score = (CHOOSE d \in C : SameKey(c, d)).score]
                  ELSE c]
<1>0. pool \subseteq Candidate /\ IsFiniteSet(pool) /\ C \subseteq Candidate
  BY RecordFields DEF IInv, SharedOK, TasksOK
<1>1. \A c \in pool : f[c] \in Candidate
  <2> TAKE c \in pool
  <2>1. c \in Candidate  BY <1>0
  <2>2. CASE hit(c)
    <3> DEFINE d == CHOOSE x \in C : SameKey(c, x)
    <3>1. \E x \in C : SameKey(c, x)  BY <2>2
    <3>2. d \in C  BY <3>1
    <3>3. d.score \in 0..Top  BY <1>0, <3>2 DEF Candidate
    <3> HIDE DEF d
    <3>4. [c EXCEPT !.score = d.score] \in Candidate  BY <2>1, <3>3 DEF Candidate
    <3> QED  BY <2>2, <3>4 DEF d
  <2>3. CASE ~hit(c)  BY <2>1, <2>3
  <2> QED  BY <2>2, <2>3
<1>2. Visible(t) = pool \/ Visible(t) = {f[c] : c \in pool}  BY DEF Visible
<1>3. DOMAIN f = pool  OBVIOUS
<1> HIDE DEF f
<1>4. {f[c] : c \in pool} \subseteq Candidate /\ IsFiniteSet({f[c] : c \in pool})
  BY <1>0, <1>1, <1>3, MappedCandidates
<1> QED  BY <1>0, <1>2, <1>4

LEMMA ReadPoolIInv ==
  ASSUME IInv, NEW t \in Task, ReadPool(t)
  PROVE  IInv'
<1> DEFINE k == task[t]
           hits == Passing(Visible(t), ThresholdOr(k.view.threshold))
           r == [k EXCEPT !.pc = "delete", !.batch = k.cands, !.cands = hits]
<1>0. SharedOK /\ TasksOK /\ CleanQueue /\ GoodRecord(k) /\ k \in TaskRecord
  BY DEF IInv, TasksOK
<1>1. SharedOK' /\ CleanQueue'  BY <1>0, SharedUnchanged DEF ReadPool
<1>2. At(t, "readPool")  BY DEF ReadPool
<1>3. task' = [task EXCEPT ![t] = r]  BY DEF ReadPool
<1>4. hits \subseteq Candidate /\ IsFiniteSet(hits)
  BY VisibleType, FS_Subset DEF Passing
<1> HIDE DEF hits
<1>5. r \in TaskRecord /\ r.cands = hits /\ r.batch = k.cands /\ r.todo = k.todo
      /\ r.job = k.job /\ r.view = k.view /\ r.pc = "delete"
  BY <1>0, <1>4, RecordFields DEF TaskRecord, PCs
<1>6. GoodRecord(r)  BY <1>0, <1>2, <1>4, <1>5 DEF GoodRecord, At
<1>7. TasksOK'  BY <1>0, <1>3, <1>6, OneTask
<1> QED  BY <1>1, <1>7 DEF IInv

-----------------------------------------------------------------------------
(* The two writers of the queue.                                           *)

LEMMA WriteIInv ==
  ASSUME IInv, NEW t \in Task, Write(t)
  PROVE  IInv'
<1> DEFINE k == task[t]
           n == Len(k.plan)
           R == RowsFrom(k.plan, nextId)
<1>0. SharedOK /\ TasksOK /\ CleanQueue /\ GoodRecord(k) /\ k \in TaskRecord
  BY DEF IInv, TasksOK
<1>1. k.plan \in Seq(Track) /\ n \in Nat /\ nextId \in Nat
  BY <1>0, RecordFields DEF SharedOK
<1>2. R \subseteq Row /\ WellFormed(R, StatusOf(n))
  BY <1>1, RowsFromType, RowsFromWellFormed
<1>3. rows' = rows \cup R  BY DEF Write
<1>4. nextId' = nextId + n  BY DEF Write
<1>5. sess' = [sess EXCEPT
        !.status = StatusAfter(t, n),
        !.threshold = IF k.threshold = k.view.threshold THEN @ ELSE k.threshold]
  BY DEF Write
<1>6. clean' = (rows = {} /\ sess.status = k.view.status)  BY DEF Write
<1>7. UNCHANGED <<pool, members, events>> /\ End(t)  BY DEF Write
<1> HIDE DEF R, n
<1>8. StatusAfter(t, n) \in Statuses
  BY <1>0, StatusOfType DEF StatusAfter, SharedOK, SessionRow
<1>9. sess' \in SessionRow /\ sess'.status = StatusAfter(t, n)
  BY <1>0, <1>5, <1>8, RecordFields DEF SharedOK, SessionRow
<1>10. SharedOK'
  <2>1. rows' \subseteq Row  BY <1>0, <1>2, <1>3 DEF SharedOK
  <2>2. nextId' \in Nat  BY <1>1, <1>4
  <2>3. clean' \in BOOLEAN  BY <1>6
  <2> QED  BY <1>0, <1>7, <1>9, <2>1, <2>2, <2>3 DEF SharedOK
<1>11. CleanQueue'
  <2> SUFFICES ASSUME clean' PROVE WellFormed(rows', sess'.status)
    BY DEF CleanQueue
  <2>1. rows' = R /\ sess.status = k.view.status  BY <1>3, <1>6
  <2>2. sess'.status = StatusOf(n)  BY <1>9, <2>1 DEF StatusAfter
  <2> QED  BY <1>2, <2>1, <2>2
<1>12. TasksOK'  BY <1>0, <1>7, EndGood
<1> QED  BY <1>10, <1>11, <1>12 DEF IInv

(* What a rerank rebuilds is a sequence of tracks as long as its status    *)
(* was computed for.                                                       *)
LEMMA RebuiltType ==
  ASSUME IInv, NEW t \in Task, NEW c \in CurrentSeen(t), NEW r \in Rankings(Eligible(t, c))
  PROVE  /\ Rebuilt(t, c, r) \in Seq(Track)
         /\ Len(Rebuilt(t, c, r)) = Left(t, c)
         /\ Left(t, c) \in Nat
<1> DEFINE n == Cardinality(Eligible(t, c))
           m == Taken(t, c)
           head == IF Protected(t, c) THEN <<c.track>> ELSE <<>>
           tail == [i \in 1..m |-> r[i].track]
<1>1. task[t].cands \subseteq Candidate /\ IsFiniteSet(task[t].cands) /\ task[t].seen \subseteq Row
  BY RecordFields DEF IInv, TasksOK, GoodRecord
<1>2. Eligible(t, c) \subseteq Candidate /\ IsFiniteSet(Eligible(t, c))
  BY <1>1, FS_Subset DEF Eligible
<1>3. n \in Nat /\ r \in [1..n -> Eligible(t, c)]  BY <1>2, RankingType
<1>4. Size \in Nat \ {0} /\ Base(t, c) \in {0, 1}
  BY DataAssumption DEF DataAssumption, Base
<1>5. m \in Nat /\ m <= n  BY <1>3, <1>4 DEF Taken
<1>6. tail \in Seq(Track) /\ Len(tail) = m
  <2>1. ASSUME NEW i \in 1..m PROVE r[i].track \in Track
    <3>1. i \in 1..n  BY <1>3, <1>5
    <3>2. r[i] \in Candidate  BY <1>2, <1>3, <3>1
    <3> QED  BY <3>2 DEF Candidate
  <2> QED  BY <1>5, <2>1
<1>7. head \in Seq(Track) /\ Len(head) = Base(t, c)
  <2>1. CASE Protected(t, c)
    <3>1. c \in task[t].seen
      BY <2>1 DEF Protected, CurrentSeen, Lowest, CurrentsOf
    <3>2. c.track \in Track  BY <1>1, <3>1 DEF Row
    <3> QED  BY <2>1, <3>2 DEF Base
  <2>2. CASE ~Protected(t, c)  BY <2>2 DEF Base
  <2> QED  BY <2>1, <2>2
<1>8. Rebuilt(t, c, r) = head \o tail  BY DEF Rebuilt
<1>9. Left(t, c) = Base(t, c) + m  BY DEF Left
<1> HIDE DEF head, tail, m
<1> QED  BY <1>4, <1>5, <1>6, <1>7, <1>8, <1>9

LEMMA CommitIInv ==
  ASSUME IInv, NEW t \in Task, Commit(t)
  PROVE  IInv'
<1> DEFINE k == task[t]
           drift == k.job = "drift"
           hit(c) == \E d \in k.batch : SameKey(c, d)
           f == [c \in pool |->
                  IF hit(c) THEN [c EXCEPT !.score = (CHOOSE d \in k.batch : SameKey(c, d)).score]
                  ELSE c]
<1>0. SharedOK /\ TasksOK /\ CleanQueue /\ GoodRecord(k) /\ k \in TaskRecord
  BY DEF IInv, TasksOK
<1> DEFINE Put(c, r) ==
        /\ rows' = {x \in rows : x.id \notin Ids(k.seen)}
                     \cup RowsFrom(Rebuilt(t, c, r), nextId)
        /\ nextId' = nextId + Left(t, c)
        /\ sess' = [sess EXCEPT
             !.status = StatusAfter(t, Left(t, c)),
             !.dna = IF k.job = "drift" THEN k.view.dna + 1 ELSE @]
<1>01. \E c \in CurrentSeen(t) : \E r \in Rankings(Eligible(t, c)) : Put(c, r)
  BY DEF Commit
<1>02. PICK c0 \in CurrentSeen(t) : \E r \in Rankings(Eligible(t, c0)) : Put(c0, r)
  BY <1>01
<1>1. PICK r0 \in Rankings(Eligible(t, c0)) : Put(c0, r0)
  BY <1>02
<1> DEFINE q == Rebuilt(t, c0, r0)
           R == RowsFrom(q, nextId)
           n == Left(t, c0)
<1>2. q \in Seq(Track) /\ Len(q) = n /\ n \in Nat /\ nextId \in Nat
  BY <1>0, RebuiltType DEF SharedOK
<1>3. R \subseteq Row /\ WellFormed(R, StatusOf(n))
  BY <1>2, RowsFromType, RowsFromWellFormed
<1>4. clean' = (k.seen = rows /\ k.view.status = sess.status)  BY DEF Commit
<1>5. End(t) /\ UNCHANGED members  BY DEF Commit
<1>6. events' = {[e EXCEPT !.row = IF @ \in Ids(k.seen) THEN NoRow ELSE @] : e \in events}
  BY DEF Commit, Detached
<1>7. pool' = IF drift THEN {f[x] : x \in pool} ELSE pool
  <2> DEFINE g(x) == IF hit(x) THEN [x EXCEPT !.score = (CHOOSE d \in k.batch : SameKey(x, d)).score]
                     ELSE x
  <2>1. pool' = IF drift THEN {g(x) : x \in pool} ELSE pool  BY DEF Commit
  <2>2. \A x \in pool : f[x] = g(x)  OBVIOUS
  <2> HIDE DEF f, g
  <2> QED  BY <2>1, <2>2
<1>8. At(t, "commit")  BY DEF Commit
<1> HIDE DEF q, R, n
<1>9. rows' = {x \in rows : x.id \notin Ids(k.seen)} \cup R /\ nextId' = nextId + n
  BY <1>1 DEF R, q, n
<1>10. sess' \in SessionRow /\ sess'.status = StatusAfter(t, n)
  <2>1. StatusAfter(t, n) \in Statuses
    BY <1>0, StatusOfType DEF StatusAfter, SharedOK, SessionRow
  <2>2. drift => k.view.dna + 1 \in 0..LastDna
    <3>1. k.view.dna \in 0..LastDna  BY <1>0, RecordFields
    <3>2. drift => k.view.dna < LastDna  BY <1>0, <1>8 DEF GoodRecord, At
    <3> QED  BY <3>1, <3>2, DataAssumption, SMTT(30) DEF DataAssumption
  <2>3. sess \in SessionRow  BY <1>0 DEF SharedOK
  <2>4. sess' = [sess EXCEPT !.status = StatusAfter(t, n),
                             !.dna = IF drift THEN k.view.dna + 1 ELSE @]
    BY <1>1 DEF n
  <2> QED  BY <2>1, <2>2, <2>3, <2>4 DEF SessionRow
<1>11. pool' \subseteq Candidate /\ IsFiniteSet(pool')
  <2>1. \A x \in pool : f[x] \in Candidate
    <3> TAKE x \in pool
    <3>1. x \in Candidate /\ k.batch \subseteq Candidate  BY <1>0, RecordFields DEF SharedOK
    <3>2. CASE hit(x)
      <4> DEFINE d == CHOOSE y \in k.batch : SameKey(x, y)
      <4>1. \E y \in k.batch : SameKey(x, y)  BY <3>2
      <4>2. d \in k.batch  BY <4>1
      <4>3. d.score \in 0..Top  BY <3>1, <4>2 DEF Candidate
      <4> HIDE DEF d
      <4>4. [x EXCEPT !.score = d.score] \in Candidate  BY <3>1, <4>3 DEF Candidate
      <4> QED  BY <3>2, <4>4 DEF d
    <3>3. CASE ~hit(x)  BY <3>1, <3>3
    <3> QED  BY <3>2, <3>3
  <2>2. DOMAIN f = pool  OBVIOUS
  <2> HIDE DEF f
  <2>3. {f[x] : x \in pool} \subseteq Candidate /\ IsFiniteSet({f[x] : x \in pool})
    BY <1>0, <2>1, <2>2, MappedCandidates DEF SharedOK
  <2> QED  BY <1>0, <1>7, <2>3 DEF SharedOK
<1>12. SharedOK'
  <2>1. rows' \subseteq Row  BY <1>0, <1>3, <1>9 DEF SharedOK
  <2>2. nextId' \in Nat  BY <1>2, <1>9
  <2>3. clean' \in BOOLEAN  BY <1>4
  <2>4. events' \subseteq [by : Task, row : Nat \cup {NoRow}, track : Track]
    BY <1>0, <1>6 DEF SharedOK
  <2> QED  BY <1>0, <1>5, <1>10, <1>11, <2>1, <2>2, <2>3, <2>4 DEF SharedOK
<1>13. CleanQueue'
  <2> SUFFICES ASSUME clean' PROVE WellFormed(rows', sess'.status)
    BY DEF CleanQueue
  <2>1. k.seen = rows /\ sess.status = k.view.status  BY <1>4
  <2>2. {x \in rows : x.id \notin Ids(k.seen)} = {}  BY <2>1 DEF Ids
  <2>3. rows' = R  BY <1>9, <2>2
  <2>4. sess'.status = StatusOf(n)  BY <1>10, <2>1 DEF StatusAfter
  <2> QED  BY <1>3, <2>3, <2>4
<1>14. TasksOK'  BY <1>0, <1>5, EndGood
<1> QED  BY <1>12, <1>13, <1>14 DEF IInv
-----------------------------------------------------------------------------
(* The first build's scan, the only step that ranks scored candidates.     *)

(* Candidates scored for any of some members are candidates, and finite.   *)
LEMMA AllScored ==
  ASSUME NEW M \in SUBSET Member, NEW d \in 0..LastDna
  PROVE  Scanned(M, d) \subseteq Candidate /\ IsFiniteSet(Scanned(M, d))
<1> DEFINE f == [m \in M |-> Scored(m, Library[m], d, M)]
           F == {f[m] : m \in M}
<1>1. \A m \in M : f[m] \subseteq Candidate /\ IsFiniteSet(f[m])
  <2> TAKE m \in M
  <2>1. Library[m] \in SUBSET Track  BY DataAssumption DEF DataAssumption
  <2> QED  BY <2>1, ScoredType
<1>2. IsFiniteSet(M)  BY DataAssumption, FS_Subset DEF DataAssumption
<1>3. Scanned(M, d) = UNION F  BY DEF Scanned
<1> HIDE DEF f
<1>4. IsFiniteSet(F)  BY <1>2, ImageFinite
<1>5. \A x \in F : IsFiniteSet(x)  BY <1>1
<1>6. IsFiniteSet(UNION F)  BY <1>4, <1>5, FS_UNION
<1>7. UNION F \subseteq Candidate  BY <1>1
<1> QED  BY <1>3, <1>6, <1>7

(* A ranking of resolvable candidates becomes a plan of tracks.            *)
LEMMA PlanType ==
  ASSUME NEW C \in SUBSET Candidate, IsFiniteSet(C), NEW r \in Rankings(C)
  PROVE  [i \in DOMAIN r |-> HostTrack[r[i].track]] \in Seq(Track)
<1>1. Cardinality(C) \in Nat /\ r \in [1..Cardinality(C) -> C]  BY RankingType
<1>2. \A i \in 1..Cardinality(C) : HostTrack[r[i].track] \in Track
  <2> TAKE i \in 1..Cardinality(C)
  <2>1. r[i].track \in Track  BY <1>1 DEF Candidate
  <2> QED  BY <2>1, TaskAssumption DEF TaskAssumption
<1> QED  BY <1>1, <1>2

(* The batches to persist: one for each scanned member, then the extra.    *)
LEMMA TodoType ==
  ASSUME NEW M \in SUBSET Member, NEW d \in 0..LastDna,
         NEW order \in SetToSeqs(M),
         NEW extra \in SUBSET Candidate, IsFiniteSet(extra)
  PROVE  LET todo == Append([i \in DOMAIN order |->
                               Scored(order[i], Library[order[i]], d, M)], extra)
         IN /\ todo \in Seq(SUBSET Candidate)
            /\ \A i \in 1..Len(todo) : IsFiniteSet(todo[i])
<1> DEFINE n == Cardinality(M)
           s == [i \in 1..n |-> Scored(order[i], Library[order[i]], d, M)]
           todo == Append(s, extra)
<1>1. n \in Nat /\ order \in [1..n -> M]
  BY DataAssumption, FS_Subset, FS_CardinalityType DEF DataAssumption, SetToSeqs
<1>2. \A i \in 1..n : s[i] \subseteq Candidate /\ IsFiniteSet(s[i])
  <2> TAKE i \in 1..n
  <2>1. order[i] \in M /\ order[i] \in Member  BY <1>1
  <2>2. Library[order[i]] \in SUBSET Track  BY <2>1, DataAssumption DEF DataAssumption
  <2> QED  BY <2>1, <2>2, ScoredType
<1>3. DOMAIN order = 1..n  BY <1>1
<1>4. s \in Seq(SUBSET Candidate) /\ Len(s) = n
  <2>1. s \in [1..n -> SUBSET Candidate]  BY <1>2
  <2> HIDE DEF s
  <2> QED  BY <1>1, <2>1
<1> HIDE DEF s
<1>5. todo \in Seq(SUBSET Candidate) /\ Len(todo) = n + 1  BY <1>1, <1>4
<1>6. \A i \in 1..Len(todo) : IsFiniteSet(todo[i])
  <2> TAKE i \in 1..Len(todo)
  <2>1. CASE i = n + 1
    <3>1. todo[i] = extra  BY <1>1, <1>4, <2>1
    <3> QED  BY <3>1
  <2>2. CASE i \in 1..n
    <3>1. todo[i] = s[i]  BY <1>1, <1>4, <2>2
    <3> QED  BY <1>2, <2>2, <3>1
  <2> QED  BY <1>1, <1>5, <2>1, <2>2
<1> QED  BY <1>3, <1>5, <1>6 DEF s

LEMMA ScanIInv ==
  ASSUME IInv, NEW t \in Task, Scan(t)
  PROVE  IInv'
<1> DEFINE k == task[t]
           dna == k.view.dna
<1>0. SharedOK /\ TasksOK /\ CleanQueue /\ GoodRecord(k) /\ k \in TaskRecord
  BY DEF IInv, TasksOK
<1>1. SharedOK' /\ CleanQueue'  BY <1>0, SharedUnchanged DEF Scan
<1>2. k.pc = "scan"  BY DEF Scan, At
<1>3. CASE task' = [task EXCEPT ![t].pc = "readQueue", ![t].job = "rerank"]
  <2> DEFINE r == [k EXCEPT !.pc = "readQueue", !.job = "rerank"]
  <2>1. GoodRecord(r)  BY <1>0, <1>2, RecordFields DEF GoodRecord, TaskRecord, PCs
  <2>2. task' = [task EXCEPT ![t] = r]  BY <1>3
  <2>3. TasksOK'  BY <1>0, <2>1, <2>2, OneTask
  <2> QED  BY <1>1, <2>3 DEF IInv
<1>4. CASE ~(task' = [task EXCEPT ![t].pc = "readQueue", ![t].job = "rerank"])
  <2> DEFINE Found(D, X, M) == Accepted(D) \cup Scored(Host, X, dna, M)
             Sources(a, D) == IF a THEN Searched(D, dna) ELSE {{}}
             Ranked(a, C) == IF a THEN Rankings(C) ELSE {<<>>}
  <2>1. \E M \in SUBSET members, a \in BOOLEAN : \E D \in Dedupes(Scanned(M, dna)) :
        \E X \in Sources(a, D) : \E F \in SUBSET Unresolvable(Found(D, X, M)) :
        \E ranked \in Ranked(a, Found(D, X, M) \ F) :
        \E order \in SetToSeqs(M) : ScanInto(t, M, D, X, ranked, order)
    BY <1>4 DEF Scan
  <2>2. PICK M \in SUBSET members, a \in BOOLEAN : \E D \in Dedupes(Scanned(M, dna)) :
        \E X \in Sources(a, D) : \E F \in SUBSET Unresolvable(Found(D, X, M)) :
        \E ranked \in Ranked(a, Found(D, X, M) \ F) :
        \E order \in SetToSeqs(M) : ScanInto(t, M, D, X, ranked, order)
    BY <2>1
  <2>3. PICK D \in Dedupes(Scanned(M, dna)) :
        \E X \in Sources(a, D) : \E F \in SUBSET Unresolvable(Found(D, X, M)) :
        \E ranked \in Ranked(a, Found(D, X, M) \ F) :
        \E order \in SetToSeqs(M) : ScanInto(t, M, D, X, ranked, order)
    BY <2>2
  <2>4. PICK X \in Sources(a, D) : \E F \in SUBSET Unresolvable(Found(D, X, M)) :
        \E ranked \in Ranked(a, Found(D, X, M) \ F) :
        \E order \in SetToSeqs(M) : ScanInto(t, M, D, X, ranked, order)
    BY <2>3
  <2>5. PICK F \in SUBSET Unresolvable(Found(D, X, M)) :
        \E ranked \in Ranked(a, Found(D, X, M) \ F) :
        \E order \in SetToSeqs(M) : ScanInto(t, M, D, X, ranked, order)
    BY <2>4
  <2>6. PICK ranked \in Ranked(a, Found(D, X, M) \ F), order \in SetToSeqs(M) :
          ScanInto(t, M, D, X, ranked, order)
    BY <2>5
  <2>7. M \in SUBSET Member  BY <1>0 DEF SharedOK
  <2>8. dna \in 0..LastDna  BY <1>0, RecordFields
  <2>9. X \in SUBSET Track  BY TaskAssumption DEF TaskAssumption, Searched
  <2> DEFINE extra == Scored(Host, X, dna, M)
             C == (Accepted(D) \cup extra) \ F
             plan == [i \in DOMAIN ranked |-> HostTrack[ranked[i].track]]
             todo == Append([i \in DOMAIN order |->
                       Scored(order[i], Library[order[i]], dna, M)], extra)
             r == [k EXCEPT !.pc = "persist", !.threshold = LadderStop(D),
                            !.plan = plan, !.todo = todo]
  <2>10. extra \in SUBSET Candidate /\ IsFiniteSet(extra)
    BY <2>7, <2>8, <2>9, ScoredType, TaskAssumption DEF TaskAssumption
  <2>11. Accepted(D) \subseteq Candidate /\ IsFiniteSet(Accepted(D))
    <3>1. Scanned(M, dna) \subseteq Candidate /\ IsFiniteSet(Scanned(M, dna))
      BY <2>7, <2>8, AllScored
    <3>2. IsFiniteSet(D) /\ D \subseteq Candidate  BY <3>1, FS_Subset DEF Dedupes
    <3> QED  BY <3>2, FS_Subset DEF Accepted, Passing
  <2>12. task' = [task EXCEPT ![t] = r]  BY <2>6 DEF ScanInto
  <2>13. ranked = <<>> \/ ranked \in Rankings(C)  OBVIOUS
  <2> HIDE DEF extra
  <2>14. C \in SUBSET Candidate /\ IsFiniteSet(C)
    <3>1. IsFiniteSet(Accepted(D) \cup extra)  BY <2>10, <2>11, FS_Union
    <3> QED  BY <2>10, <2>11, <3>1, FS_Subset
  <2>15. plan \in Seq(Track)
    <3>1. CASE ranked = <<>>  BY <3>1
    <3>2. CASE ranked \in Rankings(C)  BY <2>14, <3>2, PlanType
    <3> QED  BY <2>13, <3>1, <3>2
  <2>16. todo \in Seq(SUBSET Candidate) /\ \A i \in 1..Len(todo) : IsFiniteSet(todo[i])
    BY <2>7, <2>8, <2>10, TodoType
  <2>17. LadderStop(D) \in 0..Top  BY LadderStopType
  <2> HIDE DEF plan, todo
  <2>18. r.pc = "persist" /\ r.job = k.job /\ r.view = k.view /\ r.cands = k.cands
         /\ r.batch = k.batch /\ r.todo = todo /\ r \in TaskRecord
    BY <1>0, <2>15, <2>16, <2>17, RecordFields DEF TaskRecord, PCs
  <2> HIDE DEF r
  <2>19. GoodRecord(r)  BY <1>0, <1>2, <2>16, <2>18 DEF GoodRecord
  <2>20. TasksOK'  BY <1>0, <2>12, <2>19, OneTask
  <2> QED  BY <1>1, <2>20 DEF IInv
<1> QED  BY <1>3, <1>4

-----------------------------------------------------------------------------
(* The invariant is inductive, and what follows from it.                   *)

LEMMA StepIInv ==
  ASSUME IInv, NEW t \in Task, Step(t) \/ Fail(t)
  PROVE  IInv'
<1>1. CASE Fail(t) \/ DeadlockVictim(t)  BY <1>1, EndingIInv
<1> QED
  BY <1>1, PostSkipIInv, LoadIInv, ScanIInv, PersistIInv, InsertIInv, WriteIInv,
     ReadOverlapIInv, BumpOverlapIInv, RescoreIInv, ReadQueueIInv, ReadPoolIInv,
     DeleteIInv, CommitIInv DEF Step

LEMMA StutterIInv == IInv /\ UNCHANGED vars => IInv'
<1> SUFFICES ASSUME IInv, UNCHANGED vars PROVE IInv'  OBVIOUS
<1>1. SharedOK' /\ CleanQueue'  BY SharedUnchanged DEF IInv, vars
<1>2. TasksOK'  BY DEF IInv, TasksOK, vars
<1> QED  BY <1>1, <1>2 DEF IInv

LEMMA NextIInv == IInv /\ [Next]_vars => IInv'
<1> SUFFICES ASSUME IInv, [Next]_vars PROVE IInv'  OBVIOUS
<1>1. ASSUME NEW t \in Task, Request(t) PROVE IInv'
  BY <1>1, RequestTasks, RequestShared DEF IInv
<1>2. ASSUME NEW t \in Task, Step(t) \/ Fail(t) PROVE IInv'  BY <1>2, StepIInv
<1>3. CASE Quiet \/ UNCHANGED vars  BY <1>3, StutterIInv DEF Quiet
<1> QED  BY <1>1, <1>2, <1>3 DEF Next

LEMMA Inductive == Spec => []IInv
  BY InitIInv, NextIInv, PTL DEF Spec

(* Whatever requests overlap, and whichever task dies where, every row,    *)
(* candidate, event and session row stored satisfies its column types.     *)
THEOREM TypeCorrect == Spec => []TypeOK
<1>1. IInv => TypeOK  BY DEF IInv, SharedOK, TasksOK, TypeOK
<1> QED  BY <1>1, Inductive, PTL

(* For any members, tracks, tasks and queue size: after a queue write that *)
(* saw the queue and the session row as they were, the queue has           *)
(* contiguous positions, exactly position 0 current and the status of its  *)
(* length, however many tasks overlapped before.                           *)
THEOREM QueueStaysClean == Spec => []CleanQueue
<1>1. IInv => CleanQueue  BY DEF IInv
<1> QED  BY <1>1, Inductive, PTL

-----------------------------------------------------------------------------
(* The recorded skips and the candidate pool.                              *)

Unique(C) == \A c, d \in C : SameKey(c, d) => c = d

(* A task in the middle of an INSERT has looked its batch up in one owner's *)
(* scan, and so have the batches it still has to insert.                   *)
BatchesUnique ==
  \A t \in Task :
    /\ \A i \in DOMAIN task[t].todo : Unique(task[t].todo[i])
    /\ At(t, "insert") => Unique(task[t].batch)

PoolInv == TypeOK /\ OneCandidatePerKey /\ BatchesUnique

(* A skip holds exactly the row it read until its event is recorded.       *)
SkipRead ==
  \A t \in Task :
    /\ At(t, "new") => task[t].skip = NoRow
    /\ At(t, "post") => \A r \in task[t].seen : r.id = task[t].skip

EventInv == TypeOK /\ EventsSurvive /\ SkipRead

-----------------------------------------------------------------------------
(* One scan has one candidate for each track.                              *)
LEMMA ScoredUnique == ASSUME NEW m, NEW T, NEW d, NEW M PROVE Unique(Scored(m, T, d, M))
BY DEF Scored, Unique, SameKey

(* A step that rewrites candidates in place keeps their keys.              *)
LEMMA RewrittenUnique ==
  ASSUME NEW C, Unique(C), NEW f, \A c \in C : SameKey(f[c], c)
  PROVE  Unique({f[c] : c \in C})
BY DEF Unique, SameKey

LEMMA InsertUnique ==
  ASSUME NEW C, NEW B, Unique(C), Unique(B), ~\E b \in B, c \in C : SameKey(b, c)
  PROVE  Unique(C \cup B)
BY DEF Unique, SameKey

(* Only three steps write the pool.                                        *)
LEMMA PoolKept ==
  ASSUME PoolInv, NEW t \in Task, Request(t) \/ Step(t) \/ Fail(t)
  PROVE  OneCandidatePerKey'
<1> USE DEF PoolInv
<1>0. Unique(pool)
  BY DEF OneCandidatePerKey, Unique
<1> SUFFICES Unique(pool')
  BY DEF OneCandidatePerKey, Unique
<1>1. CASE UNCHANGED pool
  BY <1>0, <1>1
<1>2. CASE Insert(t)
  <2>1. CASE Overtaken(t)
    BY <1>0, <1>2, <2>1 DEF Insert
  <2>2. CASE ~Overtaken(t)
    <3>1. pool' = pool \cup task[t].batch /\ Unique(task[t].batch)
      BY <1>2, <2>2 DEF Insert, BatchesUnique
    <3>2. ~\E b \in task[t].batch, c \in pool : SameKey(b, c)
      BY <2>2 DEF Overtaken
    <3> QED
      BY <1>0, <3>1, <3>2, InsertUnique
  <2> QED
    BY <2>1, <2>2
<1>3. CASE BumpOverlap(t)
  <2> DEFINE over(c) == (CHOOSE b \in Bumped(t) : SameKey(b, c)).overlap
             hit(c) == \E b \in Bumped(t) : SameKey(b, c) /\ Overlap(c.track, {task[t].member}) > 0
             f == [c \in pool |-> IF hit(c) THEN [c EXCEPT !.overlap = over(c)] ELSE c]
  <2>1. pool' = {f[c] : c \in pool}
    BY <1>3 DEF BumpOverlap
  <2>2. ASSUME NEW c \in pool
        PROVE  SameKey(f[c], c)
    <3>1. c \in Candidate
      BY DEF TypeOK
    <3> HIDE DEF over, hit
    <3>2. f[c] = c \/ f[c] = [c EXCEPT !.overlap = over(c)]
      OBVIOUS
    <3> QED
      BY <3>1, <3>2 DEF SameKey, Candidate
  <2> HIDE DEF f
  <2> QED
    BY <1>0, <2>1, <2>2, RewrittenUnique
<1>4. CASE Commit(t)
  <2>1. CASE task[t].job = "drift"
    <3> DEFINE new(c) == (CHOOSE d \in task[t].batch : SameKey(c, d)).score
               hit(c) == \E d \in task[t].batch : SameKey(c, d)
               f == [c \in pool |-> IF hit(c) THEN [c EXCEPT !.score = new(c)] ELSE c]
    <3>1. pool' = {f[c] : c \in pool}
      BY <1>4, <2>1 DEF Commit
    <3>2. ASSUME NEW c \in pool
          PROVE  SameKey(f[c], c)
      <4>1. c \in Candidate
        BY DEF TypeOK
      <4> HIDE DEF new, hit
      <4>2. f[c] = c \/ f[c] = [c EXCEPT !.score = new(c)]
        OBVIOUS
      <4> QED
        BY <4>1, <4>2 DEF SameKey, Candidate
    <3> HIDE DEF f
    <3> QED
      BY <1>0, <3>1, <3>2, RewrittenUnique
  <2>2. CASE task[t].job # "drift"
    BY <1>0, <1>4, <2>2 DEF Commit
  <2> QED
    BY <2>1, <2>2
<1> QED
  BY <1>1, <1>2, <1>3, <1>4 DEF Request, Step, Fail, Connect, Reconnect, Skip, Join,
    Drift, PostSkip, Load, Scan, Persist, Write, ReadOverlap, Rescore, ReadQueue,
    ReadPool, Delete, DeadlockVictim

-----------------------------------------------------------------------------
(* What a step does to the record of its task.                             *)

(* The fields of k that no invariant here is about may change in r.        *)
Keeps(k, r) == r.todo = k.todo /\ r.skip = k.skip /\ r.pc \notin {"new", "post", "insert"}

LEMMA Others ==
  ASSUME TypeOK, NEW t \in Task, NEW r, task' = [task EXCEPT ![t] = r]
  PROVE  task'[t] = r /\ \A u \in Task \ {t} : task'[u] = task[u]
BY DEF TypeOK

LEMMA EndBlank ==
  ASSUME TypeOK, NEW t \in Task, End(t)
  PROVE  task'[t] = Blank("ended") /\ \A u \in Task \ {t} : task'[u] = task[u]
BY Others DEF End

LEMMA RequestKeeps ==
  ASSUME TypeOK, NEW t \in Task, Connect(t) \/ Reconnect(t) \/ Join(t) \/ Drift(t)
  PROVE  /\ Keeps(task[t], task'[t]) /\ \A u \in Task \ {t} : task'[u] = task[u]
         /\ At(t, "new") /\ UNCHANGED <<rows, events>>
<1> DEFINE k == task[t]
<1>0. k \in TaskRecord
  BY DEF TypeOK
<1>1. CASE Connect(t)
  <2> DEFINE r == [k EXCEPT !.pc = "load", !.job = "build"]
  <2>1. task' = [task EXCEPT ![t] = r]
    BY <1>1 DEF Connect
  <2>2. Keeps(k, r)
    BY <1>0 DEF Keeps, TaskRecord
  <2> QED
    BY <1>1, <2>1, <2>2, Others DEF Connect
<1>2. CASE Reconnect(t)
  <2> DEFINE r == [k EXCEPT !.pc = "load", !.job = "rerank"]
  <2>1. task' = [task EXCEPT ![t] = r]
    BY <1>2 DEF Reconnect
  <2>2. Keeps(k, r)
    BY <1>0 DEF Keeps, TaskRecord
  <2> QED
    BY <1>2, <2>1, <2>2, Others DEF Reconnect
<1>3. CASE Join(t)
  <2>1. PICK m \in Member \ members :
          task' = [task EXCEPT ![t].pc = "load", ![t].job = "join", ![t].member = m]
    BY <1>3 DEF Join
  <2> DEFINE r == [k EXCEPT !.pc = "load", !.job = "join", !.member = m]
  <2>2. task' = [task EXCEPT ![t] = r]
    BY <2>1
  <2>3. Keeps(k, r)
    BY <1>0 DEF Keeps, TaskRecord
  <2> QED
    BY <1>3, <2>2, <2>3, Others, ZenonT(30) DEF Join
<1>4. CASE Drift(t)
  <2> DEFINE r == [k EXCEPT !.pc = "load", !.job = "drift"]
  <2>1. task' = [task EXCEPT ![t] = r]
    BY <1>4 DEF Drift
  <2>2. Keeps(k, r)
    BY <1>0 DEF Keeps, TaskRecord
  <2> QED
    BY <1>4, <2>1, <2>2, Others DEF Drift
<1> QED
  BY <1>1, <1>2, <1>3, <1>4

(* Statements of a background task that read, or write something else.     *)
Reads(t) ==
  \/ Load(t) \/ BumpOverlap(t) \/ Rescore(t) \/ ReadQueue(t) \/ ReadPool(t) \/ Delete(t)
  \/ Insert(t)

LEMMA ReadKeeps ==
  ASSUME TypeOK, NEW t \in Task, Reads(t)
  PROVE  /\ End(t) \/ (Keeps(task[t], task'[t]) /\ \A u \in Task \ {t} : task'[u] = task[u])
         /\ task[t].pc \notin {"new", "post"} /\ UNCHANGED <<rows, events>>
<1> DEFINE k == task[t]
<1>0. k \in TaskRecord
  BY DEF TypeOK
<1> USE DEF At
<1>1. CASE Load(t)
  <2> DEFINE building == k.job = "build" \/ (k.job = "join" /\ pool = {})
             next == CASE building         -> "scan"
                       [] k.job = "join"   -> "overlap"
                       [] k.job = "rerank" -> "readQueue"
                       [] OTHER            -> "rescore"
             job == IF building THEN "build" ELSE k.job
             r == [k EXCEPT !.pc = next, !.view = sess, !.job = job]
  <2>1. k.pc = "load" /\ UNCHANGED <<rows, events>>
    BY <1>1 DEF Load
  <2>2. CASE End(t)
    BY <2>1, <2>2
  <2>3. CASE ~End(t)
    <3>1. task' = [task EXCEPT ![t] = r]
      BY <1>1, <2>3 DEF Load
    <3>2. next \in {"scan", "overlap", "readQueue", "rescore"}
      OBVIOUS
    <3> HIDE DEF next, job
    <3>3. Keeps(k, r)
      BY <1>0, <3>2 DEF Keeps, TaskRecord
    <3> HIDE DEF r
    <3> QED
      BY <2>1, <3>1, <3>3, Others
  <2> QED
    BY <2>2, <2>3
<1>2. CASE BumpOverlap(t)
  <2> DEFINE r == [k EXCEPT !.pc = "persist", !.cands = {}]
  <2>1. task' = [task EXCEPT ![t] = r]
    BY <1>2 DEF BumpOverlap
  <2>2. Keeps(k, r)
    BY <1>0 DEF Keeps, TaskRecord
  <2> QED
    BY <1>2, <2>1, <2>2, Others DEF BumpOverlap
<1>3. CASE Rescore(t)
  <2> DEFINE new == {[c EXCEPT !.score = Score[k.view.dna + 1][c.track]] : c \in pool}
             r == [k EXCEPT !.pc = "readQueue", !.cands = new]
  <2>1. task' = [task EXCEPT ![t] = r]
    BY <1>3 DEF Rescore
  <2> HIDE DEF new
  <2>2. Keeps(k, r)
    BY <1>0 DEF Keeps, TaskRecord
  <2> QED
    BY <1>3, <2>1, <2>2, Others DEF Rescore
<1>4. CASE ReadQueue(t)
  <2> DEFINE r == [k EXCEPT !.pc = "readPool", !.seen = rows]
  <2>1. task' = [task EXCEPT ![t] = r]
    BY <1>4 DEF ReadQueue
  <2>2. Keeps(k, r)
    BY <1>0 DEF Keeps, TaskRecord
  <2> QED
    BY <1>4, <2>1, <2>2, Others DEF ReadQueue
<1>5. CASE ReadPool(t)
  <2> DEFINE hits == Passing(Visible(t), ThresholdOr(k.view.threshold))
             r == [k EXCEPT !.pc = "delete", !.batch = k.cands, !.cands = hits]
  <2>1. task' = [task EXCEPT ![t] = r]
    BY <1>5 DEF ReadPool
  <2> HIDE DEF hits
  <2>2. Keeps(k, r)
    BY <1>0 DEF Keeps, TaskRecord
  <2> QED
    BY <1>5, <2>1, <2>2, Others DEF ReadPool
<1>6. CASE Delete(t)
  <2> DEFINE r == [k EXCEPT !.pc = "commit"]
  <2>1. task' = [task EXCEPT ![t] = r]
    BY <1>6 DEF Delete, Goto
  <2>2. Keeps(k, r)
    BY <1>0 DEF Keeps, TaskRecord
  <2> QED
    BY <1>6, <2>1, <2>2, Others DEF Delete
<1>7. CASE Insert(t)
  <2> DEFINE r == [k EXCEPT !.pc = "persist", !.batch = {}]
  <2>1. End(t) \/ task' = [task EXCEPT ![t] = r]
    BY <1>7 DEF Insert
  <2>2. Keeps(k, r)
    BY <1>0 DEF Keeps, TaskRecord
  <2>3. k.pc = "insert" /\ UNCHANGED <<rows, events>>
    BY <1>7 DEF Insert
  <2> HIDE DEF r
  <2> QED
    BY <2>1, <2>2, <2>3, Others
<1> QED
  BY <1>1, <1>2, <1>3, <1>4, <1>5, <1>6, <1>7 DEF Reads

(* A scan and the guest's one leave batches of one owner each; taking the  *)
(* next of them leaves the others.                                         *)
Todo(k, r) == r.skip = k.skip /\ r.pc \notin {"new", "post"}

LEMMA ScanLeaves ==
  ASSUME TypeOK, NEW t \in Task, Scan(t)
  PROVE  /\ Todo(task[t], task'[t]) /\ task'[t].pc # "insert"
         /\ \A u \in Task \ {t} : task'[u] = task[u]
         /\ \/ task'[t].todo = task[t].todo
            \/ \A i \in DOMAIN task'[t].todo : Unique(task'[t].todo[i])
         /\ At(t, "scan") /\ UNCHANGED <<rows, events>>
<1> DEFINE k == task[t]
<1>0. k \in TaskRecord
  BY DEF TypeOK
<1>1. CASE task' = [task EXCEPT ![t].pc = "readQueue", ![t].job = "rerank"]
  <2> DEFINE r == [k EXCEPT !.pc = "readQueue", !.job = "rerank"]
  <2>1. task' = [task EXCEPT ![t] = r]
    BY <1>1
  <2>2. Todo(k, r) /\ r.todo = k.todo /\ r.pc # "insert"
    BY <1>0 DEF Todo, TaskRecord
  <2> QED
    BY <2>1, <2>2, Others DEF Scan
<1>2. CASE \E M \in SUBSET members : \E D, X, ranked :
             \E order \in SetToSeqs(M) : ScanInto(t, M, D, X, ranked, order)
  <2>0. PICK M \in SUBSET members : \E D, X, ranked :
             \E order \in SetToSeqs(M) : ScanInto(t, M, D, X, ranked, order)
    BY <1>2
  <2>1. PICK D, X, ranked : \E order \in SetToSeqs(M) : ScanInto(t, M, D, X, ranked, order)
    BY <2>0
  <2>2. PICK order \in SetToSeqs(M) : ScanInto(t, M, D, X, ranked, order)
    BY <2>1
  <2> DEFINE dna == k.view.dna
             scans == [i \in DOMAIN order |-> Scored(order[i], Library[order[i]], dna, M)]
             todo == Append(scans, Scored(Host, X, dna, M))
             plan == [i \in DOMAIN ranked |-> HostTrack[ranked[i].track]]
             r == [k EXCEPT !.pc = "persist", !.threshold = LadderStop(D),
                            !.plan = plan, !.todo = todo]
  <2>3. task' = [task EXCEPT ![t] = r]
    BY <2>2 DEF ScanInto
  <2>4. \A i \in DOMAIN todo : Unique(todo[i])
    <3> DEFINE n == Cardinality(M)
    <3>1. n \in Nat /\ DOMAIN order = 1..n
      <4>1. IsFiniteSet(M)
        BY DataAssumption, FS_Subset DEF DataAssumption, TypeOK
      <4> QED
        BY <4>1, FS_CardinalityType DEF SetToSeqs
    <3> HIDE DEF n
    <3>2. scans \in Seq({scans[i] : i \in 1..n}) /\ Len(scans) = n
      <4>1. DOMAIN scans = 1..n
        BY <3>1
      <4> HIDE DEF scans
      <4>2. scans = [i \in 1..n |-> scans[i]]
        <5>1. scans = [i \in DOMAIN scans |-> scans[i]]
          BY DEF scans
        <5> QED
          BY <4>1, <5>1
      <4> QED
        BY <3>1, <4>2
    <3>3. \A i \in 1..n : Unique(scans[i])
      BY <3>1, ScoredUnique
    <3> HIDE DEF scans
    <3>4. \A i \in DOMAIN todo :
            (i \in 1..n /\ todo[i] = scans[i]) \/ todo[i] = Scored(Host, X, dna, M)
      BY <3>2
    <3> QED
      BY <3>3, <3>4, ScoredUnique
  <2> HIDE DEF todo, plan
  <2>5. Todo(k, r) /\ r.todo = todo /\ r.pc # "insert"
    BY <1>0 DEF Todo, TaskRecord
  <2> HIDE DEF r
  <2> QED
    BY <2>3, <2>4, <2>5, Others DEF Scan
<1> QED
  BY <1>1, <1>2 DEF Scan

LEMMA OverlapLeaves ==
  ASSUME TypeOK, NEW t \in Task, ReadOverlap(t)
  PROVE  \/ End(t)
         \/ /\ Todo(task[t], task'[t]) /\ task'[t].pc # "insert"
            /\ \A u \in Task \ {t} : task'[u] = task[u]
            /\ \A i \in DOMAIN task'[t].todo : Unique(task'[t].todo[i])
<1> DEFINE k == task[t]
           m == k.member
           pc == IF Library[m] = {} THEN "persist" ELSE "bump"
           scan == Scored(m, Library[m], k.view.dna, {m})
           r == [k EXCEPT !.pc = pc, !.cands = pool, !.todo = <<scan>>]
<1>0. k \in TaskRecord
  BY DEF TypeOK
<1>1. CASE End(t)
  BY <1>1
<1>2. CASE ~End(t)
  <2>1. task' = [task EXCEPT ![t] = r]
    BY <1>2 DEF ReadOverlap
  <2>2. pc \in {"persist", "bump"} /\ Unique(scan)
    BY ScoredUnique
  <2> HIDE DEF pc, scan
  <2>3. Todo(k, r) /\ r.pc # "insert" /\ r.todo = <<scan>>
    BY <1>0, <2>2 DEF Todo, TaskRecord
  <2>4. \A i \in DOMAIN r.todo : Unique(r.todo[i])
    <3>1. \A i \in DOMAIN <<scan>> : <<scan>>[i] = scan
      OBVIOUS
    <3>2. \A i \in DOMAIN <<scan>> : Unique(<<scan>>[i])
      BY <2>2, <3>1
    <3> HIDE DEF r
    <3> QED
      BY <2>3, <3>2
  <2> HIDE DEF r
  <2>5. task'[t] = r /\ \A u \in Task \ {t} : task'[u] = task[u]
    BY <2>1, Others
  <2>6. Todo(task[t], task'[t]) /\ task'[t].pc # "insert"
    BY <2>3, <2>5
  <2>7. \A i \in DOMAIN task'[t].todo : Unique(task'[t].todo[i])
    BY <2>4, <2>5
  <2> QED
    BY <2>5, <2>6, <2>7
<1> QED
  BY <1>1, <1>2

LEMMA PersistTakes ==
  ASSUME TypeOK, NEW t \in Task, Persist(t)
  PROVE  /\ Todo(task[t], task'[t]) /\ \A u \in Task \ {t} : task'[u] = task[u]
         /\ At(t, "persist") /\ UNCHANGED <<rows, events>>
         /\ \/ task'[t].todo = task[t].todo /\ task'[t].pc # "insert"
            \/ /\ task[t].todo # <<>> /\ task'[t].todo = Tail(task[t].todo)
               /\ task'[t].batch \subseteq Head(task[t].todo)
<1> DEFINE k == task[t]
<1>0. k \in TaskRecord /\ At(t, "persist") /\ UNCHANGED <<rows, events>>
  BY DEF TypeOK, Persist
<1>1. CASE Goto(t, IF k.job = "join" THEN "readQueue" ELSE "write")
  <2> DEFINE pc == IF k.job = "join" THEN "readQueue" ELSE "write"
             r == [k EXCEPT !.pc = pc]
  <2>1. task' = [task EXCEPT ![t] = r]
    BY <1>1 DEF Goto
  <2>2. pc \in {"readQueue", "write"}
    OBVIOUS
  <2> HIDE DEF pc
  <2>3. Todo(k, r) /\ r.todo = k.todo /\ r.pc # "insert"
    BY <1>0, <2>2 DEF Todo, TaskRecord
  <2> HIDE DEF r
  <2> QED
    BY <1>0, <2>1, <2>3, Others
<1>2. CASE k.todo # <<>> /\ ~Goto(t, IF k.job = "join" THEN "readQueue" ELSE "write")
  <2> DEFINE B == {c \in Head(k.todo) : \A d \in pool : ~SameKey(c, d)}
             pc == IF Head(k.todo) = {} THEN "persist" ELSE "insert"
             r == [k EXCEPT !.todo = Tail(@), !.batch = B, !.pc = pc]
  <2>1. task' = [task EXCEPT ![t] = r]
    BY <1>2 DEF Persist
  <2>2. pc \in {"persist", "insert"} /\ B \subseteq Head(k.todo)
    OBVIOUS
  <2> HIDE DEF pc, B
  <2>3. Todo(k, r) /\ r.todo = Tail(k.todo) /\ r.batch = B
    BY <1>0, <2>2 DEF Todo, TaskRecord
  <2> HIDE DEF r
  <2> QED
    BY <1>0, <1>2, <2>1, <2>2, <2>3, Others
<1> QED
  BY <1>1, <1>2 DEF Persist

LEMMA SkipStarts ==
  ASSUME TypeOK, NEW t \in Task, Skip(t)
  PROVE  /\ task'[t].todo = task[t].todo /\ task'[t].pc \in {"load", "post"}
         /\ \A u \in Task \ {t} : task'[u] = task[u]
         /\ At(t, "new") /\ UNCHANGED <<rows, events>>
         /\ task'[t].pc = "load" => task'[t].skip = task[t].skip
         /\ task'[t].pc = "post" => \A q \in task'[t].seen : q.id = task'[t].skip
<1> DEFINE k == task[t]
<1>0. k \in TaskRecord /\ At(t, "new") /\ UNCHANGED <<rows, events>>
  BY DEF TypeOK, Skip
<1>1. CASE task' = [task EXCEPT ![t].pc = "load", ![t].job = "rerank"]
  <2> DEFINE r == [k EXCEPT !.pc = "load", !.job = "rerank"]
  <2>1. task' = [task EXCEPT ![t] = r]
    BY <1>1
  <2>2. r.todo = k.todo /\ r.pc = "load" /\ r.skip = k.skip
    BY <1>0 DEF TaskRecord
  <2> HIDE DEF r
  <2> QED
    BY <1>0, <2>1, <2>2, Others
<1>2. ASSUME NEW q \in Lowest(rows),
             task' = [task EXCEPT ![t].pc = "post", ![t].job = "rerank",
                                  ![t].skip = q.id, ![t].seen = {q}]
      PROVE  /\ task'[t].todo = k.todo /\ task'[t].pc = "post"
             /\ \A u \in Task \ {t} : task'[u] = task[u]
             /\ \A p \in task'[t].seen : p.id = task'[t].skip
  <2> DEFINE r == [k EXCEPT !.pc = "post", !.job = "rerank", !.skip = q.id, !.seen = {q}]
  <2>1. task' = [task EXCEPT ![t] = r]
    BY <1>2
  <2>2. r.todo = k.todo /\ r.pc = "post" /\ r.skip = q.id /\ r.seen = {q}
    BY <1>0 DEF TaskRecord
  <2> HIDE DEF r
  <2> QED
    BY <2>1, <2>2, Others
<1> QED
  BY <1>0, <1>1, <1>2 DEF Skip

(* The event of a skip is recorded in the step that lets its rerank go on. *)
LEMMA PostSkipRecords ==
  ASSUME TypeOK, NEW t \in Task, PostSkip(t)
  PROVE  /\ At(t, "post") /\ UNCHANGED rows
         /\ \/ End(t) /\ UNCHANGED events
            \/ /\ task[t].skip \in Ids(rows)
               /\ Keeps(task[t], task'[t]) /\ \A u \in Task \ {t} : task'[u] = task[u]
               /\ \E q \in task[t].seen :
                    events' = events \cup {[by |-> t, row |-> q.id, track |-> q.track]}
<1> DEFINE k == task[t]
           r == [k EXCEPT !.pc = "load", !.seen = {}]
<1>0. k \in TaskRecord /\ At(t, "post") /\ UNCHANGED rows
  BY DEF TypeOK, PostSkip
<1>1. CASE End(t) /\ UNCHANGED events
  BY <1>0, <1>1
<1>2. CASE ~(End(t) /\ UNCHANGED events)
  <2>1. task' = [task EXCEPT ![t] = r] /\ k.skip \in Ids(rows)
    BY <1>2 DEF PostSkip
  <2>2. \E q \in k.seen : events' = events \cup {[by |-> t, row |-> q.id, track |-> q.track]}
    BY <1>2 DEF PostSkip
  <2>3. Keeps(k, r)
    BY <1>0 DEF Keeps, TaskRecord
  <2> HIDE DEF r
  <2> QED
    BY <1>0, <2>1, <2>2, <2>3, Others
<1> QED
  BY <1>1, <1>2

-----------------------------------------------------------------------------
LEMMA BatchesStep ==
  ASSUME PoolInv, NEW t \in Task, \A u \in Task \ {t} : task'[u] = task[u],
         \A i \in DOMAIN task'[t].todo : Unique(task'[t].todo[i]),
         task'[t].pc = "insert" => Unique(task'[t].batch)
  PROVE  BatchesUnique'
BY DEF PoolInv, BatchesUnique, At

LEMMA BatchesKept ==
  ASSUME PoolInv, NEW t \in Task, Request(t) \/ Step(t) \/ Fail(t)
  PROVE  BatchesUnique'
<1>0. TypeOK /\ \A i \in DOMAIN task[t].todo : Unique(task[t].todo[i])
  BY DEF PoolInv, BatchesUnique
<1>1. CASE End(t)
  <2>1. task'[t].todo = <<>> /\ task'[t].pc = "ended"
    BY <1>0, <1>1, EndBlank DEF Blank
  <2>2. DOMAIN <<>> = {}
    OBVIOUS
  <2> QED
    BY <1>0, <1>1, <2>1, <2>2, EndBlank, BatchesStep
<1>2. CASE Keeps(task[t], task'[t]) /\ \A u \in Task \ {t} : task'[u] = task[u]
  BY <1>0, <1>2, BatchesStep DEF Keeps
<1>3. CASE Skip(t)
  BY <1>0, <1>3, SkipStarts, BatchesStep
<1>4. CASE Scan(t)
  BY <1>0, <1>4, ScanLeaves, BatchesStep
<1>5. CASE ReadOverlap(t)
  BY <1>0, <1>1, <1>5, OverlapLeaves, BatchesStep
<1>6. CASE Persist(t)
  <2>1. CASE task'[t].todo = task[t].todo /\ task'[t].pc # "insert"
    BY <1>0, <1>6, <2>1, PersistTakes, BatchesStep
  <2>2. CASE /\ task[t].todo # <<>> /\ task'[t].todo = Tail(task[t].todo)
             /\ task'[t].batch \subseteq Head(task[t].todo)
    <3> DEFINE s == task[t].todo
    <3>1. s \in Seq(SUBSET Candidate) /\ s # <<>>
      BY <1>0, <2>2 DEF TypeOK, TaskRecord
    <3> HIDE DEF s
    <3>2. Head(s) = s[1] /\ 1 \in DOMAIN s
      BY <3>1
    <3>3. \A i \in DOMAIN Tail(s) : i + 1 \in DOMAIN s /\ Tail(s)[i] = s[i + 1]
      BY <3>1
    <3>4. Unique(Head(s)) /\ \A i \in DOMAIN Tail(s) : Unique(Tail(s)[i])
      BY <1>0, <3>2, <3>3 DEF s
    <3>5. Unique(task'[t].batch)
      BY <2>2, <3>4 DEF Unique, s
    <3> QED
      BY <1>0, <1>6, <2>2, <3>4, <3>5, PersistTakes, BatchesStep DEF s
  <2> QED
    BY <1>0, <1>6, <2>1, <2>2, PersistTakes
<1>7. CASE Reads(t) \/ PostSkip(t) \/ Connect(t) \/ Reconnect(t) \/ Join(t) \/ Drift(t)
  BY <1>0, <1>1, <1>2, <1>7, ReadKeeps, PostSkipRecords, RequestKeeps
<1>8. CASE Write(t) \/ Commit(t) \/ DeadlockVictim(t) \/ Fail(t)
  BY <1>1, <1>8 DEF Write, Commit, DeadlockVictim, Fail
<1> QED
  BY <1>3, <1>4, <1>5, <1>6, <1>7, <1>8 DEF Request, Step, Reads

-----------------------------------------------------------------------------
(* Events lose the rows a rerank deletes, and nothing else.                *)
LEMMA DetachedEvents ==
  ASSUME TypeOK, NEW R, NEW e \in Detached(events, R)
  PROVE  \E o \in events : /\ e.by = o.by
                           /\ e.row = IF o.row \in Ids(R) THEN NoRow ELSE o.row
<1>1. PICK o \in events : e = [o EXCEPT !.row = IF @ \in Ids(R) THEN NoRow ELSE @]
  BY DEF Detached
<1>2. o \in [by : Task, row : Nat \cup {NoRow}, track : Track]
  BY DEF TypeOK
<1> QED
  BY <1>1, <1>2

LEMMA DetachedKeepsBy ==
  ASSUME TypeOK, NEW R, NEW o \in events
  PROVE  \E e \in Detached(events, R) : e.by = o.by
<1> DEFINE e == [o EXCEPT !.row = IF @ \in Ids(R) THEN NoRow ELSE @]
<1>1. o \in [by : Task, row : Nat \cup {NoRow}, track : Track]
  BY DEF TypeOK
<1>2. e \in Detached(events, R)
  BY DEF Detached
<1>3. e.by = o.by
  BY <1>1
<1> QED
  BY <1>2, <1>3

Linked == \A e \in events : e.row \in Ids(rows) \cup {NoRow}
Recorded(u) == \E e \in events : e.by = u

LEMMA RowsOutlived ==
  ASSUME EventInv, NEW t \in Task, Request(t) \/ Step(t) \/ Fail(t)
  PROVE  Linked' /\ \A u \in Task : Recorded(u) => Recorded(u)'
<1>0. TypeOK /\ Linked
  BY DEF EventInv, EventsSurvive, Linked
<1>1. CASE UNCHANGED <<rows, events>>
  BY <1>0, <1>1 DEF Linked, Recorded
<1>2. CASE PostSkip(t)
  <2>1. CASE UNCHANGED events
    BY <1>0, <1>1, <1>2, <2>1, PostSkipRecords
  <2>2. CASE events' # events
    <3>1. PICK q \in task[t].seen :
            events' = events \cup {[by |-> t, row |-> q.id, track |-> q.track]}
      BY <1>0, <1>2, <2>2, PostSkipRecords
    <3>2. rows' = rows /\ q.id \in Ids(rows)
      BY <1>0, <1>2, <2>2, <3>1, PostSkipRecords DEF EventInv, SkipRead
    <3> QED
      BY <1>0, <3>1, <3>2 DEF Linked, Recorded
  <2> QED
    BY <2>1, <2>2
<1>3. CASE Write(t)
  <2>1. Ids(rows) \subseteq Ids(rows') /\ events' = events
    BY <1>3 DEF Write, Ids
  <2>2. Ids(rows)' = Ids(rows')
    BY DEF Ids
  <2> QED
    BY <1>0, <2>1, <2>2 DEF Linked, Recorded
<1>4. CASE Commit(t)
  <2> DEFINE R == task[t].seen
  <2>1. events' = Detached(events, R)
    BY <1>4 DEF Commit
  <2>2. {r \in rows : r.id \notin Ids(R)} \subseteq rows'
    BY <1>4 DEF Commit
  <2>3. \A i \in Ids(rows) : i \in Ids(R) \/ i \in Ids(rows)'
    BY <2>2 DEF Ids
  <2> HIDE DEF R
  <2>4. ASSUME NEW e \in events'
        PROVE  e.row \in Ids(rows)' \cup {NoRow}
    <3>1. PICK o \in events : e.row = IF o.row \in Ids(R) THEN NoRow ELSE o.row
      BY <1>0, <2>1, DetachedEvents
    <3> QED
      BY <1>0, <2>3, <3>1 DEF Linked
  <2>5. ASSUME NEW u \in Task, Recorded(u)
        PROVE  Recorded(u)'
    BY <1>0, <2>1, <2>5, DetachedKeepsBy DEF Recorded
  <2> QED
    BY <2>4, <2>5 DEF Linked
<1> QED
  BY <1>1, <1>2, <1>3, <1>4 DEF Request, Step, Fail, Connect, Reconnect, Skip, Join,
    Drift, Load, Scan, Persist, Insert, ReadOverlap, BumpOverlap, Rescore, ReadQueue,
    ReadPool, Delete, DeadlockVictim

(* A rerank that goes on after a skip has its event recorded.              *)
LEMMA SkipsRecorded ==
  ASSUME EventInv, NEW t \in Task, Request(t) \/ Step(t) \/ Fail(t)
  PROVE  /\ SkipRead'
         /\ \A u \in Task : task'[u].skip # NoRow /\ task'[u].pc \notin {"post", "ended"} =>
              Recorded(u)'
<1> DEFINE Read(k) ==
             /\ k.pc = "new" => k.skip = NoRow
             /\ k.pc = "post" => \A q \in k.seen : q.id = k.skip
           Goes(k) == k.skip # NoRow /\ k.pc \notin {"post", "ended"}
<1>0. /\ TypeOK /\ \A u \in Task : Read(task[u])
      /\ \A u \in Task : Goes(task[u]) => Recorded(u)
  BY DEF EventInv, SkipRead, EventsSurvive, Recorded, At
<1>1. \A u \in Task : Recorded(u) => Recorded(u)'
  BY RowsOutlived
<1>2. /\ \A u \in Task \ {t} : task'[u] = task[u]
      /\ Read(task'[t]) /\ (Goes(task'[t]) => Recorded(t)')
  <2>1. CASE End(t)
    <3>1. task'[t].pc = "ended"
      BY <1>0, <2>1, EndBlank DEF Blank
    <3> QED
      BY <1>0, <2>1, <3>1, EndBlank
  <2>2. CASE /\ Todo(task[t], task'[t]) /\ task[t].pc \notin {"post", "ended"}
             /\ \A u \in Task \ {t} : task'[u] = task[u]
    BY <1>0, <1>1, <2>2 DEF Todo
  <2>3. CASE Connect(t) \/ Reconnect(t) \/ Join(t) \/ Drift(t)
    BY <1>0, <2>2, <2>3, RequestKeeps DEF Keeps, Todo, At
  <2>4. CASE Skip(t)
    BY <1>0, <2>4, SkipStarts DEF At
  <2>5. CASE PostSkip(t)
    <3>1. CASE ~End(t)
      <4>1. PICK q \in task[t].seen :
              events' = events \cup {[by |-> t, row |-> q.id, track |-> q.track]}
        BY <1>0, <2>5, <3>1, PostSkipRecords
      <4> DEFINE e == [by |-> t, row |-> q.id, track |-> q.track]
      <4>2. e \in events' /\ e.by = t
        BY <4>1
      <4> HIDE DEF e
      <4>3. Recorded(t)'
        BY <4>2 DEF Recorded
      <4>4. Keeps(task[t], task'[t]) /\ \A u \in Task \ {t} : task'[u] = task[u]
        BY <1>0, <2>5, <3>1, PostSkipRecords
      <4>5. Read(task'[t])
        BY <4>4 DEF Keeps
      <4> QED
        BY <4>3, <4>4, <4>5
    <3> QED
      BY <2>1, <3>1
  <2>6. CASE Reads(t)
    <3>1. task[t].pc # "ended"
      BY <2>6 DEF Reads, Load, BumpOverlap, Rescore, ReadQueue, ReadPool, Delete, Insert, At
    <3> QED
      BY <1>0, <2>1, <2>2, <2>6, <3>1, ReadKeeps DEF Keeps, Todo
  <2>7. CASE Scan(t)
    BY <1>0, <2>2, <2>7, ScanLeaves DEF At
  <2>8. CASE Persist(t)
    BY <1>0, <2>2, <2>8, PersistTakes DEF At
  <2>9. CASE ReadOverlap(t)
    <3>1. task[t].pc = "overlap"
      BY <2>9 DEF ReadOverlap, At
    <3> QED
      BY <1>0, <2>1, <2>2, <2>9, <3>1, OverlapLeaves
  <2>10. CASE Write(t) \/ Commit(t) \/ DeadlockVictim(t) \/ Fail(t)
    BY <2>1, <2>10 DEF Write, Commit, DeadlockVictim, Fail
  <2> QED
    BY <2>3, <2>4, <2>5, <2>6, <2>7, <2>8, <2>9, <2>10 DEF Request, Step, Reads
<1>3. \A u \in Task : Read(task'[u]) /\ (Goes(task'[u]) => Recorded(u)')
  BY <1>0, <1>1, <1>2
<1> QED
  BY <1>3 DEF SkipRead, At

-----------------------------------------------------------------------------
LEMMA InitRecords == Init => OneCandidatePerKey /\ BatchesUnique /\ EventsSurvive /\ SkipRead
<1> SUFFICES ASSUME Init
             PROVE  OneCandidatePerKey /\ BatchesUnique /\ EventsSurvive /\ SkipRead
  OBVIOUS
<1>1. pool = {} /\ events = {} /\ \A t \in Task : task[t] = Blank("new")
  BY DEF Init
<1>2. \A t \in Task : task[t].todo = <<>> /\ task[t].pc = "new" /\ task[t].skip = NoRow
  BY <1>1 DEF Blank
<1>3. DOMAIN <<>> = {}
  OBVIOUS
<1>4. OneCandidatePerKey /\ BatchesUnique
  BY <1>1, <1>2, <1>3 DEF OneCandidatePerKey, BatchesUnique, At
<1>5. EventsSurvive /\ SkipRead
  BY <1>1, <1>2 DEF EventsSurvive, SkipRead, At
<1> QED
  BY <1>4, <1>5

(* uq_candidate_participant_track and the lookups before it: however many  *)
(* builds, merges and drifts overlap, a participant never has two          *)
(* candidates of one track.                                                *)
THEOREM OneCandidateEach == Spec => []OneCandidatePerKey
<1> DEFINE Kept == OneCandidatePerKey /\ BatchesUnique
<1>1. Init => Kept
  BY InitRecords
<1>2. TypeOK /\ Kept /\ [Next]_vars => Kept'
  <2> SUFFICES ASSUME PoolInv, [Next]_vars PROVE Kept'
    BY DEF PoolInv
  <2>1. CASE UNCHANGED vars
    BY <2>1 DEF PoolInv, OneCandidatePerKey, BatchesUnique, At, vars
  <2>2. ASSUME NEW t \in Task, Request(t) \/ Step(t) \/ Fail(t) PROVE Kept'
    BY <2>2, PoolKept, BatchesKept
  <2> QED
    BY <2>1, <2>2 DEF Next, Quiet
<1>3. Kept => OneCandidatePerKey
  OBVIOUS
<1> HIDE DEF Kept
<1> QED
  BY <1>1, <1>2, <1>3, TypeCorrect, PTL DEF Spec

(* ON DELETE SET NULL: whatever reranks delete while skips are recorded,   *)
(* the events outlive the rows, and no rerank goes on after a skip that    *)
(* left no event.                                                          *)
THEOREM SkipsOutliveRows == Spec => []EventsSurvive
<1> DEFINE Kept == EventsSurvive /\ SkipRead
<1>1. Init => Kept
  BY InitRecords
<1>2. TypeOK /\ Kept /\ [Next]_vars => Kept'
  <2> SUFFICES ASSUME EventInv, [Next]_vars PROVE Kept'
    BY DEF EventInv
  <2>1. CASE UNCHANGED vars
    BY <2>1 DEF EventInv, EventsSurvive, SkipRead, At, Ids, vars
  <2>2. ASSUME NEW t \in Task, Request(t) \/ Step(t) \/ Fail(t) PROVE Kept'
    BY <2>2, RowsOutlived, SkipsRecorded DEF EventsSurvive, Linked, Recorded
  <2> QED
    BY <2>1, <2>2 DEF Next, Quiet
<1>3. Kept => EventsSurvive
  OBVIOUS
<1> HIDE DEF Kept
<1> QED
  BY <1>1, <1>2, <1>3, TypeCorrect, PTL DEF Spec

-----------------------------------------------------------------------------
(* What one rerank that nobody disturbed puts in the place of the queue.   *)

(* A rerank that saw every row replaces them all.                          *)
LEMMA RerankReplaces ==
  ASSUME IInv, [Next]_vars, NEW t \in Task, Undisturbed(t), Moved(t)
  PROVE  \E c \in CurrentSeen(t) : \E ranked \in Rankings(Eligible(t, c)) :
           rows' = RowsFrom(Rebuilt(t, c, ranked), nextId)
<1>1. /\ task \in [Task -> TaskRecord] /\ task[t].pc = "commit" /\ task[t].seen = rows
      /\ task'[t] # task[t] /\ rows' # rows
  BY DEF IInv, TasksOK, Undisturbed, Moved, At
<1>2. PICK u \in Task : Write(u) \/ Commit(u)
  <2>1. PICK u \in Task : Request(u) \/ Step(u) \/ Fail(u)
    BY <1>1 DEF Next, Quiet, vars
  <2> QED
    BY <1>1, <2>1 DEF Request, Connect, Reconnect, Skip, Join, Drift, Step, PostSkip, Load,
      Scan, Persist, Insert, ReadOverlap, BumpOverlap, Rescore, ReadQueue, ReadPool, Delete,
      DeadlockVictim, Fail
<1>3. End(u)
  BY <1>2 DEF Write, Commit
<1>4. u = t
  BY <1>1, <1>3 DEF End
<1>5. Commit(t)
  BY <1>1, <1>2, <1>4 DEF Write, At
<1>6. PICK c \in CurrentSeen(t) : \E ranked \in Rankings(Eligible(t, c)) :
        rows' = {r \in rows : r.id \notin Ids(task[t].seen)}
                  \cup RowsFrom(Rebuilt(t, c, ranked), nextId)
  BY <1>5 DEF Commit
<1>7. {r \in rows : r.id \notin Ids(task[t].seen)} = {}
  BY <1>1 DEF Ids
<1> QED
  BY <1>6, <1>7

(* The current track comes first unless it is skipped, and no track of its *)
(* song follows.                                                           *)
LEMMA RebuiltSongs ==
  ASSUME IInv, NEW t \in Task, NEW c \in CurrentSeen(t), c # NoRow,
         NEW ranked \in Rankings(Eligible(t, c))
  PROVE  LET s == Rebuilt(t, c, ranked)
         IN  /\ s \in Seq(Track) /\ Len(s) <= Size
             /\ Protected(t, c) => Len(s) > 0 /\ s[1] = c.track
             /\ \A i \in 1..Len(s) : Song[s[i]] = Song[c.track] => Protected(t, c) /\ i = 1
<1> DEFINE E == Eligible(t, c)
           n == Cardinality(E)
           m == Taken(t, c)
           head == IF Protected(t, c) THEN <<c.track>> ELSE <<>>
           tail == [i \in 1..m |-> ranked[i].track]
           s == Rebuilt(t, c, ranked)
<1>1. task[t].cands \subseteq Candidate /\ IsFiniteSet(task[t].cands) /\ task[t].seen \subseteq Row
  BY RecordFields DEF IInv, TasksOK, GoodRecord
<1>2. E \subseteq Candidate /\ IsFiniteSet(E)
  BY <1>1, FS_Subset DEF Eligible
<1>3. n \in Nat /\ ranked \in [1..n -> E]
  BY <1>2, RankingType
<1>4. Size \in Nat \ {0} /\ Base(t, c) \in {0, 1}
  BY DataAssumption DEF DataAssumption, Base
<1>5. m \in Nat /\ m <= n /\ Base(t, c) + m <= Size
  BY <1>3, <1>4 DEF Taken
<1>6. c \in Row
  BY <1>1 DEF CurrentSeen, Lowest, CurrentsOf
<1>7. ASSUME NEW i \in 1..m
      PROVE  tail[i] \in Track /\ Song[tail[i]] # Song[c.track]
  <2>1. i \in 1..n
    BY <1>3, <1>5
  <2>2. ranked[i] \in E
    BY <1>3, <2>1
  <2>3. Song[ranked[i].track] # Song[c.track]
    BY <2>2 DEF Eligible
  <2>4. ranked[i].track \in Track
    BY <1>2, <2>2 DEF Candidate
  <2> QED
    BY <2>3, <2>4
<1>8. tail \in Seq(Track) /\ Len(tail) = m
  BY <1>5, <1>7
<1>9. c.track \in Track
  BY <1>6 DEF Row
<1>10. s = head \o tail
  BY DEF Rebuilt
<1> HIDE DEF tail, s, m, E
<1>11. CASE Protected(t, c)
  <2>1. head = <<c.track>> /\ head \in Seq(Track) /\ Len(head) = 1 /\ head[1] = c.track
        /\ Base(t, c) = 1
    BY <1>9, <1>11 DEF Base
  <2> HIDE DEF head
  <2>2. s \in Seq(Track) /\ Len(s) = 1 + m /\ s[1] = c.track
    BY <1>5, <1>8, <1>10, <2>1
  <2>3. ASSUME NEW i \in 1..Len(s), i # 1
        PROVE  Song[s[i]] # Song[c.track]
    <3>1. i - 1 \in 1..m
      BY <1>5, <2>2, <2>3
    <3>2. s[i] = tail[i - 1]
      BY <1>8, <1>10, <2>1, <2>3, <3>1
    <3> QED
      BY <1>7, <3>1, <3>2
  <2> QED
    BY <1>4, <1>5, <1>11, <2>1, <2>2, <2>3 DEF s
<1>12. CASE ~Protected(t, c)
  <2>1. head = <<>> /\ Base(t, c) = 0
    BY <1>12 DEF Base
  <2>2. s = tail
    BY <1>8, <1>10, <2>1
  <2> QED
    BY <1>4, <1>5, <1>7, <1>8, <1>12, <2>1, <2>2 DEF s
<1> QED
  BY <1>11, <1>12

(* The only current row is the one a rerank that saw every row protects or *)
(* skips.                                                                  *)
LEMMA OnlyCurrentSeen ==
  ASSUME IInv, NEW t \in Task, task[t].seen = rows, NEW c, CurrentsOf(rows) = {c}
  PROVE  CurrentSeen(t) = {c} /\ c \in Row /\ c # NoRow
<1>1. c \in Row
  BY DEF IInv, SharedOK, CurrentsOf
<1>2. c.pos <= c.pos
  BY <1>1 DEF Row
<1>3. Lowest({c}) = {c}
  BY <1>2 DEF Lowest
<1> QED
  BY <1>1, <1>3, TaskAssumption DEF CurrentSeen, TaskAssumption

LEMMA RerankedRows ==
  ASSUME IInv, [Next]_vars, NEW t \in Task, Undisturbed(t), Moved(t),
         NEW c \in rows, CurrentsOf(rows) = {c}
  PROVE  /\ c.id # task[t].skip =>
              \E r \in rows' : /\ r.current /\ r.pos = 0 /\ r.track = c.track
                               /\ \A q \in rows' : Song[q.track] = Song[c.track] => q = r
                               /\ \A q \in rows' : q.pos < Size
         /\ c.id = task[t].skip =>
              \A r \in rows' : Song[r.track] # Song[c.track]
<1>1. CurrentSeen(t) = {c} /\ c # NoRow
  BY OnlyCurrentSeen DEF Undisturbed
<1>2. PICK ranked \in Rankings(Eligible(t, c)) :
        rows' = RowsFrom(Rebuilt(t, c, ranked), nextId)
  BY <1>1, RerankReplaces
<1> DEFINE s == Rebuilt(t, c, ranked)
           Rec(i) == [id |-> nextId + i - 1, track |-> s[i], pos |-> i - 1, current |-> i = 1]
<1>3. /\ s \in Seq(Track) /\ Len(s) \in Nat /\ Len(s) <= Size
      /\ Protected(t, c) => Len(s) > 0 /\ s[1] = c.track
      /\ \A i \in 1..Len(s) : Song[s[i]] = Song[c.track] => Protected(t, c) /\ i = 1
  BY <1>1, RebuiltSongs
<1>4. rows' = {Rec(i) : i \in 1..Len(s)}
  BY <1>2 DEF RowsFrom
<1>5. Protected(t, c) <=> c.id # task[t].skip
  BY <1>1 DEF Protected
<1>6. \A i : Rec(i).track = s[i] /\ Rec(i).pos = i - 1 /\ Rec(i).current = (i = 1)
  OBVIOUS
<1> HIDE DEF s, Rec
<1>7. ASSUME c.id # task[t].skip
      PROVE  \E r \in rows' : /\ r.current /\ r.pos = 0 /\ r.track = c.track
                              /\ \A q \in rows' : Song[q.track] = Song[c.track] => q = r
                              /\ \A q \in rows' : q.pos < Size
  <2>1. 1 \in 1..Len(s)
    BY <1>3, <1>5, <1>7
  <2>2. Rec(1) \in rows' /\ Rec(1).pos = 0 /\ Rec(1).track = c.track
    BY <1>3, <1>4, <1>5, <1>6, <1>7, <2>1
  <2>3. Rec(1).current
    BY <1>6, Zenon
  <2>4. ASSUME NEW q \in rows'
        PROVE  q.pos < Size /\ (Song[q.track] = Song[c.track] => q = Rec(1))
    <3>1. PICK i \in 1..Len(s) : q = Rec(i)
      BY <1>4
    <3>2. q.pos = i - 1 /\ q.track = s[i]
      BY <1>6, <3>1
    <3>3. Song[q.track] = Song[c.track] => i = 1
      BY <1>3, <3>2
    <3>4. i - 1 < Size
      BY <1>3, DataAssumption DEF DataAssumption
    <3> QED
      BY <3>1, <3>2, <3>3, <3>4
  <2> QED
    BY <2>2, <2>3, <2>4
<1>8. ASSUME c.id = task[t].skip, NEW r \in rows'
      PROVE  Song[r.track] # Song[c.track]
  <2>1. PICK i \in 1..Len(s) : r = Rec(i)
    BY <1>4
  <2> QED
    BY <1>3, <1>5, <1>6, <1>8, <2>1
<1> QED
  BY <1>7, <1>8

(* Whatever tasks overlapped before: a rerank that saw the queue as it is  *)
(* when it commits keeps the track that plays, at position 0 and once, and *)
(* stays within the target size.                                           *)
THEOREM CurrentTrackKept == Spec => CurrentKept
<1>1. IInv /\ [Next]_vars =>
        [\A t \in Task : Undisturbed(t) /\ Moved(t) =>
           \A c \in rows : CurrentsOf(rows) = {c} /\ c.id # task[t].skip =>
             \E r \in rows' : /\ r.current /\ r.pos = 0 /\ r.track = c.track
                              /\ \A q \in rows' : Song[q.track] = Song[c.track] => q = r
                              /\ \A q \in rows' : q.pos < Size]_vars
  BY RerankedRows
<1> QED
  BY <1>1, Inductive, PTL DEF Spec, CurrentKept

(* And when that track is the one being skipped, no copy of its song is in *)
(* the queue that the rerank leaves.                                       *)
THEOREM SkippedSongGone == Spec => SkippedGone
<1>1. IInv /\ [Next]_vars =>
        [\A t \in Task : Undisturbed(t) /\ Moved(t) =>
           \A c \in rows : CurrentsOf(rows) = {c} /\ c.id = task[t].skip =>
             \A r \in rows' : Song[r.track] # Song[c.track]]_vars
  BY RerankedRows
<1> QED
  BY <1>1, Inductive, PTL DEF Spec, SkippedGone

-----------------------------------------------------------------------------
(* Who waits for whom.                                                     *)

(* There is one sweep, so one drift; and a task has a job while it is      *)
(* under way.                                                              *)
OneDrift == \A t, u \in Task : task[t].job = "drift" /\ task[u].job = "drift" => t = u
JobsActive == \A t \in Task : task[t].job = "drift" => Active(t)
LockInv == TypeOK /\ OneDrift /\ JobsActive

(* A step of t makes it a drift only where the sweep begins one.           *)
JobKept(t) ==
  /\ \A u \in Task \ {t} : task'[u] = task[u]
  /\ task'[t].job = "drift" => /\ task'[t].pc \notin {"new", "ended"}
                               /\ task[t].job = "drift" \/ Drift(t)

LEMMA JobMoves ==
  ASSUME TypeOK, NEW t \in Task, NEW r, task' = [task EXCEPT ![t] = r],
         r.pc \notin {"new", "ended"}, r.job = "drift" => task[t].job = "drift" \/ Drift(t)
  PROVE  JobKept(t)
BY Others DEF JobKept

LEMMA JobEnds ==
  ASSUME TypeOK, NEW t \in Task, End(t)
  PROVE  JobKept(t)
BY EndBlank DEF JobKept, Blank

LEMMA RequestJob ==
  ASSUME TypeOK, NEW t \in Task, Request(t)
  PROVE  JobKept(t)
<1> DEFINE k == task[t]
<1>0. k \in TaskRecord
  BY DEF TypeOK
<1>3. CASE Connect(t)
  <2> DEFINE r == [k EXCEPT !.pc = "load", !.job = "build"]
  <2>1. task' = [task EXCEPT ![t] = r]
    BY <1>3 DEF Connect
  <2>2. r.pc = "load" /\ r.job = "build"
    BY <1>0 DEF TaskRecord
  <2> HIDE DEF r
  <2> QED
    BY <2>1, <2>2, JobMoves
<1>4. CASE Reconnect(t)
  <2> DEFINE r == [k EXCEPT !.pc = "load", !.job = "rerank"]
  <2>1. task' = [task EXCEPT ![t] = r]
    BY <1>4 DEF Reconnect
  <2>2. r.pc = "load" /\ r.job = "rerank"
    BY <1>0 DEF TaskRecord
  <2> HIDE DEF r
  <2> QED
    BY <2>1, <2>2, JobMoves
<1>5. CASE Drift(t)
  <2> DEFINE r == [k EXCEPT !.pc = "load", !.job = "drift"]
  <2>1. task' = [task EXCEPT ![t] = r]
    BY <1>5 DEF Drift
  <2>2. r.pc = "load" /\ r.job = "drift"
    BY <1>0 DEF TaskRecord
  <2> HIDE DEF r
  <2> QED
    BY <1>5, <2>1, <2>2, JobMoves
<1>6. CASE Join(t)
  <2>1. PICK m \in Member \ members :
          task' = [task EXCEPT ![t].pc = "load", ![t].job = "join", ![t].member = m]
    BY <1>6 DEF Join
  <2> DEFINE r == [k EXCEPT !.pc = "load", !.job = "join", !.member = m]
  <2>2. task' = [task EXCEPT ![t] = r]
    BY <2>1
  <2>3. r.pc = "load" /\ r.job = "join"
    BY <1>0 DEF TaskRecord
  <2> HIDE DEF r
  <2> QED
    BY <2>2, <2>3, JobMoves
<1>7. CASE Skip(t)
  <2>1. CASE task' = [task EXCEPT ![t].pc = "load", ![t].job = "rerank"]
    <3> DEFINE r == [k EXCEPT !.pc = "load", !.job = "rerank"]
    <3>1. task' = [task EXCEPT ![t] = r]
      BY <2>1
    <3>2. r.pc = "load" /\ r.job = "rerank"
      BY <1>0 DEF TaskRecord
    <3> HIDE DEF r
    <3> QED
      BY <3>1, <3>2, JobMoves
  <2>2. ASSUME NEW q, task' = [task EXCEPT ![t].pc = "post", ![t].job = "rerank",
                                           ![t].skip = q.id, ![t].seen = {q}]
        PROVE  JobKept(t)
    <3> DEFINE r == [k EXCEPT !.pc = "post", !.job = "rerank", !.skip = q.id, !.seen = {q}]
    <3>1. task' = [task EXCEPT ![t] = r]
      BY <2>2
    <3>2. r.pc = "post" /\ r.job = "rerank"
      BY <1>0 DEF TaskRecord
    <3> HIDE DEF r
    <3> QED
      BY <3>1, <3>2, JobMoves
  <2> QED
    BY <1>7, <2>1, <2>2 DEF Skip
<1> QED
  BY <1>3, <1>4, <1>5, <1>6, <1>7 DEF Request

(* What changes neither the job nor whether the task is under way.         *)
LEMMA JobStays ==
  ASSUME TypeOK, NEW t \in Task, NEW r, task' = [task EXCEPT ![t] = r],
         r.pc \notin {"new", "ended"}, r.job = task[t].job
  PROVE  JobKept(t)
BY JobMoves

LEMMA StepJob ==
  ASSUME TypeOK, NEW t \in Task, Step(t) \/ Fail(t)
  PROVE  JobKept(t)
<1> DEFINE k == task[t]
<1>0. k \in TaskRecord
  BY DEF TypeOK
<1>1. CASE End(t)
  BY <1>1, JobEnds
<1>2. CASE ~End(t) /\ PostSkip(t)
  <2> DEFINE r == [k EXCEPT !.pc = "load", !.seen = {}]
  <2>1. task' = [task EXCEPT ![t] = r]
    BY <1>2 DEF PostSkip
  <2>2. r.pc = "load" /\ r.job = k.job
    BY <1>0 DEF TaskRecord
  <2> HIDE DEF r
  <2> QED
    BY <2>1, <2>2, JobStays
<1>3. CASE ~End(t) /\ Load(t)
  <2> DEFINE building == k.job = "build" \/ (k.job = "join" /\ pool = {})
             next == CASE building         -> "scan"
                       [] k.job = "join"   -> "overlap"
                       [] k.job = "rerank" -> "readQueue"
                       [] OTHER            -> "rescore"
             job == IF building THEN "build" ELSE k.job
             r == [k EXCEPT !.pc = next, !.view = sess, !.job = job]
  <2>1. task' = [task EXCEPT ![t] = r]
    BY <1>3 DEF Load
  <2>2. next \in {"scan", "overlap", "readQueue", "rescore"} /\ job \in {"build", k.job}
    OBVIOUS
  <2> HIDE DEF next, job
  <2>3. r.pc = next /\ r.job = job
    BY <1>0 DEF TaskRecord
  <2> HIDE DEF r
  <2>4. r.pc \notin {"new", "ended"} /\ (r.job = "drift" => k.job = "drift")
    BY <2>2, <2>3
  <2> QED
    BY <2>1, <2>4, JobMoves
<1>4. CASE Scan(t)
  <2>1. CASE task' = [task EXCEPT ![t].pc = "readQueue", ![t].job = "rerank"]
    <3> DEFINE r == [k EXCEPT !.pc = "readQueue", !.job = "rerank"]
    <3>1. task' = [task EXCEPT ![t] = r]
      BY <2>1
    <3>2. r.pc = "readQueue" /\ r.job = "rerank"
      BY <1>0 DEF TaskRecord
    <3> HIDE DEF r
    <3> QED
      BY <3>1, <3>2, JobMoves
  <2>2. ASSUME NEW M, NEW D, NEW X, NEW ranked, NEW order, ScanInto(t, M, D, X, ranked, order)
        PROVE  JobKept(t)
    <3> DEFINE dna == k.view.dna
               scans == [i \in DOMAIN order |-> Scored(order[i], Library[order[i]], dna, M)]
               todo == Append(scans, Scored(Host, X, dna, M))
               plan == [i \in DOMAIN ranked |-> HostTrack[ranked[i].track]]
               r == [k EXCEPT !.pc = "persist", !.threshold = LadderStop(D),
                              !.plan = plan, !.todo = todo]
    <3>1. task' = [task EXCEPT ![t] = r]
      BY <2>2 DEF ScanInto
    <3> HIDE DEF todo, plan
    <3>2. r.pc = "persist" /\ r.job = k.job
      BY <1>0 DEF TaskRecord
    <3> HIDE DEF r
    <3> QED
      BY <3>1, <3>2, JobStays
  <2>3. CASE \E M \in SUBSET members : \E D, X, ranked :
               \E order \in SetToSeqs(M) : ScanInto(t, M, D, X, ranked, order)
    BY <2>2, <2>3
  <2> QED
    BY <1>4, <2>1, <2>3 DEF Scan
<1>5. CASE Persist(t)
  <2>1. CASE Goto(t, IF k.job = "join" THEN "readQueue" ELSE "write")
    <3> DEFINE pc == IF k.job = "join" THEN "readQueue" ELSE "write"
               r == [k EXCEPT !.pc = pc]
    <3>1. task' = [task EXCEPT ![t] = r]
      BY <2>1 DEF Goto
    <3>2. pc \notin {"new", "ended"}
      OBVIOUS
    <3> HIDE DEF pc
    <3>3. r.pc = pc /\ r.job = k.job
      BY <1>0 DEF TaskRecord
    <3> HIDE DEF r
    <3> QED
      BY <3>1, <3>2, <3>3, JobStays
  <2>2. CASE ~Goto(t, IF k.job = "join" THEN "readQueue" ELSE "write")
    <3> DEFINE B == {c \in Head(k.todo) : \A d \in pool : ~SameKey(c, d)}
               pc == IF Head(k.todo) = {} THEN "persist" ELSE "insert"
               r == [k EXCEPT !.todo = Tail(@), !.batch = B, !.pc = pc]
    <3>1. task' = [task EXCEPT ![t] = r]
      BY <1>5, <2>2 DEF Persist
    <3>2. pc \notin {"new", "ended"}
      OBVIOUS
    <3> HIDE DEF pc, B
    <3>3. r.pc = pc /\ r.job = k.job
      BY <1>0 DEF TaskRecord
    <3> HIDE DEF r
    <3> QED
      BY <3>1, <3>2, <3>3, JobStays
  <2> QED
    BY <2>1, <2>2
<1>6. CASE ~End(t) /\ ReadOverlap(t)
  <2> DEFINE m == k.member
             pc == IF Library[m] = {} THEN "persist" ELSE "bump"
             scan == Scored(m, Library[m], k.view.dna, {m})
             r == [k EXCEPT !.pc = pc, !.cands = pool, !.todo = <<scan>>]
  <2>1. task' = [task EXCEPT ![t] = r]
    BY <1>6 DEF ReadOverlap
  <2>2. pc \notin {"new", "ended"}
    OBVIOUS
  <2> HIDE DEF pc, scan
  <2>3. r.pc = pc /\ r.job = k.job
    BY <1>0 DEF TaskRecord
  <2> HIDE DEF r
  <2> QED
    BY <2>1, <2>2, <2>3, JobStays
<1>7. CASE BumpOverlap(t)
  <2> DEFINE r == [k EXCEPT !.pc = "persist", !.cands = {}]
  <2>1. task' = [task EXCEPT ![t] = r]
    BY <1>7 DEF BumpOverlap
  <2>2. r.pc = "persist" /\ r.job = k.job
    BY <1>0 DEF TaskRecord
  <2> HIDE DEF r
  <2> QED
    BY <2>1, <2>2, JobStays
<1>8. CASE Rescore(t)
  <2> DEFINE new == {[c EXCEPT !.score = Score[k.view.dna + 1][c.track]] : c \in pool}
             r == [k EXCEPT !.pc = "readQueue", !.cands = new]
  <2>1. task' = [task EXCEPT ![t] = r]
    BY <1>8 DEF Rescore
  <2> HIDE DEF new
  <2>2. r.pc = "readQueue" /\ r.job = k.job
    BY <1>0 DEF TaskRecord
  <2> HIDE DEF r
  <2> QED
    BY <2>1, <2>2, JobStays
<1>9. CASE ReadQueue(t)
  <2> DEFINE r == [k EXCEPT !.pc = "readPool", !.seen = rows]
  <2>1. task' = [task EXCEPT ![t] = r]
    BY <1>9 DEF ReadQueue
  <2>2. r.pc = "readPool" /\ r.job = k.job
    BY <1>0 DEF TaskRecord
  <2> HIDE DEF r
  <2> QED
    BY <2>1, <2>2, JobStays
<1>10. CASE ReadPool(t)
  <2> DEFINE hits == Passing(Visible(t), ThresholdOr(k.view.threshold))
             r == [k EXCEPT !.pc = "delete", !.batch = k.cands, !.cands = hits]
  <2>1. task' = [task EXCEPT ![t] = r]
    BY <1>10 DEF ReadPool
  <2> HIDE DEF hits
  <2>2. r.pc = "delete" /\ r.job = k.job
    BY <1>0 DEF TaskRecord
  <2> HIDE DEF r
  <2> QED
    BY <2>1, <2>2, JobStays
<1>11. CASE Delete(t)
  <2> DEFINE r == [k EXCEPT !.pc = "commit"]
  <2>1. task' = [task EXCEPT ![t] = r]
    BY <1>11 DEF Delete, Goto
  <2>2. r.pc = "commit" /\ r.job = k.job
    BY <1>0 DEF TaskRecord
  <2> HIDE DEF r
  <2> QED
    BY <2>1, <2>2, JobStays
<1>12. CASE ~End(t) /\ Insert(t)
  <2> DEFINE r == [k EXCEPT !.pc = "persist", !.batch = {}]
  <2>1. task' = [task EXCEPT ![t] = r]
    BY <1>12 DEF Insert
  <2>2. r.pc = "persist" /\ r.job = k.job
    BY <1>0 DEF TaskRecord
  <2> HIDE DEF r
  <2> QED
    BY <2>1, <2>2, JobStays
<1>13. CASE Write(t) \/ Commit(t) \/ DeadlockVictim(t) \/ Fail(t)
  BY <1>1, <1>13 DEF Write, Commit, DeadlockVictim, Fail
<1> QED
  BY <1>1, <1>2, <1>3, <1>4, <1>5, <1>6, <1>7, <1>8, <1>9, <1>10, <1>11, <1>12, <1>13 DEF Step

LEMMA LocksKept == LockInv /\ TypeOK' /\ [Next]_vars => LockInv'
<1> SUFFICES ASSUME LockInv, TypeOK', [Next]_vars PROVE OneDrift' /\ JobsActive'
  BY DEF LockInv
<1>1. ASSUME NEW t \in Task, Request(t) \/ Step(t) \/ Fail(t)
      PROVE  OneDrift' /\ JobsActive'
  <2>1. JobKept(t)
    BY <1>1, RequestJob, StepJob DEF LockInv
  <2>2. JobsActive'
    BY <2>1 DEF LockInv, JobsActive, JobKept, Active
  <2>3. Drift(t) => \A u \in Task : task[u].job # "drift"
    BY DEF Drift, LockInv, JobsActive
  <2>4. OneDrift'
    BY <2>1, <2>3 DEF LockInv, OneDrift, JobKept
  <2> QED
    BY <2>2, <2>4
<1>2. CASE Quiet \/ UNCHANGED vars
  BY <1>2 DEF Quiet, vars, LockInv, OneDrift, JobsActive, Active
<1> QED
  BY <1>1, <1>2 DEF Next

LEMMA InitLocks == Init => OneDrift /\ JobsActive
BY DEF Init, OneDrift, JobsActive, Blank

(* A task waits for a commit under way or for the drift; the drift waits   *)
(* only for other commits, and a commit only for the drift.                *)
LEMMA WaitedFor ==
  ASSUME LockInv, NEW t \in Task, NEW u \in Task, WaitsFor(t, u)
  PROVE  /\ Active(u) /\ (At(u, "commit") \/ task[u].job = "drift")
         /\ task[t].job = "drift" => At(u, "commit") /\ task[u].job # "drift"
         /\ At(t, "commit") => task[u].job = "drift"
<1>1. t # u
  BY DEF WaitsFor
<1>2. CASE (At(t, "delete") \/ At(t, "post")) /\ LockedRows(u) # {}
  <2>1. At(u, "commit")
    BY <1>2 DEF LockedRows
  <2>2. Active(u) /\ ~At(t, "commit")
    BY <1>2, <2>1 DEF Active, At
  <2> QED
    BY <1>1, <2>1, <2>2 DEF LockInv, OneDrift
<1>3. CASE (At(t, "bump") \/ UpdatesSession(t)) /\ task[u].job = "drift"
  <2>1. Active(u)
    BY <1>3 DEF LockInv, JobsActive
  <2>2. task[t].job # "drift"
    BY <1>1, <1>3 DEF LockInv, OneDrift
  <2> QED
    BY <1>3, <2>1, <2>2
<1> QED
  BY <1>2, <1>3 DEF WaitsFor, LocksPool, LocksSession

LEMMA WaitsAreShort == LockInv => WaitsEnd
<1> SUFFICES ASSUME LockInv PROVE WaitsEnd
  OBVIOUS
<1> DEFINE C == Circling
           C1 == After(C)
           C2 == After(C1)
           C3 == After(C2)
<1>1. ASSUME NEW v \in Task, NEW w \in Task, task[v].job = "drift", WaitsFor(v, w)
      PROVE  w \in C1
  <2>1. Active(w) /\ At(w, "commit")
    BY <1>1, WaitedFor
  <2>2. ASSUME NEW x \in Task, WaitsFor(w, x)
        PROVE  w \in C
    <3>1. x = v
      BY <1>1, <2>1, <2>2, WaitedFor DEF LockInv, OneDrift
    <3> QED
      BY <1>1, <2>2, <3>1 DEF Circling
  <2> QED
    BY <2>1, <2>2 DEF After
<1>2. ASSUME NEW v \in Task, task[v].job = "drift"
      PROVE  v \in C2 /\ v \in C3
  <2>1. Active(v)
    BY <1>2 DEF LockInv, JobsActive
  <2>2. v \in C2
    BY <1>1, <1>2, <2>1 DEF After
  <2> QED
    BY <2>1, <2>2 DEF After
<1>3. ASSUME NEW u \in Task, At(u, "commit")
      PROVE  u \in C3
  <2>1. Active(u)
    BY <1>3 DEF Active, At
  <2>2. \A x \in Task : WaitsFor(u, x) => x \in C2
    BY <1>2, <1>3, WaitedFor
  <2> QED
    BY <2>1, <2>2 DEF After
<1>4. ASSUME NEW t \in Task, Active(t)
      PROVE  t \in After(C3)
  <2>1. \A u \in Task : WaitsFor(t, u) => u \in C3
    BY <1>2, <1>3, WaitedFor
  <2> QED
    BY <1>4, <2>1 DEF After
<1> QED
  BY <1>4 DEF WaitsEnd

(* Whatever requests and sweeps overlap, and however many: every wait for  *)
(* a lock leads to a task that goes on.  Only the sweep locks the session  *)
(* while it waits for rows, and there is one sweep.                        *)
THEOREM NoneWaitsForever == Spec => []WaitsEnd
<1>1. Init => OneDrift /\ JobsActive
  BY InitLocks
<1>2. TypeOK /\ OneDrift /\ JobsActive /\ TypeOK' /\ [Next]_vars => OneDrift' /\ JobsActive'
  BY LocksKept DEF LockInv
<1>3. TypeOK /\ OneDrift /\ JobsActive => WaitsEnd
  BY WaitsAreShort DEF LockInv
<1> QED
  BY <1>1, <1>2, <1>3, TypeCorrect, PTL DEF Spec
=============================================================================
