------------------------ MODULE NativePlaybackProofs ------------------------
(***************************************************************************)
(* Proofs about NativePlayback for any tasks, tracks and bounds.           *)
(***************************************************************************)
EXTENDS NativePlayback, SequenceTheorems, TLAPS

-----------------------------------------------------------------------------
(* Facts about bounded sequences and stored queues.                        *)

LEMMA BoundedSeqMembers ==
  ASSUME NEW S, NEW n \in Nat
  PROVE  \A s : s \in BoundedSeq(S, n) <=> s \in Seq(S) /\ Len(s) <= n
<1> TAKE s
<1>1. ASSUME s \in BoundedSeq(S, n)  PROVE s \in Seq(S) /\ Len(s) <= n
  <2>1. PICK m \in 0..n : s \in [1..m -> S]  BY <1>1 DEF BoundedSeq, SeqOf
  <2> QED  BY <2>1
<1>2. ASSUME s \in Seq(S), Len(s) <= n  PROVE s \in BoundedSeq(S, n)
  <2>1. Len(s) \in 0..n /\ s \in [1..Len(s) -> S]  BY <1>2
  <2> QED  BY <2>1 DEF BoundedSeq, SeqOf
<1> QED  BY <1>1, <1>2

LEMMA QueueTail ==
  ASSUME NEW q \in Queues, q # <<>>
  PROVE  Head(q) \in Track /\ Tail(q) \in Queues
<1>1. q \in Seq(Track) /\ Len(q) <= MaxQueue /\ IsInjective(q)
  BY BoundedSeqMembers, PlaybackAssumption DEF Queues, PlaybackAssumption
<1>2. Tail(q) \in Seq(Track) /\ Len(Tail(q)) <= MaxQueue
  BY <1>1, PlaybackAssumption DEF PlaybackAssumption
<1>3. IsInjective(Tail(q))
  <2>1. \A i \in 1..Len(Tail(q)) : Tail(q)[i] = q[i+1] /\ i+1 \in 1..Len(q)
    BY <1>1
  <2> QED  BY <1>1, <1>2, <2>1 DEF IsInjective
<1>4. Head(q) \in Track  BY <1>1
<1> QED
  BY <1>2, <1>3, <1>4, BoundedSeqMembers, PlaybackAssumption
  DEF Queues, PlaybackAssumption

LEMMA EmptyBounded == \A n \in Nat : <<>> \in BoundedSeq(Track, n)
<1> TAKE n \in Nat
<1>1. <<>> \in Seq(Track) /\ Len(<<>>) <= n  OBVIOUS
<1> QED  BY <1>1, BoundedSeqMembers

LEMMA EmptyQueue == <<>> \in Queues
<1>1. <<>> \in BoundedSeq(Track, MaxQueue)
  BY EmptyBounded, PlaybackAssumption DEF PlaybackAssumption
<1> QED  BY <1>1 DEF Queues, IsInjective

LEMMA CurrentType ==
  ASSUME NEW q \in Queues
  PROVE  /\ Current(q) \in Track \cup {Nothing}
         /\ Rest(q) \in Queues
         /\ q # <<>> => Current(q) # Nothing
  BY QueueTail, EmptyQueue, PlaybackAssumption DEF Current, Rest, PlaybackAssumption

-----------------------------------------------------------------------------
(* The inductive invariant.                                                *)

(* While a task runs alone no other task is under way.                     *)
Apart ==
  \A t, u \in Task : t # u /\ Active(t) /\ task[t].alone => ~Active(u)

(* The track a task that runs alone is about to start is position 0.       *)
Fresh ==
  \A t \in Task : At(t, "devices") \/ At(t, "start") =>
    (task[t].alone => task[t].current = Current(queue))

IInv == TypeOK /\ task \in [Task -> Tasks] /\ Apart /\ Fresh

LEMMA InitIInv == Init => IInv
<1> SUFFICES ASSUME Init PROVE IInv  OBVIOUS
<1>1. <<>> \in BoundedSeq(Track, MaxNative)
  BY EmptyBounded, PlaybackAssumption DEF PlaybackAssumption
<1>2. Blank \in Tasks  BY EmptyQueue DEF Blank, Tasks, Pcs, Kinds
<1>3. task \in [Task -> Tasks] /\ TypeOK
  BY <1>1, <1>2, EmptyQueue DEF Init, TypeOK, At, Blank
<1>4. Apart /\ Fresh  BY DEF Init, Apart, Fresh, Active, At, Blank
<1> QED  BY <1>3, <1>4 DEF IInv

(* What one task's step leaves true of all of them: it suffices to look at *)
(* that task, when the queue stays or no other task runs alone.            *)
LEMMA OneTask ==
  ASSUME IInv, NEW t \in Task, Active(t), NEW r \in Tasks,
         task' = [task EXCEPT ![t] = r], r.alone = task[t].alone,
         r.pc # "new",
         queue' \in Queues,
         r.pc \in {"devices", "start"} =>
           r.current # Nothing /\ (r.alone => r.current = Current(queue')),
         queue' = queue \/ task[t].pc = "commit",
         playing' \in Track \cup {Nothing},
         native' \in BoundedSeq(Track, MaxNative), device' \in BOOLEAN
  PROVE  IInv'
<1> USE DEF IInv
<1>1. task' \in [Task -> Tasks]  OBVIOUS
<1>2. task'[t] = r /\ \A u \in Task \ {t} : task'[u] = task[u]  OBVIOUS
<1>3. TypeOK'
  BY <1>1, <1>2 DEF TypeOK, At
<1>4. Apart'
  BY <1>2 DEF Apart, Active
<1>5. Fresh'
  <2> SUFFICES ASSUME NEW u \in Task, At(u, "devices")' \/ At(u, "start")', task'[u].alone
               PROVE  task'[u].current = Current(queue')
    BY DEF Fresh
  <2>1. CASE u = t  BY <1>2, <2>1 DEF At
  <2>2. CASE u # t
    <3>1. task[u].alone /\ (At(u, "devices") \/ At(u, "start"))
      BY <1>2, <2>2 DEF At
    <3>2. ~Active(t)  BY <2>2, <3>1 DEF Apart, Active, At
    <3> QED  BY <3>2
  <2> QED  BY <2>1, <2>2
<1> QED  BY <1>1, <1>3, <1>4, <1>5

-----------------------------------------------------------------------------
(* Every step keeps it.                                                    *)

LEMMA BeginIInv ==
  ASSUME IInv, NEW t \in Task, Begin(t) PROVE IInv'
<1> USE DEF IInv
<1>1. PICK kind \in {"rerank", "build", "play"} :
        task' = [u \in Task |->
          IF u = t THEN [task[t] EXCEPT
                           !.kind = kind,
                           !.pc = CASE kind = "rerank" -> "before"
                                    [] kind = "build"  -> "commit"
                                    [] OTHER           -> "current",
                           !.alone = \A v \in Task : ~Active(v)]
          ELSE [task[u] EXCEPT !.alone = FALSE]]
  BY DEF Begin
<1>2. \A u \in Task \ {t} : /\ task'[u] = [task[u] EXCEPT !.alone = FALSE]
                            /\ task'[u] \in Tasks /\ ~task'[u].alone
                            /\ task'[u].pc = task[u].pc
                            /\ task'[u].current = task[u].current
  BY <1>1 DEF Tasks
<1>3. /\ task'[t] \in Tasks /\ task'[t].pc \in {"before", "commit", "current"}
      /\ task'[t].alone => \A v \in Task : ~Active(v)
  <2> DEFINE pc == CASE kind = "rerank" -> "before"
                     [] kind = "build"  -> "commit"
                     [] OTHER           -> "current"
             lone == \A v \in Task : ~Active(v)
  <2>1. pc \in {"before", "commit", "current"}  BY <1>1
  <2>2. lone \in BOOLEAN  OBVIOUS
  <2>3. task'[t] = [task[t] EXCEPT !.kind = kind, !.pc = pc, !.alone = lone]
    BY <1>1
  <2> HIDE DEF pc, lone
  <2>4. pc \in Pcs /\ kind \in Kinds  BY <1>1, <2>1 DEF Pcs, Kinds
  <2>5. task'[t] \in Tasks /\ task'[t].pc = pc /\ task'[t].alone = lone
    <3>1. task[t] \in Tasks  OBVIOUS
    <3> QED  BY <2>2, <2>3, <2>4, <3>1 DEF Tasks
  <2> QED  BY <2>1, <2>5 DEF lone
<1>4. task' \in [Task -> Tasks]  BY <1>1, <1>2, <1>3
<1>5. TypeOK'  BY <1>2, <1>3, <1>4 DEF TypeOK, At, Begin
<1>6. Apart'  BY <1>2, <1>3 DEF Apart, Active
<1>7. Fresh'  BY <1>2, <1>3 DEF Fresh, At, Begin
<1> QED  BY <1>4, <1>5, <1>6, <1>7

LEMMA ReadBeforeIInv ==
  ASSUME IInv, NEW t \in Task, ReadBefore(t) PROVE IInv'
<1> DEFINE r == [task[t] EXCEPT !.before = Current(queue), !.pc = "commit"]
<1>1. Current(queue) \in Track \cup {Nothing}  BY CurrentType DEF IInv, TypeOK
<1>2. r \in Tasks /\ r.alone = task[t].alone /\ r.pc = "commit"
  BY <1>1 DEF IInv, Tasks, Pcs
<1>3. task' = [task EXCEPT ![t] = r]  BY DEF ReadBefore, IInv, Tasks
<1> QED
  BY <1>2, <1>3, OneTask DEF ReadBefore, At, Active, IInv, TypeOK

LEMMA RerankIInv ==
  ASSUME IInv, NEW t \in Task, Rerank(t) PROVE IInv'
<1> DEFINE r == [task[t] EXCEPT !.pc = "current"]
<1>1. r \in Tasks /\ r.alone = task[t].alone /\ r.pc = "current"
  BY DEF IInv, Tasks, Pcs
<1>2. task' = [task EXCEPT ![t] = r]  BY DEF Rerank, Goto, IInv, Tasks
<1>3. queue' \in Queues  BY DEF Rerank, Reranked
<1> QED
  BY <1>1, <1>2, <1>3, OneTask DEF Rerank, At, Active, IInv, TypeOK

LEMMA BuildAgainIInv ==
  ASSUME IInv, NEW t \in Task, BuildAgain(t) PROVE IInv'
<1> DEFINE r == [task[t] EXCEPT !.pc = "ended"]
<1>1. r \in Tasks /\ r.alone = task[t].alone /\ r.pc = "ended"
  BY DEF IInv, Tasks, Pcs
<1>2. task' = [task EXCEPT ![t] = r]  BY DEF BuildAgain, Goto, IInv, Tasks
<1>3. queue' \in Queues  BY DEF BuildAgain, Reranked
<1> QED
  BY <1>1, <1>2, <1>3, OneTask DEF BuildAgain, At, Active, IInv, TypeOK

LEMMA BuildFirstIInv ==
  ASSUME IInv, NEW t \in Task, BuildFirst(t) PROVE IInv'
<1> DEFINE pc == IF queue' = <<>> THEN "ended" ELSE "devices"
           r == [task[t] EXCEPT !.pc = pc, !.current = Current(queue'),
                                !.todo = Rest(queue')]
<1>1. /\ queue' \in Queues /\ Current(queue') \in Track \cup {Nothing}
      /\ Rest(queue') \in Queues /\ (queue' # <<>> => Current(queue') # Nothing)
  BY CurrentType DEF BuildFirst
<1>2. task' = [task EXCEPT ![t] = r]  BY DEF BuildFirst, IInv, Tasks
<1>3. pc \in Pcs /\ (pc = "devices" => queue' # <<>>) /\ pc \in {"ended", "devices"}
  BY DEF Pcs
<1> HIDE DEF pc
<1>4. /\ r \in Tasks /\ r.alone = task[t].alone /\ r.pc = pc
      /\ r.current = Current(queue')
  BY <1>1, <1>3 DEF IInv, Tasks
<1> HIDE DEF r
<1> QED
  BY <1>1, <1>2, <1>3, <1>4, OneTask DEF BuildFirst, At, Active, IInv, TypeOK

LEMMA ReadCurrentIInv ==
  ASSUME IInv, NEW t \in Task, ReadCurrent(t) PROVE IInv'
<1>1. CASE Goto(t, "ended")
  <2> DEFINE r == [task[t] EXCEPT !.pc = "ended"]
  <2>1. r \in Tasks /\ r.alone = task[t].alone /\ r.pc = "ended"
    BY DEF IInv, Tasks, Pcs
  <2>2. task' = [task EXCEPT ![t] = r]  BY <1>1 DEF Goto, IInv, Tasks
  <2> QED
    BY <2>1, <2>2, OneTask DEF ReadCurrent, At, Active, IInv, TypeOK
<1>2. CASE ~Goto(t, "ended")
  <2> DEFINE c == Current(queue)
             pc == IF Attempts(t, c) THEN "devices"
                   ELSE IF task[t].kind = "play" THEN "ended" ELSE "order"
             r == [task[t] EXCEPT !.current = c, !.pc = pc]
  <2>1. c \in Track \cup {Nothing}  BY CurrentType DEF IInv, TypeOK
  <2>2. task' = [task EXCEPT ![t] = r]  BY <1>2 DEF ReadCurrent, IInv, Tasks
  <2>3. pc \in Pcs /\ pc \in {"devices", "ended", "order"} /\ (pc = "devices" => c # Nothing)
    BY DEF Attempts, Pcs
  <2> HIDE DEF pc
  <2>4. r \in Tasks /\ r.alone = task[t].alone /\ r.pc = pc /\ r.current = c
    BY <2>1, <2>3 DEF IInv, Tasks
  <2> HIDE DEF r
  <2> QED
    BY <2>2, <2>3, <2>4, OneTask DEF ReadCurrent, At, Active, IInv, TypeOK
<1> QED  BY <1>1, <1>2

LEMMA DevicesIInv ==
  ASSUME IInv, NEW t \in Task, Devices(t) PROVE IInv'
<1>1. CASE Goto(t, "start")
  <2> DEFINE r == [task[t] EXCEPT !.pc = "start"]
  <2>1. /\ r \in Tasks /\ r.alone = task[t].alone /\ r.pc = "start"
        /\ r.current = task[t].current
    BY DEF IInv, Tasks, Pcs
  <2>2. task' = [task EXCEPT ![t] = r]  BY <1>1 DEF Goto, IInv, Tasks
  <2>3. task[t].current # Nothing /\ (task[t].alone => task[t].current = Current(queue))
    BY DEF Devices, IInv, TypeOK, Fresh
  <2> QED
    BY <2>1, <2>2, <2>3, OneTask DEF Devices, At, Active, IInv, TypeOK
<1>2. CASE ~Goto(t, "start")
  <2> DEFINE pc == AfterAttempt(t)
             r == [task[t] EXCEPT !.pc = pc, !.good = FALSE]
  <2>1. pc \in Pcs /\ pc \in {"add", "order"}  BY DEF AfterAttempt, Pcs
  <2>2. task' = [task EXCEPT ![t] = r]  BY <1>2 DEF Devices, IInv, Tasks
  <2> HIDE DEF pc
  <2>3. r \in Tasks /\ r.alone = task[t].alone /\ r.pc = pc
    BY <2>1 DEF IInv, Tasks
  <2> QED
    BY <2>1, <2>2, <2>3, OneTask DEF Devices, At, Active, IInv, TypeOK
<1> QED  BY <1>1, <1>2

LEMMA StartIInv ==
  ASSUME IInv, NEW t \in Task, Start(t) PROVE IInv'
<1> DEFINE pc == AfterAttempt(t)
<1>1. pc \in Pcs /\ pc \in {"add", "order"}  BY DEF AfterAttempt, Pcs
<1>2. PICK good \in BOOLEAN :
        task' = [task EXCEPT ![t] = [task[t] EXCEPT !.pc = pc, !.good = good]]
  <2>1. CASE Goto(t, pc)
    <3>1. task[t].good \in BOOLEAN  BY DEF IInv, Tasks
    <3>2. [task[t] EXCEPT !.pc = pc] = [task[t] EXCEPT !.pc = pc, !.good = task[t].good]
      BY DEF IInv, Tasks
    <3> QED  BY <2>1, <3>1, <3>2 DEF Goto
  <2>2. CASE ~Goto(t, pc)
    BY <2>2 DEF Start, IInv, Tasks
  <2> QED  BY <2>1, <2>2
<1> DEFINE r == [task[t] EXCEPT !.pc = pc, !.good = good]
<1> HIDE DEF pc
<1>3. r \in Tasks /\ r.alone = task[t].alone /\ r.pc = pc
  BY <1>1 DEF IInv, Tasks
<1>4. playing' \in Track \cup {Nothing}
  BY DEF Start, IInv, TypeOK, Tasks
<1> QED
  BY <1>1, <1>2, <1>3, <1>4, OneTask DEF Start, At, Active, IInv, TypeOK

LEMMA ReadOrderIInv ==
  ASSUME IInv, NEW t \in Task, ReadOrder(t) PROVE IInv'
<1> DEFINE r == [task[t] EXCEPT !.todo = Rest(queue), !.pc = "add"]
<1>1. Rest(queue) \in Queues  BY CurrentType DEF IInv, TypeOK
<1>2. r \in Tasks /\ r.alone = task[t].alone /\ r.pc = "add"
  BY <1>1 DEF IInv, Tasks, Pcs
<1>3. task' = [task EXCEPT ![t] = r]  BY DEF ReadOrder, IInv, Tasks
<1> QED
  BY <1>2, <1>3, OneTask DEF ReadOrder, At, Active, IInv, TypeOK

LEMMA AddIInv ==
  ASSUME IInv, NEW t \in Task, Add(t) PROVE IInv'
<1>1. task[t].todo \in Queues /\ task[t].todo # <<>> /\ task[t].pc = "add"
  BY DEF Add, At, IInv, Tasks
<1>2. Head(task[t].todo) \in Track /\ Tail(task[t].todo) \in Queues
  BY <1>1, QueueTail
<1>3. PICK good \in BOOLEAN :
        task' = [task EXCEPT ![t] = [task[t] EXCEPT !.todo = Tail(@), !.good = good]]
  <2>1. PICK s \in Added(t), ok \in BOOLEAN :
          task' = [task EXCEPT ![t].todo = Tail(@), ![t].good = @ /\ ok /\ Len(s) = 1]
    BY DEF Add
  <2>2. (task[t].good /\ ok /\ Len(s) = 1) \in BOOLEAN  OBVIOUS
  <2> QED  BY <2>1, <2>2 DEF IInv, Tasks
<1> DEFINE r == [task[t] EXCEPT !.todo = Tail(@), !.good = good]
<1>4. r \in Tasks /\ r.alone = task[t].alone /\ r.pc = "add"
  BY <1>1, <1>2 DEF IInv, Tasks
<1>5. native' \in BoundedSeq(Track, MaxNative)
  <2>1. native \in Seq(Track) /\ MaxNative \in Nat
    BY BoundedSeqMembers, PlaybackAssumption DEF IInv, TypeOK, PlaybackAssumption
  <2>2. \A s \in Added(t) : s \in Seq(Track)
    <3>1. \A h \in Track : /\ <<>> \in Seq(Track) /\ <<h>> \in Seq(Track)
                            /\ <<h, h>> \in Seq(Track) /\ <<h, h, h>> \in Seq(Track)
      OBVIOUS
    <3> QED  BY <1>2, <3>1 DEF Added
  <2>3. PICK s \in Added(t) : /\ native' = native \o s
                              /\ s # <<>> => Len(native \o s) <= MaxNative
    BY Zenon DEF Add
  <2>4. CASE s = <<>>
    <3>1. native' = native  BY <2>1, <2>3, <2>4, ConcatEmptySeq
    <3> QED  BY <3>1 DEF IInv, TypeOK
  <2>5. CASE s # <<>>
    <3>1. native \o s \in Seq(Track)  BY <2>1, <2>2, ConcatProperties
    <3> QED  BY <2>1, <2>3, <2>5, <3>1, BoundedSeqMembers
  <2> QED  BY <2>4, <2>5
<1> QED
  BY <1>1, <1>3, <1>4, <1>5, OneTask DEF Add, Active, IInv, TypeOK

LEMMA DoneIInv ==
  ASSUME IInv, NEW t \in Task, Done(t) PROVE IInv'
<1> DEFINE r == [task[t] EXCEPT !.pc = "ended"]
<1>1. r \in Tasks /\ r.alone = task[t].alone /\ r.pc = "ended"
  BY DEF IInv, Tasks, Pcs
<1>2. task' = [task EXCEPT ![t] = r]  BY DEF Done, Goto, IInv, Tasks
<1> QED
  BY <1>1, <1>2, OneTask DEF Done, At, Active, IInv, TypeOK

LEMMA AdvanceIInv == ASSUME IInv, Advance PROVE IInv'
<1>1. \A t \in Task : /\ task'[t] \in Tasks /\ ~task'[t].alone
                      /\ task'[t].pc = task[t].pc
                      /\ task'[t].current = task[t].current
  BY DEF Advance, IInv, Tasks
<1>2. task' \in [Task -> Tasks]  BY <1>1 DEF Advance
<1>3. playing' \in Track /\ native' \in BoundedSeq(Track, MaxNative)
  <2>1. native \in Seq(Track) /\ Len(native) <= MaxNative /\ MaxNative \in Nat
    BY BoundedSeqMembers, PlaybackAssumption DEF IInv, TypeOK, PlaybackAssumption
  <2>2. /\ Head(native) \in Track /\ Tail(native) \in Seq(Track)
        /\ Len(Tail(native)) <= MaxNative
    BY <2>1 DEF Advance
  <2> QED  BY <2>1, <2>2, BoundedSeqMembers DEF Advance
<1>4. TypeOK'  BY <1>1, <1>3 DEF Advance, IInv, TypeOK, At
<1>5. Apart' /\ Fresh'  BY <1>1 DEF Apart, Fresh
<1> QED  BY <1>2, <1>4, <1>5 DEF IInv

LEMMA QuietIInv ==
  ASSUME IInv, device' \in BOOLEAN, UNCHANGED <<queue, playing, native, task>>
  PROVE  IInv'
  BY DEF IInv, TypeOK, Apart, Fresh, Active, At

LEMMA NextIInv == IInv /\ [Next]_vars => IInv'
<1> SUFFICES ASSUME IInv, [Next]_vars PROVE IInv'  OBVIOUS
<1>1. ASSUME NEW t \in Task,
             \/ Begin(t) \/ ReadBefore(t) \/ Rerank(t) \/ BuildFirst(t) \/ BuildAgain(t)
             \/ ReadCurrent(t) \/ Devices(t) \/ Start(t) \/ ReadOrder(t) \/ Add(t) \/ Done(t)
      PROVE  IInv'
  BY <1>1, BeginIInv, ReadBeforeIInv, RerankIInv, BuildFirstIInv, BuildAgainIInv,
     ReadCurrentIInv, DevicesIInv, StartIInv, ReadOrderIInv, AddIInv, DoneIInv
<1>2. CASE Advance  BY <1>2, AdvanceIInv
<1>3. CASE DeviceChange
  BY <1>3, QuietIInv DEF DeviceChange, IInv, TypeOK
<1>4. CASE UNCHANGED vars
  BY <1>4, QuietIInv DEF vars, IInv, TypeOK
<1> QED  BY <1>1, <1>2, <1>3, <1>4 DEF Next

LEMMA Inductive == Spec => []IInv
  BY InitIInv, NextIInv, PTL DEF Spec

-----------------------------------------------------------------------------
(* The variables keep their types, and whatever the tasks do, the device   *)
(* is never asked to start without a track.                                *)
THEOREM TypeCorrect == Spec => []TypeOK
<1>1. IInv => TypeOK  BY DEF IInv
<1> QED  BY <1>1, Inductive, PTL

(* However many tasks there are, one that nothing interleaves with starts  *)
(* the track that is position 0 of the stored queue.                       *)
THEOREM AloneStartsCurrent == Spec => []StartsCurrent
<1>1. IInv => StartsCurrent  BY DEF IInv, Fresh, StartsCurrent
<1> QED  BY <1>1, Inductive, PTL
-----------------------------------------------------------------------------
(* What a task that runs alone has synchronised so far.                    *)

LEMMA ConcatIsSuffix ==
  ASSUME NEW S, NEW p \in Seq(S), NEW d \in Seq(S)
  PROVE  IsSuffix(d, p \o d)
<1> DEFINE n == p \o d
<1>1. /\ n \in Seq(S) /\ Len(n) = Len(p) + Len(d)
      /\ \A i \in 1..Len(d) : n[Len(p) + i] = d[i]
  OBVIOUS
<1> HIDE DEF n
<1>2. /\ Reverse(d) \in Seq(S) /\ Len(Reverse(d)) = Len(d)
      /\ \A i \in 1..Len(d) : Reverse(d)[i] = d[Len(d) - i + 1]
  BY DEF Reverse
<1>3. /\ Reverse(n) \in Seq(S) /\ Len(Reverse(n)) = Len(n)
      /\ \A i \in 1..Len(n) : Reverse(n)[i] = n[Len(n) - i + 1]
  BY <1>1 DEF Reverse
<1>4. \A i \in 1..Len(d) : Reverse(d)[i] = Reverse(n)[i]
  <2> TAKE i \in 1..Len(d)
  <2>1. /\ Len(n) - i + 1 = Len(p) + (Len(d) - i + 1)
        /\ Len(d) - i + 1 \in 1..Len(d) /\ i \in 1..Len(n)
    BY <1>1
  <2> QED
    BY <1>1, <1>2, <1>3, <2>1
<1> DEFINE e == Reverse(d)
           f == Reverse(n)
<1> HIDE DEF e, f
<1>5. SubSeq(e, 1, Len(e)) = SubSeq(f, 1, Len(e))
  <2>1. /\ e \in Seq(S) /\ f \in Seq(S) /\ Len(e) <= Len(f)
        /\ \A i \in 1..Len(e) : e[i] = f[i]
    BY <1>1, <1>2, <1>3, <1>4 DEF e, f
  <2> DEFINE a == SubSeq(e, 1, Len(e))
             b == SubSeq(f, 1, Len(e))
  <2>2. /\ a \in Seq(S) /\ Len(a) = Len(e) /\ \A i \in 1..Len(e) : a[i] = e[i]
        /\ b \in Seq(S) /\ Len(b) = Len(e) /\ \A i \in 1..Len(e) : b[i] = f[i]
    BY <2>1
  <2> HIDE DEF a, b
  <2>3. a = b
    BY <2>1, <2>2, SeqEqual
  <2> QED
    BY <2>3 DEF a, b
<1> QED
  BY <1>1, <1>2, <1>3, <1>5 DEF IsSuffix, IsPrefix, e, f, n

(* The end of Spotify's queue and the tracks still to be added make up the *)
(* stored queue after position 0.                                          *)
Appended(t) ==
  \E p, d \in Seq(Track) : native = p \o d /\ Rest(queue) = d \o task[t].todo

PlaysNew(t) ==
  queue # <<>> /\ task[t].current # task[t].before => playing = Current(queue)

SyncedSoFar(t) ==
  task[t].alone /\ task[t].good =>
    /\ At(t, "current") => task[t].kind # "build"
    /\ task[t].kind = "build" /\ (At(t, "devices") \/ At(t, "start")) =>
         task[t].todo = Rest(queue)
    /\ At(t, "order") => PlaysNew(t)
    /\ At(t, "add") => PlaysNew(t) /\ Appended(t)

Synced == \A t \in Task : SyncedSoFar(t)

LEMMA QueueParts ==
  ASSUME NEW q \in Queues
  PROVE  q \in Seq(Track) /\ Rest(q) \in Seq(Track) /\ (q # <<>> => Current(q) # Nothing)
<1>1. \A s \in Queues : s \in Seq(Track)
  BY BoundedSeqMembers, PlaybackAssumption DEF Queues, PlaybackAssumption
<1> QED
  BY <1>1, CurrentType

(* Nothing is appended when the rest of the queue is read.                 *)
LEMMA NothingAppended ==
  ASSUME IInv, NEW t \in Task, task'[t].todo = Rest(queue'),
         queue' \in Queues, UNCHANGED native
  PROVE  Appended(t)'
<1>1. native \in Seq(Track)
  BY BoundedSeqMembers, PlaybackAssumption DEF IInv, TypeOK, PlaybackAssumption
<1>2. Rest(queue') \in Seq(Track)
  BY QueueParts
<1>3. native' = native \o <<>> /\ Rest(queue') = <<>> \o task'[t].todo
  BY <1>1, <1>2, ConcatEmptySeq
<1> QED
  BY <1>1, <1>3, EmptySeq DEF Appended

(* An active task's step: no other active task runs alone.                 *)
LEMMA OneSynced ==
  ASSUME IInv, Synced, NEW t \in Task, Active(t),
         \A u \in Task \ {t} : task'[u] = task[u], SyncedSoFar(t)'
  PROVE  Synced'
<1> SUFFICES ASSUME NEW u \in Task, u # t PROVE SyncedSoFar(u)'
  BY DEF Synced
<1>1. ~(task[u].alone /\ Active(u))
  BY DEF IInv, Apart
<1> QED
  BY <1>1 DEF SyncedSoFar, Active, At

(* The steps of a task that say nothing to Spotify.                        *)
LEMMA QuietSynced ==
  ASSUME IInv, Synced, NEW t \in Task,
         ReadBefore(t) \/ Rerank(t) \/ BuildFirst(t) \/ BuildAgain(t) \/ Done(t)
  PROVE  Synced'
<1> DEFINE k == task[t]
<1>0. /\ k \in Tasks /\ queue \in Queues /\ Active(t)
      /\ \A r : task' = [task EXCEPT ![t] = r] =>
                  task'[t] = r /\ \A u \in Task \ {t} : task'[u] = task[u]
  BY DEF IInv, TypeOK, Active, At, ReadBefore, Rerank, BuildFirst, BuildAgain, Done
<1>1. CASE ReadBefore(t)
  <2> DEFINE r == [k EXCEPT !.before = Current(queue), !.pc = "commit"]
  <2>1. task' = [task EXCEPT ![t] = r]
    BY <1>1 DEF ReadBefore
  <2>2. r.pc = "commit"
    BY <1>0 DEF Tasks
  <2> HIDE DEF r
  <2> QED
    BY <1>0, <2>1, <2>2, OneSynced DEF SyncedSoFar, At
<1>2. CASE Rerank(t)
  <2> DEFINE r == [k EXCEPT !.pc = "current"]
  <2>1. task' = [task EXCEPT ![t] = r]
    BY <1>2 DEF Rerank, Goto
  <2>2. r.pc = "current" /\ r.kind # "build"
    BY <1>0, <1>2 DEF Tasks, Rerank
  <2> HIDE DEF r
  <2> QED
    BY <1>0, <2>1, <2>2, OneSynced DEF SyncedSoFar, At
<1>3. CASE BuildFirst(t)
  <2> DEFINE pc == IF queue' = <<>> THEN "ended" ELSE "devices"
             r == [k EXCEPT !.pc = pc, !.current = Current(queue'), !.todo = Rest(queue')]
  <2>1. task' = [task EXCEPT ![t] = r]
    BY <1>3 DEF BuildFirst
  <2>2. pc \in {"ended", "devices"}
    OBVIOUS
  <2> HIDE DEF pc
  <2>3. r.pc = pc /\ r.todo = Rest(queue')
    BY <1>0 DEF Tasks
  <2> HIDE DEF r
  <2> QED
    BY <1>0, <2>1, <2>2, <2>3, OneSynced DEF SyncedSoFar, At
<1>4. CASE BuildAgain(t) \/ Done(t)
  <2> DEFINE r == [k EXCEPT !.pc = "ended"]
  <2>1. task' = [task EXCEPT ![t] = r]
    BY <1>4 DEF BuildAgain, Done, Goto
  <2>2. r.pc = "ended"
    BY <1>0 DEF Tasks
  <2> HIDE DEF r
  <2> QED
    BY <1>0, <2>1, <2>2, OneSynced DEF SyncedSoFar, At
<1> QED
  BY <1>1, <1>2, <1>3, <1>4

LEMMA ReadCurrentSynced ==
  ASSUME IInv, Synced, NEW t \in Task, ReadCurrent(t)
  PROVE  Synced'
<1> DEFINE k == task[t]
<1>0. /\ k \in Tasks /\ queue \in Queues /\ Active(t) /\ SyncedSoFar(t) /\ k.pc = "current"
      /\ UNCHANGED <<queue, playing, native>>
      /\ \A r : task' = [task EXCEPT ![t] = r] =>
                  task'[t] = r /\ \A u \in Task \ {t} : task'[u] = task[u]
  BY DEF IInv, TypeOK, Active, At, ReadCurrent, Synced
<1>1. CASE Goto(t, "ended")
  <2> DEFINE r == [k EXCEPT !.pc = "ended"]
  <2>1. task' = [task EXCEPT ![t] = r]
    BY <1>1 DEF Goto
  <2>2. r.pc = "ended"
    BY <1>0 DEF Tasks
  <2> HIDE DEF r
  <2> QED
    BY <1>0, <2>1, <2>2, OneSynced DEF SyncedSoFar, At
<1>2. CASE ~Goto(t, "ended")
  <2> DEFINE c == Current(queue)
             pc == IF Attempts(t, c) THEN "devices"
                   ELSE IF k.kind = "play" THEN "ended" ELSE "order"
             r == [k EXCEPT !.current = c, !.pc = pc]
  <2>1. task' = [task EXCEPT ![t] = r]
    BY <1>2 DEF ReadCurrent
  <2>2. /\ pc \in {"devices", "ended", "order"}
        /\ pc = "order" /\ queue # <<>> => c = k.before
    BY <1>0, QueueParts DEF Attempts
  <2> HIDE DEF pc
  <2>3. /\ r.pc = pc /\ r.current = c /\ r.before = k.before /\ r.kind = k.kind
        /\ r.alone = k.alone /\ r.good = k.good
    BY <1>0 DEF Tasks
  <2> HIDE DEF r, c
  <2>4. task'[t] = r /\ \A u \in Task \ {t} : task'[u] = task[u]
    BY <1>0, <2>1
  <2>5. SyncedSoFar(t)'
    <3>1. k.alone /\ k.good => k.kind # "build"
      BY <1>0 DEF SyncedSoFar, At
    <3> QED
      BY <1>0, <2>2, <2>3, <2>4, <3>1 DEF SyncedSoFar, At, PlaysNew
  <2> QED
    BY <1>0, <2>4, <2>5, OneSynced
<1> QED
  BY <1>1, <1>2

LEMMA PlaySynced ==
  ASSUME IInv, Synced, NEW t \in Task, Devices(t) \/ Start(t)
  PROVE  Synced'
<1> DEFINE k == task[t]
<1>0. /\ k \in Tasks /\ queue \in Queues /\ Active(t) /\ SyncedSoFar(t)
      /\ At(t, "devices") \/ At(t, "start")
      /\ UNCHANGED <<queue, native>>
      /\ \A r : task' = [task EXCEPT ![t] = r] =>
                  task'[t] = r /\ \A u \in Task \ {t} : task'[u] = task[u]
  BY DEF IInv, TypeOK, Active, At, Devices, Start, Synced
<1>1. CASE task' = [task EXCEPT ![t].pc = AfterAttempt(t), ![t].good = FALSE]
  <2> DEFINE pc == AfterAttempt(t)
             r == [k EXCEPT !.pc = pc, !.good = FALSE]
  <2>1. task' = [task EXCEPT ![t] = r]
    BY <1>1
  <2>2. r.good = FALSE
    BY <1>0 DEF Tasks
  <2> HIDE DEF r
  <2> QED
    BY <1>0, <2>1, <2>2, OneSynced DEF SyncedSoFar
<1>2. CASE Devices(t) /\ Goto(t, "start")
  <2> DEFINE r == [k EXCEPT !.pc = "start"]
  <2>1. task' = [task EXCEPT ![t] = r]
    BY <1>2 DEF Goto
  <2>2. /\ r.pc = "start" /\ r.kind = k.kind /\ r.todo = k.todo
        /\ r.alone = k.alone /\ r.good = k.good
    BY <1>0 DEF Tasks
  <2> HIDE DEF r
  <2>3. task'[t] = r /\ \A u \in Task \ {t} : task'[u] = task[u]
    BY <1>0, <2>1
  <2>4. SyncedSoFar(t)'
    BY <1>0, <2>2, <2>3 DEF SyncedSoFar, At
  <2> QED
    BY <1>0, <2>3, <2>4, OneSynced
<1>3. CASE Start(t) /\ playing' = k.current /\ Goto(t, AfterAttempt(t))
  <2> DEFINE pc == AfterAttempt(t)
             r == [k EXCEPT !.pc = pc]
  <2>1. task' = [task EXCEPT ![t] = r]
    BY <1>3 DEF Goto
  <2>2. pc = IF k.kind = "build" THEN "add" ELSE "order"
    BY DEF AfterAttempt
  <2> HIDE DEF pc
  <2>3. /\ r.pc = pc /\ r.kind = k.kind /\ r.todo = k.todo /\ r.current = k.current
        /\ r.before = k.before /\ r.alone = k.alone /\ r.good = k.good
    BY <1>0 DEF Tasks
  <2> HIDE DEF r
  <2>4. task'[t] = r /\ \A u \in Task \ {t} : task'[u] = task[u]
    BY <1>0, <2>1
  <2>5. SyncedSoFar(t)'
    <3> SUFFICES ASSUME k.alone, k.good
                 PROVE  SyncedSoFar(t)'
      BY <2>3, <2>4 DEF SyncedSoFar
    <3>1. k.current = Current(queue) /\ k.pc = "start"
      BY <1>3 DEF Start, At, IInv, Fresh
    <3>2. PlaysNew(t)'
      BY <1>0, <1>3, <2>3, <2>4, <3>1 DEF PlaysNew
    <3>3. k.kind = "build" => Appended(t)'
      <4> SUFFICES ASSUME k.kind = "build" PROVE Appended(t)'
        OBVIOUS
      <4>1. k.todo = Rest(queue)
        BY <1>0, <3>1 DEF SyncedSoFar, At
      <4> QED
        BY <1>0, <2>3, <2>4, <4>1, NothingAppended
    <3>4. task'[t].pc \in {"add", "order"} /\ (task'[t].pc = "add" => k.kind = "build")
      BY <2>2, <2>3, <2>4
    <3> QED
      BY <3>2, <3>3, <3>4 DEF SyncedSoFar, At
  <2> QED
    BY <1>0, <2>4, <2>5, OneSynced
<1> QED
  BY <1>1, <1>2, <1>3 DEF Devices, Start

LEMMA ReadOrderSynced ==
  ASSUME IInv, Synced, NEW t \in Task, ReadOrder(t)
  PROVE  Synced'
<1> DEFINE k == task[t]
           r == [k EXCEPT !.todo = Rest(queue), !.pc = "add"]
<1>0. /\ k \in Tasks /\ queue \in Queues /\ Active(t) /\ SyncedSoFar(t) /\ At(t, "order")
      /\ UNCHANGED <<queue, playing, native>>
      /\ task' = [task EXCEPT ![t] = r]
      /\ task'[t] = r /\ \A u \in Task \ {t} : task'[u] = task[u]
  BY DEF IInv, TypeOK, Active, At, ReadOrder, Synced
<1>1. /\ r.pc = "add" /\ r.todo = Rest(queue) /\ r.current = k.current
      /\ r.before = k.before /\ r.alone = k.alone /\ r.good = k.good
  BY <1>0 DEF Tasks
<1> HIDE DEF r
<1>2. Appended(t)'
  BY <1>0, <1>1, NothingAppended
<1>3. SyncedSoFar(t)'
  BY <1>0, <1>1, <1>2 DEF SyncedSoFar, At, PlaysNew
<1> QED
  BY <1>0, <1>3, OneSynced

LEMMA HeadThenTail ==
  ASSUME NEW S, NEW s \in Seq(S), s # <<>>
  PROVE  s = <<Head(s)>> \o Tail(s)
<1> DEFINE v == <<Head(s)>> \o Tail(s)
<1>1. <<Head(s)>> \in Seq(S) /\ Tail(s) \in Seq(S) /\ Len(Tail(s)) = Len(s) - 1
      /\ \A i \in 1..Len(Tail(s)) : Tail(s)[i] = s[i+1]
  BY HeadTailProperties
<1>2. v \in Seq(S) /\ Len(v) = Len(s)
  BY <1>1, ConcatProperties
<1>3. ASSUME NEW i \in 1..Len(s)
      PROVE  s[i] = v[i]
  <2>1. CASE i = 1
    BY <2>1
  <2>2. CASE i # 1
    <3>1. i - 1 \in 1..Len(Tail(s)) /\ i = (i - 1) + 1
      BY <1>1, <2>2
    <3>2. v[i] = Tail(s)[i - 1]
      BY <1>1, <2>2, <3>1
    <3> QED
      BY <1>1, <3>1, <3>2
  <2> QED
    BY <2>1, <2>2
<1> HIDE DEF v
<1>4. s = v
  BY <1>2, <1>3, SeqEqual
<1> QED
  BY <1>4 DEF v

LEMMA AddSynced ==
  ASSUME IInv, Synced, NEW t \in Task, Add(t)
  PROVE  Synced'
<1> DEFINE k == task[t]
<1>0. /\ k \in Tasks /\ queue \in Queues /\ Active(t) /\ SyncedSoFar(t) /\ k.pc = "add"
      /\ k.todo # <<>>
      /\ UNCHANGED <<queue, playing>>
      /\ \A r : task' = [task EXCEPT ![t] = r] =>
                  task'[t] = r /\ \A u \in Task \ {t} : task'[u] = task[u]
  BY DEF IInv, TypeOK, Active, At, Add, Synced
<1>1. PICK s \in Added(t), ok \in BOOLEAN :
        /\ native' = native \o s
        /\ task' = [task EXCEPT ![t].todo = Tail(@), ![t].good = @ /\ ok /\ Len(s) = 1]
  BY DEF Add
<1>2. Synced'
  <2> DEFINE r == [k EXCEPT !.todo = Tail(@), !.good = @ /\ ok /\ Len(s) = 1]
  <2>1. task' = [task EXCEPT ![t] = r]
    BY <1>1
  <2>2. /\ r.pc = "add" /\ r.todo = Tail(k.todo) /\ r.current = k.current
        /\ r.before = k.before /\ r.alone = k.alone /\ r.good = (k.good /\ ok /\ Len(s) = 1)
    BY <1>0 DEF Tasks
  <2> HIDE DEF r
  <2>3. task'[t] = r /\ \A u \in Task \ {t} : task'[u] = task[u]
    BY <1>0, <2>1
  <2>4. SyncedSoFar(t)'
    <3> SUFFICES ASSUME k.alone, k.good, Len(s) = 1
                 PROVE  SyncedSoFar(t)'
      BY <2>2, <2>3 DEF SyncedSoFar
    <3>1. s = <<Head(k.todo)>>
      <4>1. ASSUME NEW h
            PROVE  Len(<<>>) = 0 /\ Len(<<h, h>>) = 2 /\ Len(<<h, h, h>>) = 3
        OBVIOUS
      <4>2. \/ s = <<>> \/ s = <<Head(k.todo)>> \/ s = <<Head(k.todo), Head(k.todo)>>
            \/ s = <<Head(k.todo), Head(k.todo), Head(k.todo)>>
        BY <1>1, Zenon DEF Added
      <4> QED
        BY <4>1, <4>2
    <3>2. PlaysNew(t) /\ Appended(t)
      BY <1>0 DEF SyncedSoFar, At
    <3>3. PICK p, d : native = p \o d /\ Rest(queue) = d \o k.todo
                      /\ p \in Seq(Track) /\ d \in Seq(Track)
      BY <3>2 DEF Appended
    <3>4. k.todo \in Seq(Track)
      BY <1>0, BoundedSeqMembers, PlaybackAssumption DEF Tasks, Queues, PlaybackAssumption
    <3> DEFINE w == <<Head(k.todo)>>
               u == Tail(k.todo)
    <3>5. w \in Seq(Track) /\ u \in Seq(Track) /\ k.todo = w \o u
      BY <1>0, <3>4, HeadTailProperties, HeadThenTail
    <3>6. native' = (p \o d) \o w
      BY <1>1, <3>1, <3>3
    <3> HIDE DEF w, u
    <3>7. d \o w \in Seq(Track) /\ native' = p \o (d \o w) /\ Rest(queue) = (d \o w) \o u
      <4>1. ASSUME NEW x \in Seq(Track), NEW y \in Seq(Track)
            PROVE  /\ d \o x \in Seq(Track)
                   /\ (p \o d) \o x = p \o (d \o x)
                   /\ d \o (x \o y) = (d \o x) \o y
        BY <3>3, SMTT(30)
      <4>2. d \o w \in Seq(Track)
        BY <3>5, <4>1
      <4>3. native' = p \o (d \o w)
        BY <3>5, <3>6, <4>1
      <4>4. Rest(queue) = (d \o w) \o u
        <5>1. d \o (w \o u) = (d \o w) \o u
          BY <3>3, <3>5, SMTT(30)
        <5>2. Rest(queue) = d \o (w \o u)
          BY <3>3, <3>5, Zenon
        <5> QED
          BY <5>1, <5>2, Zenon
      <4> QED
        BY <4>2, <4>3, <4>4
    <3>8. Appended(t)'
      BY <1>0, <2>2, <2>3, <3>3, <3>7 DEF Appended, u
    <3>9. PlaysNew(t)'
      BY <1>0, <2>2, <2>3, <3>2 DEF PlaysNew
    <3> QED
      BY <2>2, <2>3, <3>8, <3>9 DEF SyncedSoFar, At
  <2> QED
    BY <1>0, <2>3, <2>4, OneSynced
<1> QED
  BY <1>2

LEMMA BeginSynced ==
  ASSUME IInv, Synced, NEW t \in Task, Begin(t)
  PROVE  Synced'
<1>1. PICK kind \in {"rerank", "build", "play"} :
        task' = [u \in Task |->
          IF u = t THEN [task[t] EXCEPT
                           !.kind = kind,
                           !.pc = CASE kind = "rerank" -> "before"
                                    [] kind = "build"  -> "commit"
                                    [] OTHER           -> "current",
                           !.alone = \A v \in Task : ~Active(v)]
          ELSE [task[u] EXCEPT !.alone = FALSE]]
  BY DEF Begin
<1>2. \A u \in Task \ {t} : ~task'[u].alone
  BY <1>1 DEF IInv, Tasks
<1>3. /\ task'[t].pc \in {"before", "commit", "current"} /\ task'[t].kind = kind
      /\ task'[t].pc = "current" => kind # "build"
  <2> DEFINE pc == CASE kind = "rerank" -> "before"
                     [] kind = "build"  -> "commit"
                     [] OTHER           -> "current"
             lone == \A v \in Task : ~Active(v)
  <2>1. pc \in {"before", "commit", "current"} /\ (pc = "current" => kind # "build")
    BY <1>1
  <2>2. task'[t] = [task[t] EXCEPT !.kind = kind, !.pc = pc, !.alone = lone]
    BY <1>1
  <2> HIDE DEF pc, lone
  <2>3. task[t] \in Tasks
    BY DEF IInv
  <2>4. task'[t].pc = pc /\ task'[t].kind = kind
    BY <2>2, <2>3 DEF Tasks
  <2> QED
    BY <2>1, <2>4
<1> QED
  BY <1>2, <1>3 DEF Synced, SyncedSoFar, At

LEMMA NextSynced == IInv /\ Synced /\ [Next]_vars => Synced'
<1> SUFFICES ASSUME IInv, Synced, [Next]_vars PROVE Synced'
  OBVIOUS
<1>1. ASSUME NEW t \in Task,
             \/ Begin(t) \/ ReadBefore(t) \/ Rerank(t) \/ BuildFirst(t) \/ BuildAgain(t)
             \/ ReadCurrent(t) \/ Devices(t) \/ Start(t) \/ ReadOrder(t) \/ Add(t) \/ Done(t)
      PROVE  Synced'
  BY <1>1, BeginSynced, QuietSynced, ReadCurrentSynced, PlaySynced, ReadOrderSynced, AddSynced
<1>2. CASE Advance
  <2>1. \A t \in Task : ~task'[t].alone
    BY <1>2 DEF Advance, IInv, Tasks
  <2> QED
    BY <2>1 DEF Synced, SyncedSoFar
<1>3. CASE UNCHANGED <<queue, playing, native, task>>
  BY <1>3 DEF Synced, SyncedSoFar, PlaysNew, Appended, At
<1> QED
  BY <1>1, <1>2, <1>3 DEF Next, DeviceChange, vars

LEMMA AddStays ==
  ASSUME NEW t \in Task, task \in [Task -> Tasks], Add(t)
  PROVE  task'[t].pc = "add"
<1>1. task[t].pc = "add"
  BY DEF Add, At
<1>2. task[t] \in Tasks
  OBVIOUS
<1>3. PICK r : task' = [task EXCEPT ![t] = r] /\ r.pc = "add"
  <2>1. PICK s \in Added(t), ok \in BOOLEAN :
          task' = [task EXCEPT ![t].todo = Tail(@), ![t].good = @ /\ ok /\ Len(s) = 1]
    BY DEF Add
  <2>2. [task[t] EXCEPT !.todo = Tail(@), !.good = @ /\ ok /\ Len(s) = 1].pc = "add"
    BY <1>1, <1>2 DEF Tasks
  <2> QED
    BY <2>1, <2>2
<1> QED
  BY <1>3

(* A task that nothing interleaves with, and that Spotify serves without a *)
(* failure, leaves its stored queue on the device, however many tasks,     *)
(* tracks and leftovers of earlier tasks there are.                        *)
THEOREM UndisturbedInSync == Spec => UndisturbedSync
<1>1. Init => Synced
  BY DEF Init, Synced, SyncedSoFar, At, Blank
<1>2. ASSUME IInv, Synced, [Next]_vars,
             NEW t \in Task, At(t, "add"), task'[t].pc = "ended",
             task[t].alone, task[t].good, queue # <<>>
      PROVE  /\ IsSuffix(Rest(queue), native)
             /\ task[t].current # task[t].before => playing = Current(queue)
  <2>1. task[t].todo = <<>>
    <3>1. task[t] \in Tasks
      BY <1>2 DEF IInv
    <3>2. \A u \in Task \ {t} : \A r : task' = [task EXCEPT ![u] = r] => task'[t] = task[t]
      BY <1>2 DEF IInv
    <3>3. task'[t].pc # task[t].pc /\ task[t].pc = "add"
      BY <1>2 DEF At
    <3>4. PICK u \in Task :
            \/ Begin(u) \/ ReadBefore(u) \/ Rerank(u) \/ BuildFirst(u) \/ BuildAgain(u)
            \/ ReadCurrent(u) \/ Devices(u) \/ Start(u) \/ ReadOrder(u) \/ Add(u) \/ Done(u)
      <4>1. ~Advance
        BY <3>1, <3>3 DEF Advance, Tasks
      <4> QED
        BY <1>2, <3>3, <4>1 DEF Next, DeviceChange, vars
    <3>5. ~Begin(u)
      BY <3>1, <3>3, ZenonT(30) DEF Begin, At, Tasks
    <3>6. u = t
      BY <3>2, <3>3, <3>4, <3>5 DEF ReadBefore, Rerank, BuildFirst, BuildAgain, ReadCurrent,
        Devices, Start, ReadOrder, Add, Done, Goto
    <3>7. Add(t) \/ Done(t)
      BY <3>3, <3>4, <3>5, <3>6 DEF At, ReadBefore, Rerank, BuildFirst, BuildAgain,
        ReadCurrent, Devices, Start, ReadOrder
    <3>8. ~Add(t)
      BY <1>2, <3>3, AddStays DEF IInv
    <3> QED
      BY <3>7, <3>8 DEF Done
  <2>2. PlaysNew(t) /\ Appended(t)
    BY <1>2 DEF Synced, SyncedSoFar
  <2>3. PICK p, d : native = p \o d /\ Rest(queue) = d \o task[t].todo
                    /\ p \in Seq(Track) /\ d \in Seq(Track)
    BY <2>2 DEF Appended
  <2>4. Rest(queue) = d
    BY <2>1, <2>3, ConcatEmptySeq
  <2> QED
    BY <1>2, <2>2, <2>3, <2>4, ConcatIsSuffix DEF PlaysNew
<1>3. IInv /\ Synced /\ [Next]_vars =>
        [\A t \in Task :
           At(t, "add") /\ task'[t].pc = "ended" /\ task[t].alone /\ task[t].good
             /\ queue # <<>> =>
             /\ IsSuffix(Rest(queue), native)
             /\ task[t].current # task[t].before => playing = Current(queue)]_vars
  BY <1>2
<1> QED
  BY <1>1, <1>3, Inductive, NextSynced, PTL DEF Spec, UndisturbedSync
=============================================================================
