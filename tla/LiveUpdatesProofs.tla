------------------------- MODULE LiveUpdatesProofs -------------------------
(***************************************************************************)
(* Proofs about LiveUpdates for any sockets, tasks and delay.              *)
(***************************************************************************)
EXTENDS LiveUpdates, TLAPS

-----------------------------------------------------------------------------
(* The inductive invariant.                                                *)

(* An open connection is registered, served yet or not.                    *)
OpenRegistered == up \subseteq connections

(* A socket that was refused has been closed.                              *)
RefusedIsDown == \A s \in up : handler[s] # "refused"

(* A socket that was not accepted yet is nowhere.                          *)
NewIsNowhere ==
  \A s \in Socket : handler[s] = "new" =>
    /\ s \notin connections \cup up
    /\ \A t \in Task : s \notin task[t].todo \cup task[t].dead

(* A send that failed was to a connection that is closed.                  *)
DeadIsDown == \A t \in Task : task[t].dead \cap up = {}

(* A socket that was served when a task committed passed its checks.       *)
DueWasServed ==
  \A t \in Task : \A s \in task[t].due : handler[s] \notin {"new", "checking", "refused"}

(* A broadcast under way still has, or has told, all it has to tell.       *)
TodoOrTold ==
  \A t \in Task : task[t].pc = "sending" =>
    task[t].due \cap Served \subseteq task[t].todo \cup task[t].told

(* One timer at most, and none is due before a delay has passed.           *)
OneTimer ==
  /\ \A m, n \in timers : m = n
  /\ \A n \in timers : since + n >= Delay

IInv ==
  /\ TypeOK /\ OpenRegistered /\ RefusedIsDown /\ NewIsNowhere
  /\ DeadIsDown /\ DueWasServed /\ TodoOrTold /\ OneTimer

USE DEF Sockets, Clock, Work

LEMMA InitIInv == Init => IInv
<1> SUFFICES ASSUME Init PROVE IInv  OBVIOUS
<1>1. \A t \in Task : task[t] = Blank("new")  BY DEF Init
<1>2. TypeOK
  <2>1. Blank("new") \in [pc : {"new", "running", "playing", "sending", "ended", "failed"},
                          todo : SUBSET Socket, dead : SUBSET Socket,
                          due : SUBSET Socket, told : SUBSET Socket]
    BY DEF Blank
  <2>2. Delay \in 0..Delay  BY LiveAssumption DEF LiveAssumption
  <2> QED  BY <2>1, <2>2 DEF Init, TypeOK
<1>3. OpenRegistered /\ NewIsNowhere /\ DeadIsDown
  BY <1>1 DEF Init, OpenRegistered, NewIsNowhere, DeadIsDown, Blank
<1>5. RefusedIsDown  BY DEF Init, RefusedIsDown
<1>4. DueWasServed /\ TodoOrTold /\ OneTimer
  BY <1>1 DEF Init, DueWasServed, TodoOrTold, OneTimer, Blank
<1> QED  BY <1>2, <1>3, <1>4, <1>5 DEF IInv

-----------------------------------------------------------------------------
(* Steps of the handlers: only one socket and the timer change.            *)

LEMMA AcceptIInv == ASSUME IInv, NEW s \in Socket, Accept(s) PROVE IInv'
<1> USE DEF IInv, Accept, Enter
<1>1. \A u \in Socket : handler'[u] = IF u = s THEN "checking" ELSE handler[u]
  BY DEF TypeOK
<1>2. TypeOK'  BY DEF TypeOK
<1>3. OpenRegistered'  BY DEF OpenRegistered
<1>4. NewIsNowhere'  BY <1>1 DEF NewIsNowhere
<1>5. DeadIsDown'  BY DEF DeadIsDown, NewIsNowhere
<1>6. DueWasServed'  BY <1>1 DEF DueWasServed, TypeOK
<1>7. TodoOrTold'  BY <1>1 DEF TodoOrTold, Served, TypeOK
<1>8. OneTimer'  BY DEF OneTimer
<1>9. RefusedIsDown'  BY <1>1 DEF RefusedIsDown, TypeOK
<1> QED  BY <1>2, <1>3, <1>4, <1>5, <1>6, <1>7, <1>8, <1>9

LEMMA AuthorizeIInv == ASSUME IInv, NEW s \in Socket, Authorize(s) PROVE IInv'
<1> USE DEF IInv, Authorize, Enter, Schedule
<1>1. \A u \in Socket : handler'[u] = IF u = s THEN "receiving" ELSE handler[u]
  BY DEF TypeOK
<1>2. TypeOK'  BY LiveAssumption DEF TypeOK, LiveAssumption
<1>3. OpenRegistered'  BY DEF OpenRegistered
<1>4. NewIsNowhere'  BY <1>1 DEF NewIsNowhere
<1>5. DeadIsDown'  BY DEF DeadIsDown
<1>6. DueWasServed'  BY <1>1 DEF DueWasServed
<1>7. TodoOrTold'
  BY <1>1 DEF TodoOrTold, Served, DueWasServed, TypeOK
<1>8. OneTimer'  BY LiveAssumption DEF OneTimer, TypeOK, LiveAssumption
<1>9. RefusedIsDown'  BY <1>1 DEF RefusedIsDown, TypeOK
<1> QED  BY <1>2, <1>3, <1>4, <1>5, <1>6, <1>7, <1>8, <1>9

LEMMA RefuseIInv == ASSUME IInv, NEW s \in Socket, Refuse(s) PROVE IInv'
<1> USE DEF IInv, Refuse, Enter
<1>1. \A u \in Socket : handler'[u] = IF u = s THEN "refused" ELSE handler[u]
  BY DEF TypeOK
<1>2. TypeOK'  BY DEF TypeOK
<1>3. OpenRegistered'  BY DEF OpenRegistered
<1>4. NewIsNowhere'  BY <1>1 DEF NewIsNowhere
<1>5. DeadIsDown'  BY DEF DeadIsDown
<1>6. DueWasServed'  BY <1>1 DEF DueWasServed, TypeOK
<1>7. TodoOrTold'  BY <1>1 DEF TodoOrTold, Served, TypeOK
<1>8. OneTimer'  BY DEF OneTimer
<1>9. RefusedIsDown'  BY <1>1 DEF RefusedIsDown, TypeOK
<1> QED  BY <1>2, <1>3, <1>4, <1>5, <1>6, <1>7, <1>8, <1>9

LEMMA LeaveIInv == ASSUME IInv, NEW s \in Socket, Leave(s) PROVE IInv'
<1> USE DEF IInv, Leave, Enter, Disconnect
<1>1. \A u \in Socket : handler'[u] = IF u = s THEN "done" ELSE handler[u]
  BY DEF TypeOK
<1>2. TypeOK'  BY DEF TypeOK
<1>3. OpenRegistered'
  <2>1. s \notin up  BY DEF RefusedIsDown
  <2> QED  BY <2>1 DEF OpenRegistered
<1>4. NewIsNowhere'  BY <1>1 DEF NewIsNowhere
<1>5. DeadIsDown'  BY DEF DeadIsDown
<1>6. DueWasServed'  BY <1>1 DEF DueWasServed, TypeOK
<1>7. TodoOrTold'  BY <1>1 DEF TodoOrTold, Served, TypeOK
<1>8. OneTimer'  BY DEF OneTimer
<1>9. RefusedIsDown'  BY <1>1 DEF RefusedIsDown
<1> QED  BY <1>2, <1>3, <1>4, <1>5, <1>6, <1>7, <1>8, <1>9

LEMMA CrashIInv == ASSUME IInv, NEW s \in Socket, Crash(s) PROVE IInv'
<1> USE DEF IInv, Crash, Enter
<1>1. \A u \in Socket : handler'[u] = IF u = s THEN "crashed" ELSE handler[u]
  BY DEF TypeOK
<1>2. TypeOK'  BY DEF TypeOK
<1>3. OpenRegistered'  BY DEF OpenRegistered
<1>4. NewIsNowhere'  BY <1>1 DEF NewIsNowhere
<1>5. DeadIsDown'  BY DEF DeadIsDown
<1>6. DueWasServed'  BY <1>1 DEF DueWasServed, TypeOK
<1>7. TodoOrTold'  BY <1>1 DEF TodoOrTold, Served, TypeOK
<1>8. OneTimer'  BY DEF OneTimer
<1>9. RefusedIsDown'  BY <1>1 DEF RefusedIsDown, TypeOK
<1> QED  BY <1>2, <1>3, <1>4, <1>5, <1>6, <1>7, <1>8, <1>9

LEMMA DropIInv == ASSUME IInv, NEW s \in Socket, Drop(s) PROVE IInv'
<1> USE DEF IInv, Drop
<1>1. TypeOK'  BY DEF TypeOK
<1>2. OpenRegistered' /\ NewIsNowhere' /\ DeadIsDown'
  BY DEF OpenRegistered, NewIsNowhere, DeadIsDown
<1>3. DueWasServed' /\ OneTimer'  BY DEF DueWasServed, OneTimer
<1>4. TodoOrTold'  BY DEF TodoOrTold, Served
<1>9. RefusedIsDown'  BY DEF RefusedIsDown, TypeOK
<1> QED  BY <1>1, <1>2, <1>3, <1>4, <1>9

-----------------------------------------------------------------------------
(* Steps of the timer and of the tasks.                                    *)

LEMMA TickIInv == ASSUME IInv, Tick PROVE IInv'
<1> USE DEF IInv, Tick
<1>1. Delay \in Nat \ {0}  BY LiveAssumption DEF LiveAssumption
<1>2. TypeOK'  BY <1>1 DEF TypeOK
<1>3. OpenRegistered' /\ NewIsNowhere' /\ DeadIsDown'
  BY DEF OpenRegistered, NewIsNowhere, DeadIsDown
<1>4. DueWasServed' /\ TodoOrTold'
  BY DEF DueWasServed, TodoOrTold, Served
<1>5. OneTimer'
  <2>1. \A n \in timers : n \in 0..Delay /\ since + n >= Delay  BY DEF TypeOK, OneTimer
  <2>2. \A m \in timers' : \E n \in timers : m = IF n = 0 THEN 0 ELSE n - 1  OBVIOUS
  <2>3. since \in 0..Delay /\ since' = IF since < Delay THEN since + 1 ELSE Delay
    BY DEF TypeOK
  <2>4. \A m \in timers' : since' + m >= Delay  BY <1>1, <2>1, <2>2, <2>3
  <2>5. \A m, n \in timers' : m = n  BY <2>2 DEF OneTimer
  <2> QED  BY <2>4, <2>5 DEF OneTimer
<1>9. RefusedIsDown'  BY DEF RefusedIsDown, TypeOK
<1> QED  BY <1>2, <1>3, <1>4, <1>5, <1>9

LEMMA FireIInv == ASSUME IInv, NEW t \in Task, Fire(t) PROVE IInv'
<1> USE DEF IInv, Fire, Goto
<1>1. \A u \in Task : task'[u] = IF u = t THEN [task[u] EXCEPT !.pc = "running"] ELSE task[u]
  BY DEF TypeOK
<1>2. TypeOK'  BY LiveAssumption DEF TypeOK, LiveAssumption
<1>3. OpenRegistered' /\ NewIsNowhere' /\ DeadIsDown'
  BY <1>1 DEF OpenRegistered, NewIsNowhere, DeadIsDown, TypeOK
<1>4. DueWasServed' /\ TodoOrTold'
  BY <1>1 DEF DueWasServed, TodoOrTold, Served, TypeOK
<1>5. OneTimer'  BY DEF OneTimer
<1>9. RefusedIsDown'  BY DEF RefusedIsDown, TypeOK
<1> QED  BY <1>2, <1>3, <1>4, <1>5, <1>9

LEMMA RequestIInv == ASSUME IInv, NEW t \in Task, Request(t) PROVE IInv'
<1> USE DEF IInv, Request, Goto
<1>1. \A u \in Task : task'[u] = IF u = t THEN [task[u] EXCEPT !.pc = "running"] ELSE task[u]
  BY DEF TypeOK
<1>2. TypeOK'  BY DEF TypeOK
<1>3. OpenRegistered' /\ NewIsNowhere' /\ DeadIsDown'
  BY <1>1 DEF OpenRegistered, NewIsNowhere, DeadIsDown, TypeOK
<1>4. DueWasServed' /\ TodoOrTold' /\ OneTimer'
  BY <1>1 DEF DueWasServed, TodoOrTold, Served, TypeOK, OneTimer
<1>9. RefusedIsDown'  BY DEF RefusedIsDown, TypeOK
<1> QED  BY <1>2, <1>3, <1>4, <1>9

(* Commit and Broadcast change two fields of one task and nothing else.    *)
LEMMA TwoFields ==
  ASSUME IInv, NEW t \in Task, NEW pc \in {"playing", "sending"},
         NEW todo \in SUBSET Socket, NEW due \in SUBSET Socket,
         task' = [task EXCEPT ![t] = [task[t] EXCEPT !.pc = pc, !.todo = todo, !.due = due]],
         UNCHANGED <<connections, handler, up, timers, since, heard, failed>>,
         \A s \in todo : handler[s] # "new",
         \A s \in due : handler[s] \notin {"new", "checking", "refused"},
         pc = "sending" => due \cap Served \subseteq todo
  PROVE  IInv'
<1> USE DEF IInv
<1>1. \A u \in Task : task'[u] = IF u = t THEN [task[t] EXCEPT !.pc = pc, !.todo = todo, !.due = due]
                                 ELSE task[u]
  BY DEF TypeOK
<1>2. /\ task'[t].pc = pc /\ task'[t].todo = todo /\ task'[t].due = due
      /\ task'[t].dead = task[t].dead /\ task'[t].told = task[t].told
  BY <1>1 DEF TypeOK
<1>3. TypeOK'  BY DEF TypeOK
<1>4. OpenRegistered' /\ RefusedIsDown' /\ OneTimer'
  BY DEF OpenRegistered, RefusedIsDown, OneTimer
<1>5. NewIsNowhere'  BY <1>1, <1>2 DEF NewIsNowhere
<1>6. DeadIsDown'  BY <1>1, <1>2 DEF DeadIsDown
<1>7. DueWasServed'  BY <1>1, <1>2 DEF DueWasServed
<1>8. TodoOrTold'  BY <1>1, <1>2 DEF TodoOrTold, Served
<1> QED  BY <1>3, <1>4, <1>5, <1>6, <1>7, <1>8

LEMMA CommitIInv == ASSUME IInv, NEW t \in Task, Commit(t) PROVE IInv'
<1>1. Served \in SUBSET Socket /\ task[t].todo \in SUBSET Socket
  BY DEF IInv, TypeOK, Served
<1>2. task' = [task EXCEPT ![t] = [task[t] EXCEPT !.pc = "playing", !.todo = task[t].todo,
                                                  !.due = Served]]
  BY DEF Commit, IInv, TypeOK
<1>3. \A s \in task[t].todo : handler[s] # "new"  BY <1>1 DEF IInv, NewIsNowhere
<1>4. \A s \in Served : handler[s] \notin {"new", "checking", "refused"}  BY DEF Served
<1> QED  BY <1>1, <1>2, <1>3, <1>4, TwoFields DEF Commit

LEMMA BroadcastIInv == ASSUME IInv, NEW t \in Task, Broadcast(t) PROVE IInv'
<1>1. connections \in SUBSET Socket /\ task[t].due \in SUBSET Socket
  BY DEF IInv, TypeOK
<1>2. task' = [task EXCEPT ![t] = [task[t] EXCEPT !.pc = "sending", !.todo = connections,
                                                  !.due = task[t].due]]
  BY DEF Broadcast, IInv, TypeOK
<1>3. \A s \in connections : handler[s] # "new"  BY <1>1 DEF IInv, NewIsNowhere
<1>4. Served \subseteq connections  BY DEF Served, IInv, OpenRegistered
<1>5. \A s \in task[t].due : handler[s] \notin {"new", "checking", "refused"}
  BY DEF IInv, DueWasServed
<1>6. task[t].due \cap Served \subseteq connections  BY <1>4
<1>7. UNCHANGED <<connections, handler, up, timers, since, heard, failed>>
  BY DEF Broadcast
<1> QED  BY <1>1, <1>2, <1>3, <1>5, <1>6, <1>7, TwoFields

(* A task that ends is blank again.                                        *)
LEMMA EndIInv ==
  ASSUME IInv, NEW t \in Task, NEW pc \in {"ended", "failed"}, End(t, pc),
         NEW S \in SUBSET connections, S \cap up = {}, connections' = connections \ S,
         UNCHANGED <<handler, up, timers, since, heard>>, failed' \in BOOLEAN
  PROVE  IInv'
<1> USE DEF IInv, End
<1>1. \A u \in Task : task'[u] = IF u = t THEN Blank(pc) ELSE task[u]
  BY DEF TypeOK
<1>2. Blank(pc) \in [pc : {"new", "running", "playing", "sending", "ended", "failed"},
                     todo : SUBSET Socket, dead : SUBSET Socket,
                     due : SUBSET Socket, told : SUBSET Socket]
  BY DEF Blank
<1>3. TypeOK'  BY <1>2 DEF TypeOK
<1>4. OpenRegistered' /\ NewIsNowhere' /\ DeadIsDown'
  BY <1>1 DEF OpenRegistered, NewIsNowhere, DeadIsDown, Blank
<1>5. DueWasServed' /\ TodoOrTold' /\ OneTimer'
  BY <1>1 DEF DueWasServed, TodoOrTold, Served, OneTimer, Blank
<1>6. RefusedIsDown'  BY DEF RefusedIsDown
<1> QED  BY <1>3, <1>4, <1>5, <1>6

LEMMA FailIInv == ASSUME IInv, NEW t \in Task, Fail(t) PROVE IInv'
<1>1. failed' \in BOOLEAN  BY DEF Fail, IInv, TypeOK
<1>2. connections' = connections \ {}  BY DEF Fail
<1> QED  BY <1>1, <1>2, EndIInv DEF Fail

LEMMA SendIInv == ASSUME IInv, NEW t \in Task, NEW s \in Socket, Send(t, s) PROVE IInv'
<1> USE DEF IInv
<1>1. PICK told \in SUBSET Socket, dead \in SUBSET Socket :
        /\ task' = [task EXCEPT ![t] = [task[t] EXCEPT !.todo = @ \ {s}, !.dead = dead, !.told = told]]
        /\ task[t].told \subseteq told /\ (s \in up => s \in told)
        /\ dead = task[t].dead \/ (dead = task[t].dead \cup {s} /\ s \notin up)
  <2>1. CASE s \in up
    <3>1. task' = [task EXCEPT ![t] = [task[t] EXCEPT !.todo = @ \ {s}, !.dead = task[t].dead,
                                                      !.told = task[t].told \cup {s}]]
      BY <2>1 DEF Send, TypeOK
    <3>2. task[t].dead \in SUBSET Socket /\ task[t].told \cup {s} \in SUBSET Socket
      BY DEF TypeOK
    <3> QED  BY <3>1, <3>2
  <2>2. CASE s \notin up /\ task' = [task EXCEPT ![t].todo = @ \ {s}, ![t].dead = @ \cup {s}]
    <3>1. task' = [task EXCEPT ![t] = [task[t] EXCEPT !.todo = @ \ {s}, !.told = task[t].told,
                                                      !.dead = task[t].dead \cup {s}]]
      BY <2>2 DEF TypeOK
    <3>2. task[t].told \in SUBSET Socket /\ task[t].dead \cup {s} \in SUBSET Socket
      BY DEF TypeOK
    <3> QED  BY <2>2, <3>1, <3>2
  <2>3. CASE s \notin up /\ task' = [task EXCEPT ![t].todo = @ \ {s}]
    <3>1. task' = [task EXCEPT ![t] = [task[t] EXCEPT !.todo = @ \ {s}, !.told = task[t].told,
                                                      !.dead = task[t].dead]]
      BY <2>3 DEF TypeOK
    <3>2. task[t].told \in SUBSET Socket /\ task[t].dead \in SUBSET Socket
      BY DEF TypeOK
    <3> QED  BY <2>3, <3>1, <3>2
  <2> QED  BY <2>1, <2>2, <2>3 DEF Send
<1>2. \A u \in Task :
        task'[u] = IF u = t THEN [task[t] EXCEPT !.todo = @ \ {s}, !.dead = dead, !.told = told]
                   ELSE task[u]
  BY <1>1 DEF TypeOK
<1>3. /\ task'[t].todo = task[t].todo \ {s} /\ task'[t].dead = dead
      /\ task'[t].told = told /\ task'[t].pc = task[t].pc /\ task'[t].due = task[t].due
  BY <1>2 DEF TypeOK
<1>4. UNCHANGED <<connections, handler, up, timers, since, failed>> /\ heard' \subseteq Socket
      /\ s \in task[t].todo
  BY DEF Send, TypeOK
<1>5. TypeOK'  BY <1>1, <1>4 DEF TypeOK
<1>6. OpenRegistered' /\ RefusedIsDown' /\ OneTimer'
  BY <1>4 DEF OpenRegistered, RefusedIsDown, OneTimer
<1>7. NewIsNowhere'
  <2>1. task'[t].todo \cup task'[t].dead \subseteq task[t].todo \cup task[t].dead
    BY <1>1, <1>3, <1>4
  <2> QED  BY <1>2, <1>4, <2>1 DEF NewIsNowhere
<1>8. DeadIsDown'  BY <1>1, <1>2, <1>3, <1>4 DEF DeadIsDown
<1>9. DueWasServed'  BY <1>2, <1>3, <1>4 DEF DueWasServed
<1>10. TodoOrTold'  BY <1>1, <1>2, <1>3, <1>4 DEF TodoOrTold, Served
<1> QED  BY <1>5, <1>6, <1>7, <1>8, <1>9, <1>10

LEMMA FinishIInv == ASSUME IInv, NEW t \in Task, Finish(t) PROVE IInv'
<1> DEFINE S == task[t].dead \cap connections
<1>1. S \in SUBSET connections /\ S \cap up = {} /\ connections' = connections \ S
  BY DEF Finish, Disconnect, IInv, DeadIsDown
<1>2. failed' \in BOOLEAN  BY DEF Finish, IInv, TypeOK
<1> HIDE DEF S
<1> QED  BY <1>1, <1>2, EndIInv DEF Finish

LEMMA StutterIInv == IInv /\ UNCHANGED vars => IInv'
  BY DEF vars, IInv, TypeOK, OpenRegistered, RefusedIsDown, NewIsNowhere, DeadIsDown,
         DueWasServed, TodoOrTold, Served, OneTimer

LEMMA NextIInv == IInv /\ [Next]_vars => IInv'
<1> SUFFICES ASSUME IInv, [Next]_vars PROVE IInv'  OBVIOUS
<1>1. ASSUME NEW s \in Socket,
             Accept(s) \/ Authorize(s) \/ Refuse(s) \/ Leave(s) \/ Crash(s) \/ Drop(s)
      PROVE  IInv'
  BY <1>1, AcceptIInv, AuthorizeIInv, RefuseIInv, LeaveIInv, CrashIInv, DropIInv
<1>2. ASSUME NEW t \in Task,
             Fire(t) \/ Request(t) \/ Commit(t) \/ Fail(t) \/ Broadcast(t) \/ Finish(t)
      PROVE  IInv'
  BY <1>2, FireIInv, RequestIInv, CommitIInv, FailIInv, BroadcastIInv, FinishIInv
<1>3. ASSUME NEW t \in Task, NEW s \in Socket, Send(t, s) PROVE IInv'
  BY <1>3, SendIInv
<1>4. CASE Tick  BY <1>4, TickIInv
<1>5. CASE UNCHANGED vars  BY <1>5, StutterIInv
<1> QED  BY <1>1, <1>2, <1>3, <1>4, <1>5 DEF Next, Handle, Run

LEMMA Inductive == Spec => []IInv
  BY InitIInv, NextIInv, PTL DEF Spec

-----------------------------------------------------------------------------
(* For any number of sockets and overlapping broadcasts, a served client   *)
(* stays registered.                                                       *)
THEOREM ServedStayRegistered == Spec => []ServedRegistered
<1>1. IInv => ServedRegistered
  BY DEF IInv, OpenRegistered, ServedRegistered, Served
<1> QED  BY <1>1, Inductive, PTL

(* Every variable keeps its type.                                          *)
THEOREM TypeCorrect == Spec => []TypeOK
<1>1. IInv => TypeOK  BY DEF IInv
<1> QED  BY <1>1, Inductive, PTL

(* A broadcast that ends has told everyone that was served when its task   *)
(* committed and still is.                                                 *)
THEOREM BroadcastTellsEveryone == Spec => EveryoneTold
<1>1. IInv /\ [Next]_vars =>
        [\A t \in Task : task[t].pc = "sending" /\ task'[t].pc = "ended" =>
           task[t].due \cap Served \subseteq task[t].told]_vars
  <2> SUFFICES ASSUME IInv, Next, NEW t \in Task, task[t].pc = "sending", task'[t].pc = "ended"
               PROVE  task[t].due \cap Served \subseteq task[t].told
    OBVIOUS
  <2>1. Finish(t)
    <3>1. ASSUME NEW u \in Task, NEW s \in Socket, Send(u, s)  PROVE FALSE
      BY <3>1 DEF Send, IInv, TypeOK
    <3>2. ASSUME NEW u \in Task, Fire(u) \/ Request(u) \/ Commit(u) \/ Broadcast(u)
          PROVE  FALSE
      BY <3>2 DEF Fire, Request, Commit, Broadcast, Goto, IInv, TypeOK
    <3>3. ASSUME NEW u \in Task, Fail(u)  PROVE FALSE
      BY <3>3 DEF Fail, End, Blank, IInv, TypeOK
    <3>4. ASSUME NEW u \in Task, Finish(u)  PROVE u = t
      BY <3>4 DEF Finish, End, IInv, TypeOK
    <3>5. ASSUME task' = task  PROVE FALSE  BY <3>5
    <3> QED
      BY <3>1, <3>2, <3>3, <3>4, <3>5
      DEF Next, Run, Handle, Accept, Authorize, Refuse, Leave, Crash, Drop, Tick
  <2>2. task[t].todo = {}  BY <2>1 DEF Finish
  <2> QED  BY <2>2 DEF IInv, TodoOrTold
<1> QED  BY <1>1, Inductive, PTL DEF Spec, EveryoneTold

(* Two debounced builds start at least a delay apart, however connects     *)
(* and timer expiries interleave.                                          *)
THEOREM DebounceSpacesBuilds == Spec => BuildsApart
<1>1. IInv /\ [Next]_vars =>
        [\A t \in Build : task[t].pc = "new" /\ task'[t].pc = "running" => since = Delay]_vars
  <2> SUFFICES ASSUME IInv, Next, NEW t \in Build, task[t].pc = "new", task'[t].pc = "running"
               PROVE  since = Delay
    OBVIOUS
  <2> t \in Task  BY DEF Task
  <2>1. Fire(t)
    <3>1. ASSUME NEW u \in Task, NEW s \in Socket, Send(u, s)  PROVE FALSE
      BY <3>1 DEF Send, IInv, TypeOK
    <3>2. ASSUME NEW u \in Task, Commit(u) \/ Broadcast(u) PROVE FALSE
      BY <3>2 DEF Commit, Broadcast, IInv, TypeOK
    <3>3. ASSUME NEW u \in Task, Fail(u) \/ Finish(u)  PROVE FALSE
      BY <3>3 DEF Fail, Finish, End, Blank, IInv, TypeOK
    <3>4. ASSUME NEW u \in Task, Request(u)  PROVE FALSE
      BY <3>4, LiveAssumption DEF Request, Goto, IInv, TypeOK, LiveAssumption
    <3>5. ASSUME NEW u \in Task, Fire(u)  PROVE u = t
      BY <3>5 DEF Fire, Goto, IInv, TypeOK
    <3>6. ASSUME task' = task  PROVE FALSE  BY <3>6
    <3> QED
      BY <3>1, <3>2, <3>3, <3>4, <3>5, <3>6
      DEF Next, Run, Handle, Accept, Authorize, Refuse, Leave, Crash, Drop, Tick
  <2>2. since + 0 >= Delay /\ since \in 0..Delay
    BY <2>1 DEF Fire, IInv, OneTimer, TypeOK
  <2> QED  BY <2>2, LiveAssumption DEF LiveAssumption
<1> QED  BY <1>1, Inductive, PTL DEF Spec, BuildsApart
=============================================================================
