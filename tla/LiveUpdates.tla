---------------------------- MODULE LiveUpdates ----------------------------
(***************************************************************************)
(* The WebSocket side of one JAM session: ConnectionManager's registry of  *)
(* sockets, the handler coroutine of each socket, the debounced first      *)
(* build that a connect schedules, and the broadcasts that background      *)
(* tasks send after they have committed a queue.  A broadcast awaits every *)
(* send, so sockets come and go, and other broadcasts run, while it is     *)
(* under way.  What the tasks do to the queue is QueueTasks' subject.      *)
(***************************************************************************)
EXTENDS Naturals

CONSTANTS
  Socket,    \* connections clients open; each is opened once
  Build,     \* builds the debounce timer may start
  Rerank,    \* background tasks that other requests start
  Delay      \* delay of DebounceService, in ticks

ASSUME LiveAssumption ==
  /\ Delay \in Nat \ {0}
  /\ Build \cap Rerank = {}

VARIABLES
  connections,  \* ConnectionManager._connections[session_id]
  handler,      \* where the coroutine of each socket is
  up,           \* sockets whose connection is open
  timers,       \* remaining ticks of the debounce handles not cancelled
  since,        \* history: ticks since the last build started, up to Delay
  task,         \* the background tasks
  heard,        \* history: sockets that received a queue_updated
  failed        \* history: some build ended before its broadcast

vars == <<connections, handler, up, timers, since, task, heard, failed>>

Task == Build \cup Rerank

(* due and told are history: the sockets served when the task committed,   *)
(* and those its broadcast has reached.                                    *)
Blank(pc) == [pc |-> pc, todo |-> {}, dead |-> {}, due |-> {}, told |-> {}]

Init ==
  /\ connections = {} /\ up = {} /\ timers = {} /\ since = Delay /\ failed = FALSE
  /\ handler = [s \in Socket |-> "new"]
  /\ task = [t \in Task |-> Blank("new")]
  /\ heard = {}

Served == {s \in up : handler[s] = "receiving"}

Enter(s, place) == handler' = [handler EXCEPT ![s] = place]
Goto(t, pc) == task' = [task EXCEPT ![t].pc = pc]
End(t, pc) == task' = [task EXCEPT ![t] = Blank(pc)]

Sockets == <<connections, handler, up>>
Clock == <<timers, since>>
Work == <<task, heard, failed>>

-----------------------------------------------------------------------------
(* ConnectionManager and DebounceService.                                  *)

DisconnectAll(S) == connections' = {}   \* mutant: the session's list is dropped
Disconnect(S) == connections' = connections \ S

ScheduleLate == timers' = {Delay + 1}   \* mutant: one tick too many
ScheduleOnce ==   \* mutant: a pending build is cancelled, none is scheduled
  timers' = IF timers = {} THEN {Delay} ELSE {}
ScheduleOneMore == timers' = timers \cup {Delay}   \* mutant: no cancel
Schedule == timers' = {Delay}

-----------------------------------------------------------------------------
(* websocket_endpoint.                                                     *)

(* The socket is accepted and registered before anything is checked.       *)
Accept(s) ==
  /\ handler[s] = "new"
  /\ connections' = connections \cup {s} /\ up' = up \cup {s}
  /\ Enter(s, "checking")
  /\ UNCHANGED <<Clock, Work>>

Authorize(s) ==
  /\ handler[s] = "checking"
  /\ Schedule
  /\ Enter(s, "receiving")
  /\ UNCHANGED <<connections, up, since, Work>>

(* close(1008), and only then disconnect.                                  *)
Refuse(s) ==
  /\ handler[s] = "checking"
  /\ up' = up \ {s}
  /\ Enter(s, "refused")
  /\ UNCHANGED <<connections, Clock, Work>>

(* The end of the handler: of a refused socket, or when receive_text finds *)
(* the connection closed.                                                  *)
Leave(s) ==
  /\ handler[s] = "refused" \/ (handler[s] = "receiving" /\ s \notin up)
  /\ Disconnect({s})
  /\ Enter(s, "done")
  /\ UNCHANGED <<up, Clock, Work>>

(* Any other exception (the database during the checks, a frame that is    *)
(* not text) ends the handler without disconnect.                          *)
Crash(s) ==
  /\ handler[s] \in {"checking", "receiving"}
  /\ up' = up \ {s}
  /\ Enter(s, "crashed")
  /\ UNCHANGED <<connections, Clock, Work>>

(* The client goes away; the handler has yet to find out.                  *)
Drop(s) ==
  /\ s \in up
  /\ up' = up \ {s}
  /\ UNCHANGED <<connections, handler, Clock, Work>>

-----------------------------------------------------------------------------
(* The timer and the tasks.                                                *)

Tick ==
  /\ timers' = {IF n = 0 THEN 0 ELSE n - 1 : n \in timers}
  /\ since' = IF since < Delay THEN since + 1 ELSE Delay
  /\ UNCHANGED <<Sockets, Work>>
  /\ Clock' # Clock

(* A due handle creates the optimize_queue task.  The event loop may be    *)
(* late; a handle can be cancelled until it has run.                       *)
Fire(t) ==
  /\ t \in Build /\ 0 \in timers /\ task[t].pc = "new"
  /\ timers' = timers \ {0} /\ since' = 0
  /\ Goto(t, "running")
  /\ UNCHANGED <<Sockets, heard, failed>>

Request(t) ==
  /\ t \in Rerank /\ task[t].pc = "new"
  /\ Goto(t, "running")
  /\ UNCHANGED <<Sockets, Clock, heard, failed>>

(* The queue is committed.  Playback comes before the broadcast, and none  *)
(* of its errors keeps the broadcast from happening.                       *)
Commit(t) ==
  /\ task[t].pc = "running"
  /\ task' = [task EXCEPT ![t].pc = "playing", ![t].due = Served]
  /\ UNCHANGED <<Sockets, Clock, heard, failed>>

(* An exception before the commit ends a task, logged.                     *)
Fail(t) ==
  /\ task[t].pc = "running"
  /\ failed' = (failed \/ t \in Build)
  /\ End(t, "failed")
  /\ UNCHANGED <<Sockets, Clock, heard>>

(* broadcast copies the list of sockets ...                                *)
Broadcast(t) ==
  /\ task[t].pc = "playing"
  /\ task' = [task EXCEPT ![t].pc = "sending", ![t].todo = connections]
  /\ UNCHANGED <<Sockets, Clock, heard, failed>>

(* Mutant of Send: a dead socket is removed from the list being iterated,  *)
(* which skips the one after it.                                           *)
SendSkipping(t, s) ==
  /\ task[t].pc = "sending" /\ s \in task[t].todo
  /\ \/ /\ s \in up
        /\ task' = [task EXCEPT ![t].todo = @ \ {s}, ![t].told = @ \cup {s}]
     \/ /\ s \notin up
        /\ \E u \in task[t].todo :
             task' = [task EXCEPT ![t].todo = @ \ {s, u}, ![t].dead = @ \cup {s}]
  /\ UNCHANGED <<Sockets, Clock, heard, failed>>

(* ... sends to one after the other, and remembers those whose send        *)
(* raised.  A client that has just gone may still be written to.           *)
Send(t, s) ==
  /\ task[t].pc = "sending" /\ s \in task[t].todo
  /\ \/ /\ s \in up
        /\ task' = [task EXCEPT ![t].todo = @ \ {s}, ![t].told = @ \cup {s}]
        /\ heard' = heard \cup {s}
     \/ /\ s \notin up
        /\ task' = [task EXCEPT ![t].todo = @ \ {s}, ![t].dead = @ \cup {s}]
        /\ UNCHANGED heard
     \/ /\ s \notin up /\ handler[s] \in {"checking", "receiving"}
        /\ task' = [task EXCEPT ![t].todo = @ \ {s}]
        /\ UNCHANGED heard
  /\ UNCHANGED <<Sockets, Clock, failed>>

(* ... which it unregisters in the end.                                    *)
Finish(t) ==
  /\ task[t].pc = "sending" /\ task[t].todo = {}
  /\ Disconnect(task[t].dead)
  /\ End(t, "ended")
  /\ UNCHANGED <<handler, up, Clock, heard, failed>>

-----------------------------------------------------------------------------
Handle(s) == Authorize(s) \/ Refuse(s) \/ Leave(s)

Run(t) ==
  \/ Fire(t) \/ Commit(t) \/ Fail(t) \/ Broadcast(t) \/ Finish(t)
  \/ \E s \in Socket : Send(t, s)

Next ==
  \/ \E s \in Socket : Accept(s) \/ Handle(s) \/ Crash(s) \/ Drop(s)
  \/ \E t \in Task : Request(t) \/ Run(t)
  \/ Tick

Spec == Init /\ [][Next]_vars

(* Time passes, a due timer is run, and every await is answered: a send to *)
(* a client that no longer reads fails when the server's ping times out.   *)
FairSpec ==
  /\ Spec
  /\ WF_vars(Tick)
  /\ \A t \in Task : WF_vars(Run(t))
  /\ \A s \in Socket : WF_vars(Handle(s))

-----------------------------------------------------------------------------
(* Properties.                                                             *)

TypeOK ==
  /\ connections \subseteq Socket /\ up \subseteq Socket
  /\ handler \in [Socket -> {"new", "checking", "refused", "receiving", "crashed", "done"}]
  /\ timers \subseteq 0..Delay /\ since \in 0..Delay
  /\ task \in [Task -> [pc : {"new", "running", "playing", "sending", "ended", "failed"},
                        todo : SUBSET Socket, dead : SUBSET Socket,
                        due : SUBSET Socket, told : SUBSET Socket]]
  /\ heard \subseteq Socket
  /\ failed \in BOOLEAN

(* A client that is being served is registered: sockets that broadcasts    *)
(* and handlers unregister, in any order and possibly twice, never take    *)
(* one along that is still connected.                                      *)
ServedRegistered == Served \subseteq connections

(* Whoever was served when a queue was committed, and still is when the    *)
(* broadcast is over, has been told, whatever came and went meanwhile.     *)
EveryoneTold ==
  [][\A t \in Task : task[t].pc = "sending" /\ task'[t].pc = "ended" =>
       task[t].due \cap Served \subseteq task[t].told]_vars

(* However connects bunch, two debounced builds start at least a delay     *)
(* apart: rapid joins trigger one run.                                     *)
BuildsApart ==
  [][\A t \in Build : task[t].pc = "new" /\ task'[t].pc = "running" => since = Delay]_vars

(* A client that connects hears of a queue, unless it leaves or a build    *)
(* fails: the server sends nothing on connect, so only the debounced build *)
(* (or another task's broadcast) tells it.                                 *)
ConnectAnswered ==
  \A s \in Socket : s \in Served ~> s \in heard \/ s \notin Served \/ failed
=============================================================================
