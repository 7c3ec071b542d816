-------------------------- MODULE SessionLifecycle --------------------------
(***************************************************************************)
(* The requests that open, join, close, skip in, fill and export a jam     *)
(* session, each a row of SQL statements run over a pooled connection that *)
(* the request keeps until it commits or ends, and the background tasks    *)
(* that follow some of them over a connection of their own.  A request     *)
(* that has committed and reads again needs a connection again.            *)
(***************************************************************************)
EXTENDS Integers, Sequences, FiniteSets

CONSTANTS
  Requests, Users, Codes, Tracks,
  Jam, Host,    \* the session there is at first, and its host
  Mixes,        \* the kinds of requests made together, and who makes them
  PoolSize,     \* connections of the engine's pool, overflow included
  Queues,       \* the queues a rebuild may leave, as sequences of tracks
  Orders,       \* scored tracks of a generated playlist, best first
  Duration, Limit,  \* of a track, and of a generated playlist
  Half, Pcts,   \* half of a track, and the percentages a skip reports
  MaxAttempts   \* attempts of with_retry

VARIABLES
  asks,         \* asks[r]: kind and user of request r
  req,          \* req[r]: where request r is, and how many connections it holds
  read,         \* read[r]: the session it is about, and what else it has read
  calls,        \* calls[r]: what its export has done on the platform
  sessions,     \* committed session rows: code, host and status by id
  members,      \* committed participant rows
  queue,        \* queue[s]: the tracks queued in session s, in order, the
                \* number of its rebuild, and what generate filled it from
  events,       \* committed playback events
  listens       \* history: session and track of every listen past half

vars == <<asks, req, read, calls, sessions, members, queue, events, listens>>
stored == <<sessions, members, queue, events, listens>>

Kinds == {"create", "join", "close", "export", "skip", "generate", "socket"}
Ids == {Jam} \cup Requests      \* a session is named by the request that made it
NoCode == "none"
Ended == {"done", "refused", "failed", "exported", "unprocessable"}

ASSUME MixesOfRequests == Mixes \subseteq [Requests -> [kind : Kinds, user : Users]]
ASSUME PoolSizeNat == PoolSize \in Nat \ {0}
ASSUME JamIsNoRequest == Jam \notin Requests /\ Host \in Users

(* A platform may report any duration; duration_positive checks the limit. *)
ASSUME OrdersOfTracks ==
  Orders \subseteq Seq(Tracks) /\ Duration \in [Tracks -> Int] /\ Limit \in Nat

Init ==
  /\ asks \in Mixes
  /\ req = [r \in Requests |-> [pc |-> "arrived", held |-> 0]]
  /\ read = [r \in Requests |-> [on |-> Jam, code |-> NoCode, seen |-> 0, heard |-> {}]]
  /\ calls = [r \in Requests |-> [made |-> 0, adds |-> 0, tries |-> 0]]
  /\ \E c \in Codes : sessions = [s \in {Jam} |-> [code |-> c, host |-> Host, status |-> "active"]]
  /\ members = {[id |-> Jam, session |-> Jam, user |-> Host]}
  /\ \E q \in Queues :
       queue = [s \in Ids |-> [tracks |-> IF s = Jam THEN q ELSE <<>>, build |-> 0, from |-> <<>>]]
  /\ events = {} /\ listens = {}

-----------------------------------------------------------------------------
(* The pool.  A request's own connection and its task's are both counted.  *)
Held == {c \in Requests \X {1, 2} : c[2] <= req[c[1]].held}
Free == Cardinality(Held) < PoolSize

Visible == DOMAIN sessions
At(r, kind, pc) == asks[r].kind = kind /\ req[r].pc = pc
Goes(r, pc) == req' = [req EXCEPT ![r].pc = pc]
Holds(r, pc, n) == req' = [req EXCEPT ![r] = [pc |-> pc, held |-> n]]
Ends(r, pc) == Holds(r, pc, 0)

(* The first query of a request takes a connection: the user of the token. *)
Begins(r, kind) == At(r, kind, "arrived") /\ Free
Takes(r, pc, s) == Holds(r, pc, 1) /\ read' = [read EXCEPT ![r].on = s]

(* The lookup found nothing, or not what the request may act on.           *)
Refuses(r) ==
  /\ asks[r].kind \in {"create", "join", "close", "export", "generate", "socket"}
  /\ req[r].pc = "arrived" /\ Free
  /\ Ends(r, "refused")
  /\ UNCHANGED <<asks, read, calls, stored>>

(* create_session: a code no session has, ...                              *)
ChooseCode(r) ==
  /\ Begins(r, "create")
  /\ \E c \in Codes :
       /\ \A s \in Visible : sessions[s].code # c
       /\ Holds(r, "coded", 1)
       /\ read' = [read EXCEPT ![r] = [@ EXCEPT !.on = r, !.code = c]]
  /\ UNCHANGED <<asks, calls, stored>>

CodeTakenNever(r) == FALSE   \* mutant: no unique key
CodeTaken(r) == \E s \in Visible : sessions[s].code = read[r].code
CodePending(r) ==
  \E o \in Requests \ {r} : req[o].pc = "flushed" /\ read[o].code = read[r].code

(* ... a pending row, whose insert waits for one of the same code that is  *)
(* not committed, and fails on one that is, ...                            *)
Flush(r) ==
  /\ At(r, "create", "coded") /\ ~CodePending(r)
  /\ IF CodeTaken(r) THEN Ends(r, "failed") ELSE Goes(r, "flushed")
  /\ UNCHANGED <<asks, read, calls, stored>>

NewSessionPending(r) ==   \* mutant: the status is never set
  [code |-> read[r].code, host |-> asks[r].user, status |-> "pending"]
NewSession(r) == [code |-> read[r].code, host |-> asks[r].user, status |-> "active"]

(* ... the host's participation and the active status in one transaction.  *)
CommitCreate(r) ==
  /\ At(r, "create", "flushed")
  /\ sessions' = [s \in Visible \cup {r} |-> IF s = r THEN NewSession(r) ELSE sessions[s]]
  /\ members' = members \cup {[id |-> r, session |-> r, user |-> asks[r].user]}
  /\ Ends(r, "written")
  /\ UNCHANGED <<asks, read, calls, queue, events, listens>>

Member(s, u) == \E m \in members : m.session = s /\ m.user = u

(* join_session: the session by its code, not closed; not a member yet.    *)
FindOpen(r) ==
  /\ Begins(r, "join")
  /\ \E s \in Visible : sessions[s].status # "closed" /\ Takes(r, "open", s)
  /\ UNCHANGED <<asks, calls, stored>>

CheckMember(r) ==
  /\ At(r, "join", "open")
  /\ IF Member(read[r].on, asks[r].user) THEN Ends(r, "refused") ELSE Goes(r, "welcome")
  /\ UNCHANGED <<asks, read, calls, stored>>

(* The unique key on session and user fails the insert of a second row.    *)
ViolatesNever(r) == FALSE   \* mutant: no unique key
Violates(r) == Member(read[r].on, asks[r].user)

CommitJoinSaving(r) ==   \* mutant: the session row read before is written back
  /\ At(r, "join", "welcome") /\ ~Violates(r)
  /\ members' = members \cup {[id |-> r, session |-> read[r].on, user |-> asks[r].user]}
  /\ sessions' = [sessions EXCEPT ![read[r].on].status = "active"]
  /\ Ends(r, "written")
  /\ UNCHANGED <<asks, read, calls, queue, events, listens>>

CommitJoin(r) ==
  /\ At(r, "join", "welcome")
  /\ IF Violates(r) THEN Ends(r, "failed") /\ UNCHANGED members
     ELSE /\ members' = members \cup {[id |-> r, session |-> read[r].on, user |-> asks[r].user]}
          /\ Ends(r, "written")
  /\ UNCHANGED <<asks, read, calls, sessions, queue, events, listens>>

(* close_session by the host, whatever the status is.                      *)
FindOwned(r) ==
  /\ asks[r].kind \in {"close", "export"} /\ req[r].pc = "arrived" /\ Free
  /\ \E s \in Visible : sessions[s].host = asks[r].user /\ Takes(r, "owned", s)
  /\ UNCHANGED <<asks, calls, stored>>

Closed(s) == [sessions EXCEPT ![s].status = "closed"]

CommitClose(r) ==
  /\ At(r, "close", "owned")
  /\ sessions' = Closed(read[r].on)
  /\ Ends(r, "written")
  /\ UNCHANGED <<asks, read, calls, members, queue, events, listens>>

(* The refresh that follows a commit takes a connection again.  A request  *)
(* with a background task keeps it until that task has ended.              *)
Refresh(r) ==
  /\ req[r].pc = "written" /\ Free
  /\ IF asks[r].kind = "join"
     THEN Holds(r, "behind", 1)
     ELSE Ends(r, "done")
  /\ UNCHANGED <<asks, read, calls, stored>>

-----------------------------------------------------------------------------
(* export_session: the tracks played past half, over all events, ...       *)
Qualifying(s) == {t \in Tracks : \E e \in events :
                    e.session = s /\ e.track = t /\ e.pct >= Half}

ReadEvents(r) ==
  /\ At(r, "export", "owned")
  /\ Goes(r, "filtered")
  /\ read' = [read EXCEPT ![r].heard = Qualifying(read[r].on)]
  /\ UNCHANGED <<asks, calls, stored>>

(* ... the session closed and committed, ...                               *)
CloseExported(r) ==
  /\ At(r, "export", "filtered")
  /\ sessions' = Closed(read[r].on)
  /\ Ends(r, IF read[r].heard = {} THEN "done" ELSE "creating")
  /\ UNCHANGED <<asks, read, calls, members, queue, events, listens>>

(* ... then a playlist created on the platform and filled.  Each call is   *)
(* tried again when its answer is lost or it fails; an error that is not   *)
(* an HTTPException ends as unprocessable.                                 *)
Counts(r, made, adds, tries) ==
  calls' = [calls EXCEPT ![r] = [made |-> @.made + made, adds |-> @.adds + adds, tries |-> tries]]
Gives(r, pc, made, adds) == Goes(r, pc) /\ Counts(r, made, adds, 0)
Retries(r, made, adds) ==
  /\ Goes(r, IF calls[r].tries + 1 < MaxAttempts THEN req[r].pc ELSE "unprocessable")
  /\ Counts(r, made, adds, calls[r].tries + 1)
Rejected(r) == (Goes(r, "failed") \/ Goes(r, "unprocessable")) /\ UNCHANGED calls

CreatePlaylist(r) ==
  /\ At(r, "export", "creating")
  /\ \/ Gives(r, "filling", 1, 0)
     \/ \E made \in 0 .. 1 : Retries(r, made, 0)
     \/ Rejected(r)
  /\ UNCHANGED <<asks, read, stored>>

FillPlaylist(r) ==
  /\ At(r, "export", "filling")
  /\ \/ Gives(r, "exported", 0, 1)
     \/ \E adds \in 0 .. 1 : Retries(r, 0, adds)
     \/ Rejected(r)
  /\ UNCHANGED <<asks, read, stored>>

-----------------------------------------------------------------------------
(* skip: the event of the first queued track, whatever the session status; *)
(* nothing is committed when the queue is empty.                           *)
ReadCurrent(r) ==
  /\ Begins(r, "skip")
  /\ \E s \in Visible :
       /\ Holds(r, IF queue[s].tracks = <<>> THEN "behind" ELSE "playing", 1)
       /\ read' = [read EXCEPT ![r] = [@ EXCEPT !.on = s, !.seen = queue[s].build]]
  /\ UNCHANGED <<asks, calls, stored>>

(* The event refers to the row that was read: it fails when that is gone.  *)
CommitSkip(r) ==
  /\ At(r, "skip", "playing")
  /\ LET s == read[r].on IN
       IF queue[s].build # read[r].seen THEN Ends(r, "failed") /\ UNCHANGED <<events, listens>>
       ELSE \E pct \in Pcts : LET t == Head(queue[s].tracks) IN
              /\ events' = events \cup {[session |-> s, track |-> t, pct |-> pct, linked |-> TRUE]}
              /\ listens' = IF pct >= Half THEN listens \cup {<<s, t>>} ELSE listens
              /\ Holds(r, "behind", 0)
  /\ UNCHANGED <<asks, read, calls, sessions, members, queue>>

(* Deleting queue rows leaves their events without a link to them.         *)
DetachedByCascade(s) == {e \in events : e.session # s \/ ~e.linked}   \* mutant
Detached(s) == {[e EXCEPT !.linked = @ /\ e.session # s] : e \in events}

Rebuilds(s, q, from) ==
  /\ queue' = [queue EXCEPT ![s] = [tracks |-> q, build |-> @.build + 1, from |-> from]]
  /\ events' = Detached(s)

(* The background task of a join or skip runs on a connection of its own   *)
(* and leaves a rebuilt queue, or none of its work.                        *)
BeginTask(r) ==
  /\ req[r].pc = "behind" /\ Free
  /\ Holds(r, "working", req[r].held + 1)
  /\ UNCHANGED <<asks, read, calls, stored>>

EndTask(r) ==
  /\ req[r].pc = "working"
  /\ \/ \E q \in Queues : Rebuilds(read[r].on, q, <<>>)
     \/ UNCHANGED <<queue, events>>
  /\ Ends(r, "done")
  /\ UNCHANGED <<asks, read, calls, sessions, members, listens>>

-----------------------------------------------------------------------------
(* generate_playlist: the scored tracks, best first, as far as they fit.   *)
FitsBeyond(fill, t) == Duration[t] > 0 /\ fill.ms < Limit   \* mutant
Fits(fill, t) == Duration[t] > 0 /\ fill.ms < Limit /\ fill.ms + Duration[t] <= Limit
WithTrack(fill, t) ==
  IF Fits(fill, t) THEN [picked |-> Append(fill.picked, t), ms |-> fill.ms + Duration[t]]
  ELSE fill
Filled(order) ==
  LET fill[i \in 0 .. Len(order)] ==
        IF i = 0 THEN [picked |-> <<>>, ms |-> 0] ELSE WithTrack(fill[i-1], order[i])
  IN fill[Len(order)]

(* Its connection is kept while the participants' playlists are scanned.   *)
ScanMembers(r) ==
  /\ Begins(r, "generate")
  /\ \E s \in Visible : Takes(r, "scanning", s)
  /\ UNCHANGED <<asks, calls, stored>>

CommitFill(r) ==
  /\ At(r, "generate", "scanning")
  /\ \E order \in Orders : Rebuilds(read[r].on, Filled(order).picked, order)
  /\ Ends(r, "written")
  /\ UNCHANGED <<asks, read, calls, sessions, members, listens>>

-----------------------------------------------------------------------------
(* A socket's handler keeps the connection of its two checks for as long   *)
(* as the client stays.                                                    *)
Attach(r) ==
  /\ Begins(r, "socket")
  /\ \E s \in Visible : Member(s, asks[r].user) /\ Takes(r, "attached", s)
  /\ UNCHANGED <<asks, calls, stored>>

Detach(r) == At(r, "socket", "attached") /\ Ends(r, "done") /\ UNCHANGED <<asks, read, calls, stored>>

(* Whoever waits for a connection of a full pool gives up after a while.   *)
WaitsForConnection(r) == req[r].pc \in {"arrived", "written", "behind"}
TimesOutNever(r) == FALSE   \* mutant: waits for a connection without limit
TimesOut(r) == WaitsForConnection(r) /\ ~Free

PoolTimeout(r) ==
  /\ TimesOut(r)
  /\ Ends(r, IF req[r].pc = "behind" THEN "done" ELSE "failed")
  /\ UNCHANGED <<asks, read, calls, stored>>

Step(r) ==
  \/ Refuses(r) \/ ChooseCode(r) \/ Flush(r) \/ CommitCreate(r)
  \/ FindOpen(r) \/ CheckMember(r) \/ CommitJoin(r)
  \/ FindOwned(r) \/ CommitClose(r) \/ Refresh(r)
  \/ ReadEvents(r) \/ CloseExported(r) \/ CreatePlaylist(r) \/ FillPlaylist(r)
  \/ ReadCurrent(r) \/ CommitSkip(r) \/ BeginTask(r) \/ EndTask(r)
  \/ ScanMembers(r) \/ CommitFill(r) \/ Attach(r)

Next == \E r \in Requests : Step(r) \/ PoolTimeout(r) \/ Detach(r)

Spec == Init /\ [][Next]_vars

(* The event loop resumes every request, and the pool's timeout is bounded;*)
(* a socket may stay for ever.                                             *)
FairSpec == Spec /\ \A r \in Requests : WF_vars(Step(r)) /\ WF_vars(PoolTimeout(r))

-----------------------------------------------------------------------------
Places == Ended \cup {"arrived", "coded", "flushed", "written", "open", "welcome", "owned",
  "filtered", "creating", "filling", "playing", "behind", "working", "scanning", "attached"}

(* Rows and requests keep their columns and steps.                         *)
RowsOK ==
  /\ Visible \subseteq Ids
  /\ sessions \in [Visible -> [code : Codes, host : Users, status : {"active", "closed"}]]
  /\ members \subseteq [id : Ids, session : Ids, user : Users]
  /\ DOMAIN queue = Ids /\ \A s \in Ids : queue[s].build \in Nat
  /\ \A e \in events : e.session \in Ids /\ e.pct \in Pcts /\ e.linked \in BOOLEAN
TypeOK ==
  /\ asks \in [Requests -> [kind : Kinds, user : Users]]
  /\ req \in [Requests -> [pc : Places, held : 0 .. 2]]
  /\ read \in [Requests -> [on : Ids, code : Codes \cup {NoCode}, seen : Nat, heard : SUBSET Tracks]]
  /\ calls \in [Requests -> [made : Nat, adds : Nat, tries : Nat]]
  /\ RowsOK

(* Two requests that both saw a code free, or a user missing, leave one    *)
(* session of that code and one participation of that user.                *)
CodesDistinct ==
  \A s, z \in Visible : sessions[s].code = sessions[z].code => s = z
OneParticipation ==
  \A m, n \in members : m.session = n.session /\ m.user = n.user => m = n

(* Joins and exports that overlap a close never open the session again.    *)
ClosedForGood ==
  [][\A s \in Visible : sessions[s].status = "closed" =>
       s \in DOMAIN sessions' /\ sessions'[s].status = "closed"]_vars

(* TC-9: an export finds exactly the tracks once played past half, however *)
(* often the queue was rebuilt since.                                      *)
ExportsListens ==
  [][\A r \in Requests : req[r].pc = "owned" /\ req'[r].pc = "filtered" =>
       read'[r].heard = {t \in Tracks : <<read[r].on, t>> \in listens}]_vars

(* A generated queue is within its duration, and no scored track that was  *)
(* left out would still fit.                                               *)
FillsLimit ==
  \A s \in Ids : queue[s].from # <<>> =>
    LET ms == Filled(queue[s].from).ms
        Queued == {queue[s].tracks[i] : i \in DOMAIN queue[s].tracks}
    IN /\ ms <= Limit
       /\ \A i \in DOMAIN queue[s].from : LET t == queue[s].from[i] IN
            t \in Queued \/ Duration[t] <= 0 \/ ms + Duration[t] > Limit

(* Every request but an open socket ends, also when all connections are    *)
(* held by requests whose tasks wait for another one.                      *)
RequestsEnd ==
  \A r \in Requests : <>(req[r].pc \in Ended \cup {"attached"})
=============================================================================
