----------------------- MODULE SessionLifecycleProofs -----------------------
(***************************************************************************)
(* Proofs about SessionLifecycle for any requests, users, codes, tracks    *)
(* and size of the connection pool.                                        *)
(***************************************************************************)
EXTENDS SessionLifecycle, WellFoundedInduction, TLAPS

ReqRecord == [pc : Places, held : 0 .. 2]
ReadRecord == [on : Ids, code : Codes \cup {NoCode}, seen : Nat, heard : SUBSET Tracks]
CallRecord == [made : Nat, adds : Nat, tries : Nat]
SessionRecord == [code : Codes, host : Users, status : {"active", "closed"}]

(* Whoever waits behind its own connection can still take a second one.    *)
RoomForTask == \A r \in Requests : req[r].pc = "behind" => req[r].held <= 1

(* A session is only inserted under a code that was chosen for it.         *)
CodeChosen == \A r \in Requests : req[r].pc \in {"coded", "flushed"} => read[r].code \in Codes

(* Events have exactly their columns, so that unlinking one keeps the rest. *)
EventsShaped ==
  \A e \in events : e = [session |-> e.session, track |-> e.track, pct |-> e.pct, linked |-> e.linked]

TypeInv == TypeOK /\ RoomForTask /\ CodeChosen /\ EventsShaped

USE MixesOfRequests, PoolSizeNat, JamIsNoRequest

Moves(r) == Step(r) \/ PoolTimeout(r) \/ Detach(r)

-----------------------------------------------------------------------------
(* Types, one variable after the other.                                    *)
LEMMA AsksTyped ==
  ASSUME TypeInv, NEW r \in Requests, Moves(r)
  PROVE  asks' = asks
BY DEF Moves, Step, Refuses, ChooseCode, Flush, CommitCreate, FindOpen, CheckMember,
  CommitJoin, FindOwned, CommitClose, Refresh, ReadEvents, CloseExported,
  CreatePlaylist, FillPlaylist, ReadCurrent, CommitSkip, BeginTask, EndTask,
  ScanMembers, CommitFill, Attach, Detach, PoolTimeout

(* The two ways a request changes its place.                               *)
LEMMA HoldsTyped ==
  ASSUME TypeInv, NEW r \in Requests, NEW pc \in Places, NEW n \in 0 .. 2, Holds(r, pc, n)
  PROVE  /\ req' \in [Requests -> ReqRecord]
         /\ req'[r].pc = pc /\ req'[r].held = n
         /\ \A o \in Requests \ {r} : req'[o] = req[o]
BY DEF TypeInv, TypeOK, Holds, ReqRecord

LEMMA EndsTyped ==
  ASSUME TypeInv, NEW r \in Requests, NEW pc \in Places, Ends(r, pc)
  PROVE  /\ req' \in [Requests -> ReqRecord]
         /\ req'[r].pc = pc /\ req'[r].held = 0
         /\ \A o \in Requests \ {r} : req'[o] = req[o]
BY HoldsTyped DEF Ends

LEMMA GoesTyped ==
  ASSUME TypeInv, NEW r \in Requests, NEW pc \in Places, Goes(r, pc)
  PROVE  /\ req' \in [Requests -> ReqRecord]
         /\ req'[r].pc = pc /\ req'[r].held = req[r].held
         /\ \A o \in Requests \ {r} : req'[o] = req[o]
<1>1. req \in [Requests -> ReqRecord]
  BY DEF TypeInv, TypeOK, ReqRecord
<1>2. req' = [req EXCEPT ![r] = [@ EXCEPT !.pc = pc]]
  BY DEF Goes
<1> QED
  BY <1>1, <1>2 DEF ReqRecord

LEMMA TaskHeld ==
  ASSUME TypeInv, NEW r \in Requests, req[r].pc = "behind"
  PROVE  req[r].held + 1 \in 0 .. 2
<1>1. req[r].held \in 0 .. 2
  BY DEF TypeInv, TypeOK
<1>2. req[r].held <= 1
  BY DEF TypeInv, RoomForTask
<1> QED
  BY <1>1, <1>2

(* Where a request can be after its step, by where it was.                 *)
Onward(r) ==
  \/ /\ req[r].pc = "arrived"
     /\ \/ req'[r].pc \in {"refused", "owned", "behind", "playing", "scanning", "attached", "failed"}
        \/ req'[r].pc = "coded" /\ ChooseCode(r)
        \/ req'[r].pc = "open" /\ FindOpen(r)
  \/ /\ req[r].pc = "coded"
     /\ \/ req'[r].pc = "failed"
        \/ req'[r].pc = "flushed" /\ Flush(r)
  \/ req[r].pc = "flushed" /\ req'[r].pc = "written"
  \/ req[r].pc = "open" /\ req'[r].pc \in {"refused", "welcome"}
  \/ req[r].pc = "welcome" /\ req'[r].pc \in {"failed", "written"}
  \/ /\ req[r].pc = "owned"
     /\ \/ req'[r].pc = "written"
        \/ req'[r].pc = "filtered" /\ ReadEvents(r)
  \/ /\ req[r].pc \in {"filtered", "creating", "filling", "playing", "scanning", "written", "behind", "working", "attached"}
     /\ req'[r].pc \notin {"arrived", "coded", "flushed", "open", "welcome", "owned", "filtered"}

LEMMA ReqTyped ==
  ASSUME TypeInv, NEW r \in Requests, Moves(r)
  PROVE  /\ req' \in [Requests -> ReqRecord]
         /\ \A o \in Requests \ {r} : req'[o] = req[o]
         /\ req'[r].pc = "behind" => req'[r].held <= 1
         /\ Onward(r)
<1> USE DEF At, Begins, Takes, Onward, Places, Ended
<1>1. CASE Refuses(r)
  BY <1>1, EndsTyped DEF Refuses
<1>2. CASE ChooseCode(r)
  <2>1. Holds(r, "coded", 1) /\ req[r].pc = "arrived"
    BY <1>2 DEF ChooseCode
  <2> QED
    BY <1>2, <2>1, HoldsTyped
<1>3. CASE Flush(r)
  BY <1>3, EndsTyped, GoesTyped DEF Flush
<1>4. CASE CommitCreate(r)
  BY <1>4, EndsTyped DEF CommitCreate
<1>5. CASE FindOpen(r)
  <2>1. Holds(r, "open", 1) /\ req[r].pc = "arrived"
    BY <1>5 DEF FindOpen
  <2> QED
    BY <1>5, <2>1, HoldsTyped
<1>6. CASE CheckMember(r)
  BY <1>6, EndsTyped, GoesTyped DEF CheckMember
<1>7. CASE CommitJoin(r)
  BY <1>7, EndsTyped DEF CommitJoin
<1>8. CASE FindOwned(r)
  BY <1>8, HoldsTyped DEF FindOwned
<1>9. CASE CommitClose(r)
  <2>1. Ends(r, "written") /\ req[r].pc = "owned"
    BY <1>9 DEF CommitClose
  <2>2. /\ req' \in [Requests -> ReqRecord]
        /\ req'[r].pc = "written"
        /\ \A o \in Requests \ {r} : req'[o] = req[o]
    BY <2>1, EndsTyped
  <2> QED
    BY <2>1, <2>2
<1>10. CASE Refresh(r)
  BY <1>10, EndsTyped, HoldsTyped DEF Refresh
<1>11. CASE ReadEvents(r)
  BY <1>11, GoesTyped DEF ReadEvents
<1>12. CASE CloseExported(r)
  BY <1>12, EndsTyped DEF CloseExported
<1>13. CASE CreatePlaylist(r)
  <2>1. \E pc \in {"filling", "creating", "unprocessable", "failed"} : Goes(r, pc)
    BY <1>13 DEF CreatePlaylist, Gives, Retries, Rejected
  <2> QED
    BY <1>13, <2>1, GoesTyped DEF CreatePlaylist
<1>14. CASE FillPlaylist(r)
  <2>1. \E pc \in {"filling", "exported", "unprocessable", "failed"} : Goes(r, pc)
    BY <1>14 DEF FillPlaylist, Gives, Retries, Rejected
  <2> QED
    BY <1>14, <2>1, GoesTyped DEF FillPlaylist
<1>15. CASE ReadCurrent(r)
  <2>1. \E pc \in {"behind", "playing"} : Holds(r, pc, 1)
    BY <1>15 DEF ReadCurrent
  <2> QED
    BY <1>15, <2>1, HoldsTyped DEF ReadCurrent
<1>16. CASE CommitSkip(r)
  <2>1. req[r].pc = "playing" /\ (Ends(r, "failed") \/ Holds(r, "behind", 0))
    BY <1>16 DEF CommitSkip
  <2>2. CASE Ends(r, "failed")
    BY <2>1, <2>2, EndsTyped
  <2>3. CASE Holds(r, "behind", 0)
    BY <2>1, <2>3, HoldsTyped
  <2> QED
    BY <2>1, <2>2, <2>3
<1>17. CASE BeginTask(r)
  <2>1. req[r].held + 1 \in 0 .. 2
    BY <1>17, TaskHeld DEF BeginTask
  <2> QED
    BY <1>17, <2>1, HoldsTyped DEF BeginTask
<1>18. CASE EndTask(r)
  BY <1>18, EndsTyped DEF EndTask
<1>19. CASE ScanMembers(r)
  BY <1>19, HoldsTyped DEF ScanMembers
<1>20. CASE CommitFill(r)
  BY <1>20, EndsTyped DEF CommitFill
<1>21. CASE Attach(r)
  BY <1>21, HoldsTyped DEF Attach
<1>22. CASE Detach(r)
  BY <1>22, EndsTyped DEF Detach
<1>23. CASE PoolTimeout(r)
  BY <1>23, EndsTyped DEF PoolTimeout, TimesOut, WaitsForConnection
<1> QED
  BY <1>1, <1>2, <1>3, <1>4, <1>5, <1>6, <1>7, <1>8, <1>9, <1>10, <1>11, <1>12, <1>13,
    <1>14, <1>15, <1>16, <1>17, <1>18, <1>19, <1>20, <1>21, <1>22, <1>23 DEF Moves, Step

(* What a request has read, and which session it is about from then on.    *)
LEMMA ReadUpdated ==
  ASSUME TypeInv, NEW r \in Requests, NEW now \in ReadRecord, read' = [read EXCEPT ![r] = now]
  PROVE  /\ read' \in [Requests -> ReadRecord]
         /\ \A o \in Requests \ {r} : read'[o] = read[o]
         /\ read'[r] = now
BY DEF TypeInv, TypeOK, ReadRecord

LEMMA ReadTyped ==
  ASSUME TypeInv, NEW r \in Requests, Moves(r)
  PROVE  /\ read' \in [Requests -> ReadRecord]
         /\ \A o \in Requests \ {r} : read'[o] = read[o]
         /\ \/ read'[r].on = read[r].on /\ read'[r].code = read[r].code
            \/ req[r].pc = "arrived" /\ read'[r].on \in Visible /\ req'[r].pc # "coded"
            \/ ChooseCode(r)
<1>0. read \in [Requests -> ReadRecord] /\ read[r] \in ReadRecord
  BY DEF TypeInv, TypeOK, ReadRecord
<1>1. CASE UNCHANGED read
  BY <1>0, <1>1
<1>2. ASSUME NEW s \in Visible, NEW pc \in Places, Takes(r, pc, s),
             req[r].pc = "arrived", pc # "coded"
      PROVE  /\ read' \in [Requests -> ReadRecord]
             /\ \A o \in Requests \ {r} : read'[o] = read[o]
             /\ read'[r].on = s /\ req'[r].pc # "coded"
  <2>1. s \in Ids
    BY DEF TypeInv, TypeOK, RowsOK
  <2>2. req'[r].pc = pc
    BY <1>2, HoldsTyped DEF Takes
  <2> DEFINE now == [read[r] EXCEPT !.on = s]
  <2>3. now \in ReadRecord /\ now.on = s
    BY <1>0, <2>1 DEF ReadRecord
  <2>4. read' = [read EXCEPT ![r] = now]
    BY <1>2 DEF Takes
  <2> HIDE DEF now
  <2> QED
    BY <1>2, <2>2, <2>3, <2>4, ReadUpdated
<1>3. CASE ChooseCode(r)
  <2>1. PICK c \in Codes : read' = [read EXCEPT ![r] = [@ EXCEPT !.on = r, !.code = c]]
    BY <1>3 DEF ChooseCode
  <2>2. r \in Ids
    BY DEF Ids
  <2> DEFINE now == [read[r] EXCEPT !.on = r, !.code = c]
  <2>3. now \in ReadRecord
    BY <1>0, <2>2 DEF ReadRecord
  <2>4. read' = [read EXCEPT ![r] = now]
    BY <2>1
  <2> HIDE DEF now
  <2> QED
    BY <1>3, <2>3, <2>4, ReadUpdated
<1>4. CASE FindOpen(r) \/ FindOwned(r) \/ ScanMembers(r) \/ Attach(r)
  <2>1. \E s \in Visible, pc \in {"open", "owned", "scanning", "attached"} :
          Takes(r, pc, s) /\ req[r].pc = "arrived"
    BY <1>4 DEF FindOpen, FindOwned, ScanMembers, Attach, Begins, At
  <2> QED
    BY <1>2, <2>1 DEF Places
<1>5. CASE ReadEvents(r)
  <2>1. Qualifying(read[r].on) \in SUBSET Tracks
    BY DEF Qualifying
  <2> DEFINE now == [read[r] EXCEPT !.heard = Qualifying(read[r].on)]
  <2>2. now \in ReadRecord /\ now.on = read[r].on /\ now.code = read[r].code
    BY <1>0, <2>1 DEF ReadRecord
  <2>3. read' = [read EXCEPT ![r] = now]
    BY <1>5 DEF ReadEvents
  <2> HIDE DEF now
  <2> QED
    BY <2>2, <2>3, ReadUpdated
<1>6. CASE ReadCurrent(r)
  <2>1. PICK s \in Visible :
          /\ Holds(r, IF queue[s].tracks = <<>> THEN "behind" ELSE "playing", 1)
          /\ read' = [read EXCEPT ![r] = [@ EXCEPT !.on = s, !.seen = queue[s].build]]
    BY <1>6 DEF ReadCurrent
  <2>2. s \in Ids /\ queue[s].build \in Nat
    BY DEF TypeInv, TypeOK, RowsOK
  <2>3. req'[r].pc # "coded" /\ req[r].pc = "arrived"
    <3>1. CASE queue[s].tracks = <<>>
      BY <2>1, <3>1, HoldsTyped, <1>6 DEF Places, ReadCurrent, Begins, At
    <3>2. CASE queue[s].tracks # <<>>
      BY <2>1, <3>2, HoldsTyped, <1>6 DEF Places, ReadCurrent, Begins, At
    <3> QED
      BY <3>1, <3>2
  <2> DEFINE now == [read[r] EXCEPT !.on = s, !.seen = queue[s].build]
  <2>4. now \in ReadRecord /\ now.on = s
    BY <1>0, <2>2 DEF ReadRecord
  <2>5. read' = [read EXCEPT ![r] = now]
    BY <2>1
  <2> HIDE DEF now
  <2> QED
    BY <2>3, <2>4, <2>5, ReadUpdated
<1> QED
  BY <1>1, <1>3, <1>4, <1>5, <1>6 DEF Moves, Step, Refuses, Flush, CommitCreate,
    CheckMember, CommitJoin, CommitClose, Refresh, CloseExported, CreatePlaylist,
    FillPlaylist, CommitSkip, BeginTask, EndTask, CommitFill, Detach, PoolTimeout

LEMMA OnFound ==
  ASSUME TypeInv, NEW r \in Requests, FindOpen(r)
  PROVE  read'[r].on \in Visible
<1>1. PICK s \in Visible : read' = [read EXCEPT ![r].on = s]
  BY DEF FindOpen, Takes
<1>2. read \in [Requests -> ReadRecord]
  BY DEF TypeInv, TypeOK, ReadRecord
<1> QED
  BY <1>1, <1>2 DEF ReadRecord

LEMMA CallsTyped ==
  ASSUME TypeInv, NEW r \in Requests, Moves(r)
  PROVE  calls' \in [Requests -> CallRecord]
<1> USE DEF TypeInv, TypeOK, CallRecord
<1>1. CASE UNCHANGED calls
  BY <1>1
<1>2. ASSUME NEW made \in 0 .. 1, NEW adds \in 0 .. 1, NEW tries \in Nat,
             Counts(r, made, adds, tries)
      PROVE  calls' \in [Requests -> CallRecord]
  BY <1>2 DEF Counts
<1>3. calls[r].tries + 1 \in Nat
  OBVIOUS
<1>4. CASE CreatePlaylist(r)
  BY <1>1, <1>2, <1>3, <1>4 DEF CreatePlaylist, Gives, Retries, Rejected
<1>5. CASE FillPlaylist(r)
  BY <1>1, <1>2, <1>3, <1>5 DEF FillPlaylist, Gives, Retries, Rejected
<1> QED
  BY <1>1, <1>4, <1>5 DEF Moves, Step, Refuses, ChooseCode, Flush, CommitCreate,
    FindOpen, CheckMember, CommitJoin, FindOwned, CommitClose, Refresh, ReadEvents,
    CloseExported, ReadCurrent, CommitSkip, BeginTask, EndTask, ScanMembers,
    CommitFill, Attach, Detach, PoolTimeout

(* The three ways session rows change, and the two of participant rows.    *)
LEMMA SessionsChange ==
  ASSUME NEW r \in Requests, Moves(r)
  PROVE  CommitCreate(r) \/ sessions' = Closed(read[r].on) \/ UNCHANGED sessions
BY DEF Moves, Step, Refuses, ChooseCode, Flush, FindOpen, CheckMember, CommitJoin,
  FindOwned, CommitClose, Refresh, ReadEvents, CloseExported, CreatePlaylist,
  FillPlaylist, ReadCurrent, CommitSkip, BeginTask, EndTask, ScanMembers, CommitFill,
  Attach, Detach, PoolTimeout, stored

LEMMA MembersChange ==
  ASSUME NEW r \in Requests, Moves(r)
  PROVE  CommitCreate(r) \/ CommitJoin(r) \/ UNCHANGED members
BY DEF Moves, Step, Refuses, ChooseCode, Flush, FindOpen, CheckMember,
  FindOwned, CommitClose, Refresh, ReadEvents, CloseExported, CreatePlaylist,
  FillPlaylist, ReadCurrent, CommitSkip, BeginTask, EndTask, ScanMembers, CommitFill,
  Attach, Detach, PoolTimeout, stored

(* A rebuild unlinks events, a skip that finds its row adds one.           *)
Rebuilt == \E s \in Ids : \E q, from : Rebuilds(s, q, from) /\ UNCHANGED listens

LEMMA EventsChange ==
  ASSUME TypeInv, NEW r \in Requests, Moves(r)
  PROVE  CommitSkip(r) \/ Rebuilt \/ UNCHANGED <<queue, events, listens>>
<1>1. read[r].on \in Ids
  BY DEF TypeInv, TypeOK
<1>2. CASE EndTask(r)
  BY <1>1, <1>2 DEF EndTask, Rebuilt
<1>3. CASE CommitFill(r)
  BY <1>1, <1>3 DEF CommitFill, Rebuilt
<1> QED
  BY <1>2, <1>3 DEF Moves, Step, Refuses, ChooseCode, Flush, CommitCreate, FindOpen,
    CheckMember, CommitJoin, FindOwned, CommitClose, Refresh, ReadEvents, CloseExported,
    CreatePlaylist, FillPlaylist, ReadCurrent, BeginTask, ScanMembers, Attach, Detach,
    PoolTimeout, stored

LEMMA Unlinked ==
  ASSUME TypeInv, NEW s, NEW e \in Detached(s)
  PROVE  /\ e = [session |-> e.session, track |-> e.track, pct |-> e.pct, linked |-> e.linked]
         /\ e.linked \in BOOLEAN
         /\ \E o \in events : e.session = o.session /\ e.track = o.track /\ e.pct = o.pct
<1>1. PICK o \in events : e = [o EXCEPT !.linked = @ /\ o.session # s]
  BY DEF Detached
<1>2. o = [session |-> o.session, track |-> o.track, pct |-> o.pct, linked |-> o.linked]
  BY DEF TypeInv, EventsShaped
<1> DEFINE left == o.linked /\ o.session # s
<1>3. left \in BOOLEAN
  OBVIOUS
<1>4. e = [session |-> o.session, track |-> o.track, pct |-> o.pct, linked |-> left]
  BY <1>1, <1>2
<1> HIDE DEF left
<1> QED
  BY <1>3, <1>4

LEMMA StillListed ==
  ASSUME TypeInv, NEW s, NEW o \in events
  PROVE  \E e \in Detached(s) : e.session = o.session /\ e.track = o.track /\ e.pct = o.pct
<1>1. o = [session |-> o.session, track |-> o.track, pct |-> o.pct, linked |-> o.linked]
  BY DEF TypeInv, EventsShaped
<1> DEFINE e == [o EXCEPT !.linked = @ /\ o.session # s]
<1>2. e \in Detached(s)
  BY DEF Detached
<1>3. e.session = o.session /\ e.track = o.track /\ e.pct = o.pct
  BY <1>1
<1> QED
  BY <1>2, <1>3

(* The event a skip commits.                                               *)
Skipped(r, pct) ==
  [session |-> read[r].on, track |-> Head(queue[read[r].on].tracks), pct |-> pct, linked |-> TRUE]

LEMMA SkipCommits ==
  ASSUME TypeInv, NEW r \in Requests, CommitSkip(r)
  PROVE  /\ UNCHANGED queue
         /\ \/ UNCHANGED <<events, listens>>
            \/ \E pct \in Pcts :
                 /\ events' = events \cup {Skipped(r, pct)}
                 /\ listens' = IF pct >= Half
                               THEN listens \cup {<<Skipped(r, pct).session, Skipped(r, pct).track>>}
                               ELSE listens
BY DEF CommitSkip, Skipped

LEMMA Created ==
  ASSUME TypeInv, NEW r \in Requests, CommitCreate(r)
  PROVE  /\ Visible' = Visible \cup {r} /\ sessions'[r] = NewSession(r)
         /\ \A s \in Visible \ {r} : sessions'[s] = sessions[s]
         /\ NewSession(r) \in SessionRecord
         /\ sessions' \in [Visible' -> SessionRecord]
         /\ req[r].pc = "flushed"
<1>1. req[r].pc = "flushed"
  BY DEF CommitCreate, At
<1>2. asks[r].user \in Users /\ read[r].code \in Codes
  BY <1>1 DEF TypeInv, TypeOK, CodeChosen
<1>3. NewSession(r) \in SessionRecord
  BY <1>2 DEF NewSession, SessionRecord
<1>4. sessions' = [s \in Visible \cup {r} |-> IF s = r THEN NewSession(r) ELSE sessions[s]]
  BY DEF CommitCreate
<1>5. sessions \in [Visible -> SessionRecord]
  BY DEF TypeInv, TypeOK, RowsOK, SessionRecord
<1>6. Visible' = Visible \cup {r}
  BY <1>4 DEF Visible
<1> QED
  BY <1>1, <1>3, <1>4, <1>5, <1>6

LEMMA ClosedTyped ==
  ASSUME TypeInv, NEW s, sessions' = Closed(s)
  PROVE  /\ Visible' = Visible
         /\ \A z \in Visible : /\ sessions'[z].code = sessions[z].code
                               /\ sessions'[z].status \in {sessions[z].status, "closed"}
         /\ sessions' \in [Visible -> SessionRecord]
<1>1. sessions \in [Visible -> SessionRecord]
  BY DEF TypeInv, TypeOK, RowsOK, SessionRecord
<1>2. sessions' = [sessions EXCEPT ![s].status = "closed"]
  BY DEF Closed
<1>3. Visible' = Visible
  BY <1>1, <1>2 DEF Visible
<1>4. ASSUME NEW z \in Visible
      PROVE  /\ sessions'[z].code = sessions[z].code
             /\ sessions'[z].status \in {sessions[z].status, "closed"}
             /\ sessions'[z] \in SessionRecord
  <2>1. sessions[z] \in SessionRecord
    BY <1>1
  <2>2. CASE z = s
    <3>1. sessions'[z] = [sessions[z] EXCEPT !.status = "closed"]
      BY <1>1, <1>2, <2>2
    <3> QED
      BY <2>1, <3>1 DEF SessionRecord
  <2>3. CASE z # s
    <3>1. sessions'[z] = sessions[z]
      BY <1>1, <1>2, <2>3
    <3> QED
      BY <2>1, <3>1
  <2> QED
    BY <2>2, <2>3
<1>5. sessions' = [z \in Visible |-> sessions'[z]]
  BY <1>1, <1>2
<1> QED
  BY <1>3, <1>4, <1>5

LEMMA Joined ==
  ASSUME TypeInv, NEW r \in Requests, CommitCreate(r) \/ CommitJoin(r)
  PROVE  \/ UNCHANGED members
         \/ /\ CommitCreate(r)
            /\ members' = members \cup {[id |-> r, session |-> r, user |-> asks[r].user]}
         \/ /\ req[r].pc = "welcome" /\ ~Member(read[r].on, asks[r].user)
            /\ members' = members \cup {[id |-> r, session |-> read[r].on, user |-> asks[r].user]}
BY DEF CommitCreate, CommitJoin, Violates, At

LEMMA EventsTyped ==
  ASSUME TypeInv, NEW r \in Requests, Moves(r)
  PROVE  /\ DOMAIN queue' = Ids
         /\ \A s \in Ids : queue'[s].build \in Nat
         /\ \A e \in events' : e.session \in Ids /\ e.pct \in Pcts /\ e.linked \in BOOLEAN
         /\ EventsShaped'
<1>0. /\ DOMAIN queue = Ids /\ \A s \in Ids : queue[s].build \in Nat
      /\ \A e \in events : e.session \in Ids /\ e.pct \in Pcts /\ e.linked \in BOOLEAN
      /\ EventsShaped
  BY DEF TypeInv, TypeOK, RowsOK
<1>1. CASE UNCHANGED <<queue, events, listens>>
  BY <1>0, <1>1 DEF EventsShaped
<1>2. CASE CommitSkip(r)
  <2>1. read[r].on \in Ids
    BY DEF TypeInv, TypeOK
  <2>2. queue' = queue
    BY <1>2, SkipCommits
  <2>3. CASE events' = events
    BY <1>0, <2>2, <2>3 DEF EventsShaped
  <2>4. ASSUME NEW pct \in Pcts, events' = events \cup {Skipped(r, pct)}
        PROVE  /\ \A e \in events' : e.session \in Ids /\ e.pct \in Pcts /\ e.linked \in BOOLEAN
               /\ EventsShaped'
    <3> DEFINE new == Skipped(r, pct)
    <3>1. /\ new.session \in Ids /\ new.pct \in Pcts /\ new.linked \in BOOLEAN
          /\ new = [session |-> new.session, track |-> new.track, pct |-> new.pct, linked |-> new.linked]
      BY <2>1 DEF Skipped
    <3> HIDE DEF new
    <3> QED
      BY <1>0, <2>4, <3>1 DEF EventsShaped, new
  <2> QED
    BY <1>0, <1>2, <2>2, <2>3, <2>4, SkipCommits
<1>3. CASE Rebuilt
  <2>1. PICK s \in Ids : \E q, from : Rebuilds(s, q, from)
    BY <1>3 DEF Rebuilt
  <2>2. DOMAIN queue' = Ids /\ \A z \in Ids : queue'[z].build \in Nat
    BY <1>0, <2>1 DEF Rebuilds
  <2>3. events' = Detached(s)
    BY <2>1 DEF Rebuilds
  <2>4. ASSUME NEW e \in events'
        PROVE  e.session \in Ids /\ e.pct \in Pcts /\ e.linked \in BOOLEAN
    BY <1>0, <2>3, <2>4, Unlinked
  <2>5. EventsShaped'
    BY <2>3, Unlinked DEF EventsShaped
  <2> QED
    BY <2>2, <2>4, <2>5
<1> QED
  BY <1>1, <1>2, <1>3, EventsChange

-----------------------------------------------------------------------------
LEMMA InitTypeInv == Init => TypeInv
<1> SUFFICES ASSUME Init PROVE TypeInv
  OBVIOUS
<1>1. asks \in [Requests -> [kind : Kinds, user : Users]]
  BY DEF Init
<1>2. req \in [Requests -> ReqRecord]
  BY DEF Init, ReqRecord, Places
<1>3. read \in [Requests -> ReadRecord]
  BY DEF Init, ReadRecord, Ids
<1>4. calls \in [Requests -> CallRecord]
  BY DEF Init, CallRecord
<1>5. RowsOK
  <2>1. PICK c \in Codes :
          sessions = [s \in {Jam} |-> [code |-> c, host |-> Host, status |-> "active"]]
    BY DEF Init
  <2>2. Visible \subseteq Ids /\ sessions \in [Visible -> SessionRecord]
    BY <2>1 DEF Visible, Ids, SessionRecord
  <2>3. members \subseteq [id : Ids, session : Ids, user : Users] /\ events = {}
    BY DEF Init, Ids
  <2>4. DOMAIN queue = Ids /\ \A s \in Ids : queue[s].build \in Nat
    BY DEF Init
  <2> QED
    BY <2>2, <2>3, <2>4 DEF RowsOK, SessionRecord
<1>6. RoomForTask /\ CodeChosen
  BY DEF Init, RoomForTask, CodeChosen
<1>7. EventsShaped
  BY DEF Init, EventsShaped
<1> QED
  BY <1>1, <1>2, <1>3, <1>4, <1>5, <1>6, <1>7 DEF TypeInv, TypeOK, ReqRecord, ReadRecord, CallRecord

LEMMA MoveKeepsTypes ==
  ASSUME TypeInv, NEW r \in Requests, Moves(r)
  PROVE  TypeInv'
<1>1. asks' \in [Requests -> [kind : Kinds, user : Users]]
  BY AsksTyped DEF TypeInv, TypeOK
<1>2. req' \in [Requests -> ReqRecord] /\ RoomForTask'
  BY ReqTyped DEF TypeInv, RoomForTask
<1>3. read' \in [Requests -> ReadRecord]
  BY ReadTyped
<1>4. calls' \in [Requests -> CallRecord]
  BY CallsTyped
<1>5. Visible' \subseteq Ids /\ sessions' \in [Visible' -> SessionRecord]
  <2>1. Visible \subseteq Ids /\ sessions \in [Visible -> SessionRecord] /\ r \in Ids
    BY DEF TypeInv, TypeOK, RowsOK, SessionRecord, Ids
  <2>2. CASE UNCHANGED sessions
    BY <2>1, <2>2 DEF Visible
  <2>3. CASE CommitCreate(r)
    BY <2>1, <2>3, Created
  <2>4. CASE sessions' = Closed(read[r].on)
    BY <2>1, <2>4, ClosedTyped
  <2> QED
    BY <2>2, <2>3, <2>4, SessionsChange
<1>6. members' \subseteq [id : Ids, session : Ids, user : Users]
  <2>1. /\ members \subseteq [id : Ids, session : Ids, user : Users]
        /\ r \in Ids /\ read[r].on \in Ids /\ asks[r].user \in Users
    BY DEF TypeInv, TypeOK, RowsOK, Ids
  <2> QED
    BY <2>1, MembersChange, Joined
<1>7. RowsOK'
  BY <1>5, <1>6, EventsTyped DEF RowsOK, SessionRecord
<1>8. CodeChosen'
  <2> SUFFICES ASSUME NEW o \in Requests, req'[o].pc \in {"coded", "flushed"}
               PROVE  read'[o].code \in Codes
    BY DEF CodeChosen
  <2>1. CASE o # r
    BY <2>1, ReqTyped, ReadTyped DEF TypeInv, CodeChosen
  <2>2. CASE o = r /\ ChooseCode(r)
    <3>1. PICK c \in Codes : read' = [read EXCEPT ![r] = [@ EXCEPT !.on = r, !.code = c]]
      BY <2>2 DEF ChooseCode
    <3> QED
      BY <2>2, <3>1 DEF TypeInv, TypeOK
  <2>3. CASE o = r /\ ~ChooseCode(r)
    <3>1. req[r].pc = "coded"
      BY <2>3, ReqTyped DEF Onward
    <3>2. read'[r].code = read[r].code
      BY <2>3, <3>1, ReadTyped
    <3> QED
      BY <2>3, <3>1, <3>2 DEF TypeInv, CodeChosen
  <2> QED
    BY <2>1, <2>2, <2>3
<1>9. EventsShaped'
  BY EventsTyped
<1> QED
  BY <1>1, <1>2, <1>3, <1>4, <1>7, <1>8, <1>9 DEF TypeInv, TypeOK, ReqRecord, ReadRecord, CallRecord

-----------------------------------------------------------------------------
(* What keeps rows unique: a session is only visible once its request has  *)
(* committed it, whoever joins joins a visible one, and the codes of rows  *)
(* that wait for their commit differ from each other and from all others.  *)
Unborn == \A r \in Requests : req[r].pc \in {"arrived", "coded", "flushed"} => r \notin Visible
JoinsVisible == \A r \in Requests : req[r].pc \in {"open", "welcome"} => read[r].on \in Visible
MembersVisible == \A m \in members : m.session \in Visible
PendingApart ==
  \A r \in Requests : req[r].pc = "flushed" =>
    /\ ~CodeTaken(r)
    /\ \A o \in Requests \ {r} : req[o].pc = "flushed" => read[o].code # read[r].code

(* The events that are stored are the listens that happened.               *)
Long(e) == e.pct >= Half
Heard(e) == <<e.session, e.track>>
ListensKept ==
  /\ \A e \in events : Long(e) => Heard(e) \in listens
  /\ \A l \in listens : \E e \in events : Long(e) /\ Heard(e) = l

IInv ==
  /\ TypeInv /\ Unborn /\ JoinsVisible /\ MembersVisible /\ PendingApart
  /\ CodesDistinct /\ OneParticipation /\ ListensKept

LEMMA InitIInv == Init => IInv
<1> SUFFICES ASSUME Init PROVE IInv
  OBVIOUS
<1>1. TypeInv
  BY InitTypeInv
<1>2. Visible = {Jam}
  BY DEF Init, Visible
<1>3. \A r \in Requests : req[r].pc = "arrived"
  BY DEF Init
<1>4. Unborn /\ JoinsVisible /\ PendingApart
  BY <1>2, <1>3 DEF Unborn, JoinsVisible, PendingApart
<1>5. MembersVisible /\ OneParticipation
  BY <1>2 DEF Init, MembersVisible, OneParticipation
<1>6. CodesDistinct
  BY <1>2 DEF CodesDistinct
<1>7. ListensKept
  BY DEF Init, ListensKept
<1> QED
  BY <1>1, <1>4, <1>5, <1>6, <1>7 DEF IInv

(* Nothing that is visible disappears; what appears was just inserted.     *)
LEMMA VisibleGrows ==
  ASSUME TypeInv, NEW r \in Requests, Moves(r)
  PROVE  /\ Visible \subseteq Visible'
         /\ Visible' \subseteq Visible \cup {r}
         /\ r \in Visible' \ Visible => CommitCreate(r)
         /\ ~CommitCreate(r) => \A s \in Visible : sessions'[s].code = sessions[s].code
<1>1. CASE UNCHANGED sessions
  BY <1>1 DEF Visible
<1>2. CASE CommitCreate(r)
  BY <1>2, Created
<1>3. CASE sessions' = Closed(read[r].on)
  BY <1>3, ClosedTyped
<1> QED
  BY <1>1, <1>2, <1>3, SessionsChange

LEMMA MoveKeepsVisible ==
  ASSUME IInv, NEW r \in Requests, Moves(r)
  PROVE  Unborn' /\ JoinsVisible'
<1> USE DEF IInv
<1>1. Unborn'
  <2> SUFFICES ASSUME NEW o \in Requests, req'[o].pc \in {"arrived", "coded", "flushed"}
               PROVE  o \notin Visible'
    BY DEF Unborn
  <2>1. CASE o # r
    BY <2>1, ReqTyped, VisibleGrows DEF Unborn
  <2>2. CASE o = r
    <3>1. req[r].pc \in {"arrived", "coded"}
      BY <2>2, ReqTyped DEF Onward
    <3>2. ~CommitCreate(r)
      BY <3>1, Created
    <3> QED
      BY <2>2, <3>1, <3>2, VisibleGrows DEF Unborn
  <2> QED
    BY <2>1, <2>2
<1>2. JoinsVisible'
  <2> SUFFICES ASSUME NEW o \in Requests, req'[o].pc \in {"open", "welcome"}
               PROVE  read'[o].on \in Visible'
    BY DEF JoinsVisible
  <2>1. CASE o # r
    BY <2>1, ReqTyped, ReadTyped, VisibleGrows DEF JoinsVisible
  <2>2. CASE o = r /\ req'[r].pc = "welcome"
    <3>1. req[r].pc = "open"
      BY <2>2, ReqTyped DEF Onward
    <3>2. ~ChooseCode(r)
      BY <3>1 DEF ChooseCode, Begins, At
    <3>3. read'[r].on = read[r].on
      BY <3>1, <3>2, ReadTyped
    <3> QED
      BY <2>2, <3>1, <3>3, VisibleGrows DEF JoinsVisible
  <2>3. CASE o = r /\ req'[r].pc = "open"
    <3>1. FindOpen(r)
      BY <2>3, ReqTyped DEF Onward
    <3>2. read'[r].on \in Visible
      BY <3>1, ReadTyped, OnFound
    <3> QED
      BY <2>3, <3>2, VisibleGrows
  <2> QED
    BY <2>1, <2>2, <2>3
<1> QED
  BY <1>1, <1>2

LEMMA MoveKeepsMembers ==
  ASSUME IInv, NEW r \in Requests, Moves(r)
  PROVE  MembersVisible' /\ OneParticipation'
<1> USE DEF IInv
<1>0. MembersVisible /\ OneParticipation /\ Visible \subseteq Visible'
  BY VisibleGrows
<1>1. CASE UNCHANGED members
  BY <1>0, <1>1 DEF MembersVisible, OneParticipation
<1>2. CASE /\ CommitCreate(r)
           /\ members' = members \cup {[id |-> r, session |-> r, user |-> asks[r].user]}
  <2>1. r \notin Visible /\ r \in Visible'
    BY <1>2, Created DEF Unborn
  <2>2. \A m \in members : m.session # r
    BY <1>0, <2>1 DEF MembersVisible
  <2> QED
    BY <1>0, <1>2, <2>1, <2>2 DEF MembersVisible, OneParticipation
<1>3. CASE /\ req[r].pc = "welcome" /\ ~Member(read[r].on, asks[r].user)
           /\ members' = members \cup {[id |-> r, session |-> read[r].on, user |-> asks[r].user]}
  <2>1. read[r].on \in Visible'
    BY <1>0, <1>3 DEF JoinsVisible
  <2>2. \A m \in members : ~(m.session = read[r].on /\ m.user = asks[r].user)
    BY <1>3 DEF Member
  <2> QED
    BY <1>0, <1>3, <2>1, <2>2 DEF MembersVisible, OneParticipation
<1> QED
  BY <1>1, <1>2, <1>3, MembersChange, Joined

(* Who is about to commit had no code in common with anyone, and who is    *)
(* flushed now has just been compared with all of them.                    *)
LEMMA MoveKeepsCodes ==
  ASSUME IInv, NEW r \in Requests, Moves(r)
  PROVE  PendingApart' /\ CodesDistinct'
<1> USE DEF IInv
<1>1. CASE CommitCreate(r)
  <2>0. /\ Visible' = Visible \cup {r} /\ sessions'[r] = NewSession(r)
        /\ \A s \in Visible \ {r} : sessions'[s] = sessions[s]
        /\ req[r].pc = "flushed"
    BY <1>1, Created
  <2>1. /\ Visible' = Visible \cup {r} /\ sessions'[r].code = read[r].code
        /\ \A s \in Visible \ {r} : sessions'[s] = sessions[s]
        /\ req[r].pc = "flushed" /\ r \notin Visible
    BY <2>0 DEF NewSession, Unborn
  <2>2. req'[r].pc # "flushed" /\ read' = read
    BY <1>1, <2>1, ReqTyped DEF Onward, CommitCreate
  <2>3. \A s \in Visible : sessions'[s].code = sessions[s].code /\ sessions[s].code # read[r].code
    BY <2>1 DEF PendingApart, CodeTaken
  <2>4. CodesDistinct'
    BY <2>1, <2>3 DEF CodesDistinct
  <2>5. ASSUME NEW o \in Requests, req'[o].pc = "flushed"
        PROVE  o # r /\ req[o].pc = "flushed" /\ read[o].code # read[r].code /\ ~CodeTaken(o)
    BY <2>1, <2>2, <2>5, ReqTyped DEF PendingApart
  <2>6. PendingApart'
    <3> SUFFICES ASSUME NEW o \in Requests, req'[o].pc = "flushed"
                 PROVE  /\ \A s \in Visible' : sessions'[s].code # read[o].code
                        /\ \A p \in Requests \ {o} : req'[p].pc = "flushed" => read[p].code # read[o].code
      BY <2>2 DEF PendingApart, CodeTaken
    <3>1. \A s \in Visible' : sessions'[s].code # read[o].code
      BY <2>1, <2>3, <2>5 DEF CodeTaken
    <3>2. \A p \in Requests \ {o} : req'[p].pc = "flushed" => read[p].code # read[o].code
      BY <2>5 DEF PendingApart
    <3> QED
      BY <3>1, <3>2
  <2> QED
    BY <2>4, <2>6
<1>2. CASE ~CommitCreate(r)
  <2>1. Visible' = Visible /\ \A s \in Visible : sessions'[s].code = sessions[s].code
    BY <1>2, VisibleGrows
  <2>2. CodesDistinct'
    BY <2>1 DEF CodesDistinct
  <2>3. ASSUME NEW o \in Requests \ {r}
        PROVE  req'[o] = req[o] /\ read'[o] = read[o]
    BY ReqTyped, ReadTyped
  <2>4. ASSUME req'[r].pc = "flushed"
        PROVE  /\ read'[r].code = read[r].code /\ ~CodeTaken(r)
               /\ \A o \in Requests \ {r} : req[o].pc = "flushed" => read[o].code # read[r].code
    <3>1. Flush(r) /\ req[r].pc = "coded"
      BY <2>4, ReqTyped DEF Onward
    <3>2. ~CodeTaken(r) /\ ~CodePending(r)
      BY <2>4, <3>1, EndsTyped DEF Flush, Places, Ended
    <3> QED
      BY <3>1, <3>2 DEF Flush, CodePending
  <2>5. PendingApart'
    <3> SUFFICES ASSUME NEW o \in Requests, req'[o].pc = "flushed"
                 PROVE  /\ \A s \in Visible' : sessions'[s].code # read'[o].code
                        /\ \A p \in Requests \ {o} : req'[p].pc = "flushed" => read'[p].code # read'[o].code
      BY DEF PendingApart, CodeTaken
    <3>1. \A s \in Visible' : sessions'[s].code # read'[o].code
      BY <2>1, <2>3, <2>4 DEF PendingApart, CodeTaken
    <3>2. ASSUME NEW p \in Requests \ {o}, req'[p].pc = "flushed"
          PROVE  read'[p].code # read'[o].code
      <4>1. CASE o = r
        BY <2>3, <2>4, <3>2, <4>1
      <4>2. CASE p = r
        BY <2>3, <2>4, <3>2, <4>2
      <4>3. CASE o # r /\ p # r
        BY <2>3, <3>2, <4>3 DEF PendingApart
      <4> QED
        BY <4>1, <4>2, <4>3
    <3> QED
      BY <3>1, <3>2
  <2> QED
    BY <2>2, <2>5
<1> QED
  BY <1>1, <1>2

LEMMA MoveKeepsListens ==
  ASSUME IInv, NEW r \in Requests, Moves(r)
  PROVE  ListensKept'
<1>0. ListensKept /\ TypeInv
  BY DEF IInv
<1>1. CASE UNCHANGED <<events, listens>>
  BY <1>0, <1>1 DEF ListensKept
<1>2. ASSUME NEW pct \in Pcts, events' = events \cup {Skipped(r, pct)},
             listens' = IF pct >= Half
                        THEN listens \cup {<<Skipped(r, pct).session, Skipped(r, pct).track>>}
                        ELSE listens
      PROVE  ListensKept'
  <2> DEFINE new == Skipped(r, pct)
  <2>1. new.pct = pct
    BY DEF Skipped
  <2>2. /\ events' = events \cup {new}
        /\ listens' = IF Long(new) THEN listens \cup {Heard(new)} ELSE listens
    BY <1>2, <2>1 DEF Long, Heard
  <2> HIDE DEF new
  <2> QED
    BY <1>0, <2>2 DEF ListensKept
<1>3. CASE Rebuilt
  <2>1. PICK s \in Ids : events' = Detached(s) /\ listens' = listens
    BY <1>3 DEF Rebuilt, Rebuilds
  <2>2. ASSUME NEW e \in Detached(s)
        PROVE  \E o \in events : Heard(e) = Heard(o) /\ (Long(e) <=> Long(o))
    BY <1>0, Unlinked DEF Heard, Long
  <2>3. ASSUME NEW o \in events
        PROVE  \E e \in Detached(s) : Heard(e) = Heard(o) /\ (Long(e) <=> Long(o))
    BY <1>0, StillListed DEF Heard, Long
  <2> QED
    BY <1>0, <2>1, <2>2, <2>3 DEF ListensKept
<1>4. CASE CommitSkip(r)
  BY <1>0, <1>1, <1>2, <1>4, SkipCommits
<1> QED
  BY <1>0, <1>1, <1>3, <1>4, EventsChange

LEMMA NextMoves == Next <=> \E r \in Requests : Moves(r)
BY DEF Next, Moves

LEMMA NextIInv == IInv /\ [Next]_vars => IInv'
<1> SUFFICES ASSUME IInv, [Next]_vars PROVE IInv'
  OBVIOUS
<1>1. ASSUME NEW r \in Requests, Moves(r) PROVE IInv'
  BY <1>1, MoveKeepsTypes, MoveKeepsVisible, MoveKeepsMembers, MoveKeepsCodes,
    MoveKeepsListens DEF IInv
<1>2. CASE UNCHANGED vars
  <2> USE <1>2 DEF vars, IInv
  <2>1. TypeInv'
    BY DEF TypeInv, TypeOK, RowsOK, RoomForTask, CodeChosen, EventsShaped, Visible
  <2>2. Unborn' /\ JoinsVisible' /\ MembersVisible' /\ PendingApart'
    BY DEF Unborn, JoinsVisible, MembersVisible, PendingApart, CodeTaken, Visible
  <2>3. CodesDistinct' /\ OneParticipation' /\ ListensKept'
    BY DEF CodesDistinct, OneParticipation, ListensKept, Visible
  <2> QED
    BY <2>1, <2>2, <2>3
<1> QED
  BY <1>1, <1>2, NextMoves

LEMMA AlwaysIInv == Spec => []IInv
BY InitIInv, NextIInv, PTL DEF Spec

-----------------------------------------------------------------------------
(* Every row and every request keep their columns and steps, whatever      *)
(* requests overlap.                                                       *)
THEOREM TypeCorrect == Spec => []TypeOK
<1>1. IInv => TypeOK
  BY DEF IInv, TypeInv
<1> QED
  BY <1>1, AlwaysIInv, PTL

(* Of two creates that both saw a code free, one fails: no two sessions    *)
(* ever have the same join code.                                           *)
THEOREM JoinCodesUnique == Spec => []CodesDistinct
<1>1. IInv => CodesDistinct
  BY DEF IInv
<1> QED
  BY <1>1, AlwaysIInv, PTL

(* However many joins of one user overlap, the user takes part once.       *)
THEOREM TakesPartOnce == Spec => []OneParticipation
<1>1. IInv => OneParticipation
  BY DEF IInv
<1> QED
  BY <1>1, AlwaysIInv, PTL

(* No overlap of joins, creates, closes and exports opens a closed session.*)
THEOREM StaysClosed == Spec => ClosedForGood
<1> DEFINE Kept == \A s \in Visible : sessions[s].status = "closed" =>
                     s \in DOMAIN sessions' /\ sessions'[s].status = "closed"
<1>1. IInv /\ [Next]_vars => [Kept]_vars
  <2> SUFFICES ASSUME IInv, NEW r \in Requests, Moves(r)
               PROVE  Kept
    BY NextMoves
  <2>1. TypeInv
    BY DEF IInv
  <2>2. CASE UNCHANGED sessions
    BY <2>2 DEF Visible
  <2>3. CASE CommitCreate(r)
    <3>1. r \notin Visible
      BY <2>1, <2>3, Created DEF IInv, Unborn
    <3> QED
      BY <2>1, <2>3, <3>1, Created DEF Visible
  <2>4. CASE sessions' = Closed(read[r].on)
    BY <2>1, <2>4, ClosedTyped DEF Visible
  <2> QED
    BY <2>2, <2>3, <2>4, SessionsChange
<1> QED
  BY <1>1, AlwaysIInv, PTL DEF Spec, ClosedForGood

(* TC-9, for any number of rebuilds: what an export reads is what was      *)
(* listened to past half in its session.                                   *)
THEOREM ExportsWhatWasHeard == Spec => ExportsListens
<1> DEFINE Reads == \A r \in Requests : req[r].pc = "owned" /\ req'[r].pc = "filtered" =>
                      read'[r].heard = {t \in Tracks : <<read[r].on, t>> \in listens}
<1>1. IInv /\ [Next]_vars => [Reads]_vars
  <2> SUFFICES ASSUME IInv, NEW r \in Requests, Moves(r),
                      NEW o \in Requests, req[o].pc = "owned", req'[o].pc = "filtered"
               PROVE  read'[o].heard = {t \in Tracks : <<read[o].on, t>> \in listens}
    BY NextMoves
  <2>1. o = r
    BY ReqTyped DEF IInv
  <2>2. ReadEvents(r)
    BY <2>1, ReqTyped DEF IInv, Onward
  <2>3. read'[r].heard = Qualifying(read[r].on)
    BY <2>2 DEF ReadEvents, IInv, TypeInv, TypeOK
  <2>4. Qualifying(read[r].on) = {t \in Tracks : <<read[r].on, t>> \in listens}
    <3>1. ListensKept
      BY DEF IInv
    <3>2. ASSUME NEW t \in Tracks
          PROVE  <<read[r].on, t>> \in listens <=>
                   \E e \in events : e.session = read[r].on /\ e.track = t /\ e.pct >= Half
      BY <3>1 DEF ListensKept, Long, Heard
    <3> QED
      BY <3>2 DEF Qualifying
  <2> QED
    BY <2>1, <2>3, <2>4
<1> QED
  BY <1>1, AlwaysIInv, PTL DEF Spec, ExportsListens

-----------------------------------------------------------------------------
(* The greedy fill, by induction on the scored tracks.                     *)

(* A set of numbers that is not empty has a least one.                     *)
LEMMA LeastNumber ==
  ASSUME NEW T \in SUBSET Nat, T # {}
  PROVE  \E n \in T : \A m \in T : ~(m < n)
<1>1. \E n \in T : \A m \in T : ~(<<m, n>> \in OpToRel(<, Nat))
  BY NatLessThanWellFounded, WFMin
<1>2. \A m, n \in Nat : m < n => <<m, n>> \in OpToRel(<, Nat)
  BY DEF OpToRel
<1> QED
  BY <1>1, <1>2

Nothing == [picked |-> <<>>, ms |-> 0]
IsFill(f, order, n) ==
  f = [i \in 0 .. n |-> IF i = 0 THEN Nothing ELSE WithTrack(f[i-1], order[i])]

(* The fill of the first n tracks is defined, whatever they are.           *)
LEMMA FillExists ==
  ASSUME NEW order
  PROVE  \A n \in Nat : \E f : IsFill(f, order, n)
<1> DEFINE T == {n \in Nat : ~\E f : IsFill(f, order, n)}
<1> SUFFICES ASSUME T # {} PROVE FALSE
  OBVIOUS
<1>1. PICK n \in T : \A m \in T : ~(m < n)
  BY LeastNumber
<1>2. n \in Nat /\ ~\E f : IsFill(f, order, n)
  BY <1>1
<1>3. CASE n = 0
  <2> DEFINE f == [i \in 0 .. 0 |-> Nothing]
  <2>1. f = [i \in 0 .. 0 |-> IF i = 0 THEN Nothing ELSE WithTrack(f[i-1], order[i])]
    OBVIOUS
  <2>2. IsFill(f, order, 0)
    BY <2>1 DEF IsFill
  <2> QED
    BY <1>2, <1>3, <2>2
<1>4. CASE n # 0
  <2>1. n - 1 \in Nat /\ n - 1 < n
    BY <1>2, <1>4
  <2>2. PICK g : IsFill(g, order, n - 1)
    BY <1>1, <2>1
  <2> DEFINE f == [i \in 0 .. n |-> IF i = n THEN WithTrack(g[n-1], order[n]) ELSE g[i]]
  <2>3. \A i \in 0 .. n : f[i] = IF i = 0 THEN Nothing ELSE WithTrack(f[i-1], order[i])
    <3> TAKE i \in 0 .. n
    <3>1. CASE i = n
      <4>1. f[n] = WithTrack(g[n-1], order[n]) /\ f[n-1] = g[n-1]
        BY <1>2, <1>4, <2>1
      <4> QED
        BY <1>4, <3>1, <4>1
    <3>2. CASE i # n
      <4>1. i \in 0 .. n-1 /\ (i # 0 => i - 1 \in 0 .. n-1)
        BY <1>2, <3>2
      <4>2. f[i] = g[i] /\ (i # 0 => f[i-1] = g[i-1])
        BY <1>2, <3>2, <4>1
      <4>3. g[i] = IF i = 0 THEN Nothing ELSE WithTrack(g[i-1], order[i])
        BY <2>2, <4>1 DEF IsFill
      <4> QED
        BY <4>2, <4>3
    <3> QED
      BY <3>1, <3>2
  <2>4. f = [i \in 0 .. n |-> f[i]]
    OBVIOUS
  <2> HIDE DEF f
  <2>5. IsFill(f, order, n)
    BY <2>3, <2>4 DEF IsFill
  <2> QED
    BY <1>2, <2>5
<1> QED
  BY <1>3, <1>4

(* What is left out of the first n tracks, and what they amount to.        *)
FillSoFar(f, order, n) ==
  /\ f[n].ms \in Nat /\ f[n].ms <= Limit
  /\ f[n].picked \in Seq(Tracks)
  /\ \A i \in 1 .. n :
       \/ \E j \in 1 .. Len(f[n].picked) : f[n].picked[j] = order[i]
       \/ Duration[order[i]] <= 0
       \/ f[n].ms + Duration[order[i]] > Limit

LEMMA OneTrackMore ==
  ASSUME NEW order \in Seq(Tracks), NEW f, NEW n \in Nat, n # 0, n <= Len(order),
         FillSoFar(f, order, n - 1), f[n] = WithTrack(f[n-1], order[n])
  PROVE  FillSoFar(f, order, n)
<1> DEFINE t == order[n]
           p == f[n-1].picked
           ms == f[n-1].ms
<1>1. /\ t \in Tracks /\ Duration[t] \in Int /\ Limit \in Nat
      /\ \A i \in 1 .. n : order[i] \in Tracks /\ Duration[order[i]] \in Int
  BY OrdersOfTracks
<1>2. /\ ms \in Nat /\ ms <= Limit /\ p \in Seq(Tracks)
      /\ \A i \in 1 .. n-1 : \/ \E j \in 1 .. Len(p) : p[j] = order[i]
                             \/ Duration[order[i]] <= 0
                             \/ ms + Duration[order[i]] > Limit
  BY DEF FillSoFar
<1>3. CASE Fits(f[n-1], t)
  <2>1. /\ Duration[t] > 0 /\ ms + Duration[t] <= Limit
        /\ f[n].picked = Append(p, t) /\ f[n].ms = ms + Duration[t]
    BY <1>3 DEF Fits, WithTrack
  <2> DEFINE q == Append(p, t)
  <2>2. /\ q \in Seq(Tracks) /\ Len(q) = Len(p) + 1 /\ q[Len(q)] = t
        /\ \A j \in 1 .. Len(p) : q[j] = p[j] /\ j \in 1 .. Len(q)
    BY <1>1, <1>2
  <2> HIDE DEF q, p, ms, t
  <2>3. ASSUME NEW i \in 1 .. n
        PROVE  \/ \E j \in 1 .. Len(q) : q[j] = order[i]
               \/ Duration[order[i]] <= 0
               \/ ms + Duration[t] + Duration[order[i]] > Limit
    <3>1. CASE i = n
      <4>1. Len(q) \in 1 .. Len(q) /\ q[Len(q)] = order[i]
        BY <1>2, <2>2, <3>1 DEF t
      <4> QED
        BY <4>1
    <3>2. CASE i # n
      <4>1. i \in 1 .. n-1 /\ Duration[order[i]] \in Int
        BY <1>1, <3>2
      <4>2. CASE ms + Duration[order[i]] > Limit
        <5>1. ms + Duration[t] + Duration[order[i]] > Limit
          BY <1>1, <1>2, <2>1, <4>1, <4>2, SMTT(30)
        <5> QED
          BY <5>1
      <4>3. ASSUME NEW j \in 1 .. Len(p), p[j] = order[i]
            PROVE  \E l \in 1 .. Len(q) : q[l] = order[i]
        BY <2>2, <4>3
      <4> QED
        BY <1>2, <4>1, <4>2, <4>3
    <3> QED
      BY <3>1, <3>2
  <2>4. ms + Duration[t] \in Nat
    BY <1>1, <1>2, <2>1
  <2> QED
    BY <2>1, <2>2, <2>3, <2>4 DEF FillSoFar, q
<1>4. CASE ~Fits(f[n-1], t)
  <2>1. f[n] = f[n-1]
    BY <1>4 DEF WithTrack
  <2>2. Duration[t] <= 0 \/ ms + Duration[t] > Limit
    BY <1>1, <1>2, <1>4 DEF Fits
  <2>3. \A i \in 1 .. n : i \in 1 .. n-1 \/ i = n
    OBVIOUS
  <2> HIDE DEF p, ms, t
  <2> QED
    BY <1>2, <2>1, <2>2, <2>3 DEF FillSoFar, p, ms, t
<1> QED
  BY <1>3, <1>4

LEMMA FillsAll ==
  ASSUME NEW order \in Seq(Tracks)
  PROVE  /\ Filled(order).ms <= Limit
         /\ \A i \in 1 .. Len(order) :
              \/ \E j \in DOMAIN Filled(order).picked : Filled(order).picked[j] = order[i]
              \/ Duration[order[i]] <= 0
              \/ Filled(order).ms + Duration[order[i]] > Limit
<1> DEFINE n == Len(order)
           fill == CHOOSE f : IsFill(f, order, n)
<1>1. n \in Nat /\ IsFill(fill, order, n)
  <2>1. n \in Nat
    OBVIOUS
  <2>2. \E f : IsFill(f, order, n)
    BY <2>1, FillExists, Zenon
  <2> QED
    BY <2>1, <2>2, Zenon
<1>2. Filled(order) = fill[n]
  BY DEF Filled, IsFill, Nothing
<1> HIDE DEF fill
<1>3. \A i \in 0 .. n : fill[i] = IF i = 0 THEN Nothing ELSE WithTrack(fill[i-1], order[i])
  BY <1>1 DEF IsFill
<1>4. \A m \in Nat : m <= n => FillSoFar(fill, order, m)
  <2> DEFINE T == {m \in Nat : m <= n /\ ~FillSoFar(fill, order, m)}
  <2> SUFFICES ASSUME T # {} PROVE FALSE
    OBVIOUS
  <2>1. PICK m \in T : \A k \in T : ~(k < m)
    BY LeastNumber
  <2>2. CASE m = 0
    <3>1. fill[0] = Nothing
      BY <1>1, <1>3
    <3>2. FillSoFar(fill, order, 0)
      BY <3>1, OrdersOfTracks DEF FillSoFar, Nothing
    <3> QED
      BY <2>1, <2>2, <3>2
  <2>3. CASE m # 0
    <3>1. m - 1 \in Nat /\ m - 1 < m /\ m <= n /\ m \in 0 .. n
      BY <1>1, <2>1, <2>3
    <3>2. FillSoFar(fill, order, m - 1)
      BY <1>1, <2>1, <3>1
    <3>3. fill[m] = WithTrack(fill[m-1], order[m])
      BY <1>3, <2>3, <3>1
    <3>4. FillSoFar(fill, order, m)
      BY <2>1, <2>3, <3>1, <3>2, <3>3, OneTrackMore
    <3> QED
      BY <2>1, <3>4
  <2> QED
    BY <2>2, <2>3
<1>5. FillSoFar(fill, order, n)
  BY <1>1, <1>4
<1>6. DOMAIN fill[n].picked = 1 .. Len(fill[n].picked)
  BY <1>5 DEF FillSoFar
<1> QED
  BY <1>2, <1>5, <1>6 DEF FillSoFar

(* A generated queue is what its scored tracks were filled with.           *)
FilledFrom ==
  \A s \in Ids : queue[s].from # <<>> =>
    queue[s].from \in Orders /\ queue[s].tracks = Filled(queue[s].from).picked

LEMMA MoveKeepsFilled ==
  ASSUME TypeInv, FilledFrom, NEW r \in Requests, Moves(r)
  PROVE  FilledFrom'
<1>1. CASE UNCHANGED queue
  BY <1>1 DEF FilledFrom
<1>2. ASSUME NEW q, NEW from, Rebuilds(read[r].on, q, from),
             from # <<>> => from \in Orders /\ q = Filled(from).picked
      PROVE  FilledFrom'
  <2>1. DOMAIN queue = Ids /\ read[r].on \in Ids
    BY DEF TypeInv, TypeOK, RowsOK
  <2>2. queue' = [queue EXCEPT ![read[r].on] = [tracks |-> q, build |-> queue[read[r].on].build + 1, from |-> from]]
    BY <1>2 DEF Rebuilds
  <2>3. \A s \in Ids : queue'[s] = IF s = read[r].on
                                   THEN [tracks |-> q, build |-> queue[read[r].on].build + 1, from |-> from]
                                   ELSE queue[s]
    BY <2>1, <2>2
  <2> QED
    BY <1>2, <2>3 DEF FilledFrom
<1>3. CASE EndTask(r)
  BY <1>1, <1>2, <1>3 DEF EndTask
<1>4. CASE CommitFill(r)
  BY <1>2, <1>4 DEF CommitFill
<1> QED
  BY <1>1, <1>3, <1>4 DEF Moves, Step, Refuses, ChooseCode, Flush, CommitCreate, FindOpen,
    CheckMember, CommitJoin, FindOwned, CommitClose, Refresh, ReadEvents, CloseExported,
    CreatePlaylist, FillPlaylist, ReadCurrent, CommitSkip, BeginTask, ScanMembers, Attach,
    Detach, PoolTimeout, stored

(* For any scored tracks and durations, a playlist filled in their order   *)
(* is within the limit, and none that was left out still fits: skipping a  *)
(* track that is too long never stops the fill short.                      *)
THEOREM FilledToLimit == Spec => []FillsLimit
<1>1. Init => FilledFrom
  BY DEF Init, FilledFrom
<1>2. IInv /\ FilledFrom /\ [Next]_vars => FilledFrom'
  <2>1. ASSUME FilledFrom, UNCHANGED vars PROVE FilledFrom'
    BY <2>1 DEF FilledFrom, vars
  <2> QED
    BY <2>1, MoveKeepsFilled, NextMoves DEF IInv
<1>3. FilledFrom => FillsLimit
  <2> SUFFICES ASSUME FilledFrom, NEW s \in Ids, queue[s].from # <<>>
               PROVE  LET ms == Filled(queue[s].from).ms
                          Queued == {queue[s].tracks[i] : i \in DOMAIN queue[s].tracks}
                      IN /\ ms <= Limit
                         /\ \A i \in DOMAIN queue[s].from : LET t == queue[s].from[i] IN
                              t \in Queued \/ Duration[t] <= 0 \/ ms + Duration[t] > Limit
    BY DEF FillsLimit
  <2> DEFINE order == queue[s].from
  <2>1. order \in Seq(Tracks) /\ queue[s].tracks = Filled(order).picked
    BY OrdersOfTracks DEF FilledFrom
  <2>2. DOMAIN order = 1 .. Len(order)
    BY <2>1
  <2> QED
    BY <2>1, <2>2, FillsAll
<1> QED
  BY <1>1, <1>2, <1>3, AlwaysIInv, PTL DEF Spec
=============================================================================
