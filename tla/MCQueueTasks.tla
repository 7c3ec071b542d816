---------------------------- MODULE MCQueueTasks ----------------------------
(***************************************************************************)
(* Instances of QueueTasks for TLC: a host and a guest, a catalogue in     *)
(* which the guest owns a copy of one of the host's songs (hh and gh) and  *)
(* a track of its own, and tasks that are each given the roles they may    *)
(* play.                                                                   *)
(***************************************************************************)
EXTENDS QueueTasks, TLC

CONSTANTS t1, t2, t3, t4   \* tasks

MCTask == {t1, t2, t3}
MCTask4 == {t1, t2, t3, t4}
RequestSymmetry == Permutations({t2, t3})

MCMember == {"host", "guest"}
MCTrack == {"a", "b", "b2", "c"}
MCSong == [t \in MCTrack |-> IF t = "b2" THEN "b" ELSE t]
MCLibrary == [m \in MCMember |-> IF m = "host" THEN {"a", "b"} ELSE {"b2"}]
MCHostTrack == [t \in MCTrack |-> IF t = "b2" THEN "b" ELSE t]
MCPublic == {"c"}
NoPublic == {}
MCScore == [d \in 0..1 |-> [t \in MCTrack |->
   IF d = 0 THEN (CASE t = "a" -> 2 [] t = "b" -> 1 [] t = "b2" -> 1 [] OTHER -> 2)
            ELSE (CASE t = "a" -> 0 [] t = "b" -> 2 [] t = "b2" -> 2 [] OTHER -> 1)]]

(* Three tasks: a build against whatever two more requests come with it.   *)
MayAny == [t \in Task |-> IF t = t1 THEN {"connect"}
                         ELSE {"skip", "reconnect", "join", "drift"}]

(* Four tasks: a build, a skip, and two reranks around them.               *)
MaySkips == [t \in Task |-> CASE t = t1 -> {"connect"} [] t = t2 -> {"skip"}
                              [] OTHER  -> {"reconnect"}]
=============================================================================
