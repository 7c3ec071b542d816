----------------------------- MODULE QueueRows -----------------------------
(***************************************************************************)
(* The data of one JAM session and the pure steps of the queue engine that *)
(* work on it: rows of queue_tracks, rows of session_candidate_tracks, the *)
(* descending threshold ladder, the social sort and the build status.      *)
(* Scores are rungs of THRESHOLD_LADDER: a track has score k when it       *)
(* passes the k-th rung from the bottom, and 0 when it misses the floor.   *)
(***************************************************************************)
EXTENDS Integers, Sequences, FiniteSets

CONSTANTS
  Member,     \* users that take part in the session
  Track,      \* platform track ids
  Song,       \* Song[t]: normalize_key of track t's title and artist
  Library,    \* Library[m]: tracks of the playlists saved by member m
  Score,      \* Score[d][t]: rung of track t under the session DNA d
  LastDna,    \* time-of-day drift takes the DNA through 0..LastDna
  Top,        \* number of rungs of THRESHOLD_LADDER
  Size        \* target_queue_size(session)

ASSUME DataAssumption ==
  /\ IsFiniteSet(Member)
  /\ IsFiniteSet(Track)
  /\ LastDna \in Nat
  /\ Top \in Nat \ {0}
  /\ Size \in Nat \ {0}
  /\ Library \in [Member -> SUBSET Track]
  /\ Score \in [0..LastDna -> [Track -> 0..Top]]
  /\ DOMAIN Song = Track

NoThreshold == 0        \* sessions.effective_threshold IS NULL
Statuses == {"empty", "partial", "full"}

(* A row of session_candidate_tracks; owner and track are its unique key.  *)
Candidate == [owner : Member, track : Track, score : 0..Top, overlap : Nat]

(* A row of queue_tracks.                                                  *)
Row == [id : Nat, track : Track, pos : Nat, current : BOOLEAN]

Ids(R) == {r.id : r \in R}
SameKey(c, d) == c.owner = d.owner /\ c.track = d.track

(* status assigned after a (re)build that left n tracks in the queue       *)
StatusOfLate(n) ==   \* mutant: a queue of the target size is not yet full
  IF n = 0 THEN "empty" ELSE IF n <= Size THEN "partial" ELSE "full"
StatusOf(n) == IF n = 0 THEN "empty" ELSE IF n < Size THEN "partial" ELSE "full"

(* THRESHOLD_LADDER[-1] stands in for a threshold that was never computed  *)
ThresholdOr(threshold) == IF threshold = NoThreshold THEN 1 ELSE threshold

Passing(C, rung) == {c \in C : c.score >= rung}

(* social_sort_key: overlap first, match score last                        *)
Before(c, d) == \/ c.overlap > d.overlap
                \/ c.overlap = d.overlap /\ c.score > d.score

(* The orders a stable sort by social_sort_key may leave C in: the SELECT  *)
(* that produced C has no ORDER BY, so ties come in any order.             *)
Rankings(C) ==
  {s \in [1..Cardinality(C) -> C] :
     \A i, j \in 1..Cardinality(C) :
        i < j => s[i] # s[j] /\ ~Before(s[j], s[i])}

(* _dedupe_by_normalized_key keeps the first candidate met of each song    *)
Dedupes(C) ==
  {D \in SUBSET C :
     /\ \A c \in C : \E d \in D : Song[d.track] = Song[c.track]
     /\ \A c, d \in D : Song[c.track] = Song[d.track] => c = d}

(* The rung at which the ladder stops: the first from the top with enough  *)
(* accepted tracks, the floor when no rung has enough.                     *)
StopsAt(C, k) ==
  /\ Cardinality(Passing(C, k)) >= Size
  /\ \A j \in k+1..Top : Cardinality(Passing(C, j)) < Size

LadderStop(C) ==
  IF \E k \in 1..Top : StopsAt(C, k) THEN CHOOSE k \in 1..Top : StopsAt(C, k) ELSE 1

LadderReached(C) == Cardinality(Passing(C, LadderStop(C))) >= Size

(* compute_social_overlap: playlists, here one for each member of M, that  *)
(* hold the song of track t.                                               *)
Overlap(t, M) == Cardinality({m \in M : \E u \in Library[m] : Song[u] = Song[t]})

(* score_candidates and attach_social_overlap on the tracks T of member m, *)
(* against the playlists of the members M.                                 *)
Scored(m, T, dna, M) ==
  {[owner |-> m, track |-> t, score |-> Score[dna][t], overlap |-> Overlap(t, M)] : t \in T}

(* Rows that put the tracks of sequence s at positions 0, 1, ...; position *)
(* 0 is the current one.                                                   *)
RowsFromBelow(s, id) ==   \* mutant: positions start one too low
  {[id |-> id + i - 1, track |-> s[i], pos |-> i - 2, current |-> i = 1] : i \in 1..Len(s)}
RowsFrom(s, id) ==
  {[id |-> id + i - 1, track |-> s[i], pos |-> i - 1, current |-> i = 1] : i \in 1..Len(s)}

(* Rows that SELECT ... ORDER BY position LIMIT 1 may return               *)
Lowest(R) == {r \in R : \A q \in R : r.pos <= q.pos}

(* The queue a listener expects: contiguous positions, exactly position 0  *)
(* current, and a status that says how full it is.                         *)
WellFormed(R, status) ==
  /\ \A r, q \in R : r.pos = q.pos => r = q
  /\ \A r \in R : \A p \in 0..r.pos : \E q \in R : q.pos = p
  /\ \A r \in R : r.current <=> r.pos = 0
  /\ status = IF R = {} THEN "empty"
              ELSE IF \E r \in R : r.pos >= Size - 1 THEN "full" ELSE "partial"
=============================================================================
