------------------------ MODULE PlatformCacheProofs ------------------------
(***************************************************************************)
(* Proofs about PlatformCache for any readers, playlists, pages, artists,  *)
(* time limits and durations of a call.  The argument counts the calls a   *)
(* reader can still make: what it has read may be as old as the time that  *)
(* the calls already made can have taken, and no older.                    *)
(***************************************************************************)
EXTENDS PlatformCache, FiniteSetTheorems, TLAPS

USE TimesNat

Asked == Keys \cup Items(Artists)      \* every key a reader may meet
Browsed == Items(Pages) \cup Playlists
Plain == {"categories", "mine", "features"}

N == Cardinality(Playlists)
P == Len(Pages) + N                    \* calls of an assembly after its first
Time(n) == CallTime * n
Fresh == DayTtl + CallTime + Assembly  \* oldest data when an assembly is stored

-----------------------------------------------------------------------------
(* Lengths, sizes and times.                                               *)
LEMMA ItemsFinite ==
  ASSUME NEW S, NEW s \in Seq(S)
  PROVE  IsFiniteSet(Items(s))
<1>1. s \in Seq(Items(s))
  BY DEF Items
<1>2. \A x \in Items(s) : \E n \in 1 .. Len(s) : s[n] = x
  BY DEF Items
<1> QED
  BY <1>1, <1>2 DEF IsFiniteSet

LEMMA ImagesFinite ==
  ASSUME NEW S, NEW s \in Seq(S), NEW f
  PROVE  IsFiniteSet({f[p] : p \in Items(s)})
<1> DEFINE t == [i \in 1 .. Len(s) |-> f[s[i]]]
           T == {f[p] : p \in Items(s)}
<1>1. t \in Seq(T)
  BY DEF Items
<1>2. \A x \in T : \E n \in 1 .. Len(t) : t[n] = x
  BY DEF Items
<1> QED
  BY <1>1, <1>2 DEF IsFiniteSet

LEMMA PlaylistsFinite == IsFiniteSet(Playlists) /\ N \in Nat
<1> DEFINE f == [p \in Items(Pages) |-> Items(Listed[p])]
           T == {f[p] : p \in Items(Pages)}
<1>1. IsFiniteSet(T)
  BY SequencesRead, ImagesFinite
<1>2. \A x \in T : IsFiniteSet(x)
  BY SequencesRead, ItemsFinite
<1>3. IsFiniteSet(UNION T)
  BY <1>1, <1>2, FS_UNION
<1>4. UNION T = UNION {Items(Listed[p]) : p \in Items(Pages)}
  OBVIOUS
<1>5. IsFiniteSet(Items(Saved))
  BY SequencesRead, ItemsFinite
<1>6. IsFiniteSet(Playlists)
  BY <1>3, <1>4, <1>5, FS_Union DEF Playlists
<1> QED
  BY <1>6, FS_CardinalityType DEF N

LEMMA LengthsNat == Len(Pages) \in Nat /\ Len(Artists) \in Nat /\ P \in Nat
BY SequencesRead, PlaylistsFinite DEF P

LEMMA TimeNat == ASSUME NEW n \in Nat PROVE Time(n) \in Nat
BY DEF Time

LEMMA TimeNext == ASSUME NEW n \in Nat PROVE Time(n + 1) = Time(n) + CallTime
BY DEF Time

LEMMA TimeGrows == ASSUME NEW m \in Nat, NEW n \in Nat, m <= n PROVE Time(m) <= Time(n)
<1>1. PICK d \in Nat : n = m + d
  <2>1. n - m \in Nat /\ n = m + (n - m)
    OBVIOUS
  <2> QED
    BY <2>1
<1>2. CallTime * (m + d) = CallTime * m + CallTime * d
  OBVIOUS
<1>3. CallTime * d \in Nat /\ CallTime * m \in Nat
  OBVIOUS
<1> QED
  BY <1>1, <1>2, <1>3 DEF Time

(* The bounds of the properties in terms of the time calls take.           *)
LEMMA Bounds ==
  /\ Assembly = Time(P) /\ Assembly \in Nat /\ Fresh \in Nat /\ FreshBound \in Nat
  /\ Fresh + DayTtl <= FreshBound
  /\ DayTtl + Time(Len(Artists)) <= FreshBound
  /\ DayTtl + CallTime <= Fresh
<1>1. Assembly = Time(P)
  BY DEF Assembly, Time, P, N
<1>2. Assembly \in Nat /\ Time(Len(Artists)) \in Nat
  BY <1>1, LengthsNat, TimeNat
<1>3. 2 * DayTtl + CallTime + Assembly = Fresh + DayTtl /\ Fresh \in Nat
  BY <1>2 DEF Fresh
<1>4. FreshBound = Greater(Fresh + DayTtl, DayTtl + Time(Len(Artists)))
  BY <1>3 DEF FreshBound, Time
<1> QED
  BY <1>1, <1>2, <1>3, <1>4 DEF Greater, Fresh

(* A sequence of distinct playlists is no longer than their number.        *)
LEMMA DistinctShort ==
  ASSUME NEW s \in Seq(Playlists), IsInjective(s)
  PROVE  Len(s) <= N
<1>1. s \in Injection(1 .. Len(s), Playlists)
  BY DEF Injection
<1>2. Cardinality(1 .. Len(s)) <= N
  BY <1>1, PlaylistsFinite, FS_Injection DEF N
<1>3. Cardinality(1 .. Len(s)) = Len(s)
  <2>1. 1 \in Int /\ Len(s) \in Int /\ Len(s) \in Nat
    OBVIOUS
  <2>2. Cardinality(1 .. Len(s)) = IF 1 > Len(s) THEN 0 ELSE Len(s) - 1 + 1
    BY <2>1, FS_Interval
  <2> QED
    BY <2>1, <2>2
<1> QED
  BY <1>2, <1>3

(* The elements of a finite set, one after the other.                      *)
LEMMA SetInOrder ==
  ASSUME NEW S, IsFiniteSet(S)
  PROVE  SetToSeq(S) \in Seq(S) /\ IsInjective(SetToSeq(S))
<1>1. Cardinality(S) \in Nat /\ ExistsBijection(1 .. Cardinality(S), S)
  BY FS_CardinalityType
<1>2. \E f \in [1 .. Cardinality(S) -> S] : IsInjective(f)
  BY <1>1 DEF ExistsBijection, Bijection, Injection
<1>3. SetToSeq(S) \in [1 .. Cardinality(S) -> S] /\ IsInjective(SetToSeq(S))
  BY <1>2 DEF SetToSeq
<1> QED
  BY <1>1, <1>3

-----------------------------------------------------------------------------
(* How many calls a reader that makes one at a time may still start.       *)

(* What is left to read: pages, then playlists, none of them twice.        *)
Searching(todo, p) ==
  /\ \A i \in 1 .. p : todo[i] \in Items(Pages)
  /\ \A i \in p + 1 .. Len(todo) : todo[i] \in Playlists
  /\ \A i, j \in p + 1 .. Len(todo) : todo[i] = todo[j] => i = j

(* With pages to come any playlist may still be listed on them.            *)
Browsing(todo, A, n) ==
  /\ todo \in Seq(Browsed) /\ A \subseteq Browsed
  /\ \E p \in 0 .. Len(todo) :
       /\ Searching(todo, p)
       /\ \/ n >= p + N
          \/ p = 0 /\ A \cap Items(Pages) = {} /\ n >= Len(todo)

(* todo is left to read and A is awaited: at most n more calls.            *)
Due(todo, A, n) ==
  /\ n \in 0 .. P + 1 /\ (A # {} => n <= P)
  /\ \/ \E d \in Plain : todo = <<d>> /\ A = {} /\ n = P + 1
     \/ \E d \in Plain : todo = <<>> /\ A = {d} /\ n = P
     \/ Browsing(todo, A, n)

(* The keys of different reads differ.                                     *)
LEMMA PlainApart ==
  ASSUME NEW d \in Plain
  PROVE  d \notin Items(Pages) /\ d \notin Playlists
BY KeysApart DEF Plain, DayKeys

LEMMA BrowsedApart ==
  ASSUME NEW k \in Browsed
  PROVE  /\ k \notin DayKeys /\ k # "mine" /\ k \notin Plain
         /\ ~ (k \in Items(Pages) /\ k \in Playlists)
BY KeysApart DEF Plain, DayKeys, Browsed

(* The next key to read is one call fewer.                                 *)
LEMMA DueRead ==
  ASSUME NEW todo, NEW n, todo # <<>>, Due(todo, {}, n)
  PROVE  /\ n - 1 \in 0 .. P /\ Due(Tail(todo), {Head(todo)}, n - 1)
         /\ Head(todo) \in Plain \cup Browsed
<1>1. CASE \E d \in Plain : todo = <<d>> /\ n = P + 1
  BY <1>1, LengthsNat DEF Due
<1>2. CASE Browsing(todo, {}, n)
  <2> DEFINE rest == Tail(todo)
  <2>1. /\ todo \in Seq(Browsed) /\ Len(todo) \in Nat \ {0} /\ Head(todo) = todo[1]
        /\ rest \in Seq(Browsed) /\ Len(rest) = Len(todo) - 1
        /\ \A i \in 1 .. Len(rest) : rest[i] = todo[i + 1]
        /\ todo[1] \in Browsed
    BY <1>2 DEF Browsing
  <2>2. n \in Nat /\ n <= P + 1 /\ P \in Nat /\ N \in Nat
    BY LengthsNat, PlaylistsFinite DEF Due
  <2>3. PICK p \in 0 .. Len(todo) :
          Searching(todo, p) /\ (n >= p + N \/ (p = 0 /\ n >= Len(todo)))
    BY <1>2 DEF Browsing
  <2>4. CASE p > 0
    <3>1. p - 1 \in 0 .. Len(rest)
      BY <2>1, <2>4
    <3>2. Searching(rest, p - 1)
      BY <2>1, <2>3, <2>4 DEF Searching
    <3>3. n - 1 >= (p - 1) + N
      BY <2>2, <2>3, <2>4
    <3> QED
      BY <2>1, <2>2, <3>1, <3>2, <3>3 DEF Due, Browsing
  <2>5. CASE p = 0
    <3>1. todo \in Seq(Playlists) /\ IsInjective(todo)
      BY <2>1, <2>3, <2>5 DEF Searching, IsInjective
    <3>2. n >= Len(todo)
      BY <2>1, <2>2, <2>3, <3>1, DistinctShort
    <3>3. todo[1] \in Playlists /\ {todo[1]} \cap Items(Pages) = {}
      BY <2>1, <3>1, BrowsedApart
    <3>4. Searching(rest, 0)
      BY <2>1, <2>3, <2>5 DEF Searching
    <3>5. n - 1 >= Len(rest)
      BY <2>1, <2>2, <3>2
    <3> QED
      BY <2>1, <2>2, <3>2, <3>3, <3>4, <3>5 DEF Due, Browsing
  <2> QED
    BY <2>3, <2>4, <2>5
<1> QED
  BY <1>1, <1>2 DEF Due

(* After a page, those of its playlists that are not yet to be read.       *)
LEMMA PageFollows ==
  ASSUME NEW todo \in Seq(Browsed), NEW p \in 0 .. Len(todo), Searching(todo, p),
         NEW k \in Items(Pages)
  PROVE  LET more == todo \o SetToSeq(Items(Listed[k]) \ Items(todo))
         IN  more \in Seq(Browsed) /\ p \in 0 .. Len(more) /\ Searching(more, p)
<1> DEFINE S == Items(Listed[k]) \ Items(todo)
           new == SetToSeq(S)
           more == todo \o new
<1>1. IsFiniteSet(S) /\ S \subseteq Playlists
  <2>1. Items(Listed[k]) \subseteq Playlists
    BY DEF Playlists
  <2>2. S \in SUBSET Playlists
    BY <2>1
  <2> QED
    BY <2>2, PlaylistsFinite, FS_Subset
<1>2. new \in Seq(S) /\ IsInjective(new)
  BY <1>1, SetInOrder
<1> HIDE DEF new
<1>3. /\ \A i \in 1 .. Len(new) : new[i] \in Playlists /\ new[i] \notin Items(todo)
      /\ \A i, j \in 1 .. Len(new) : new[i] = new[j] => i = j
      /\ new \in Seq(Browsed)
  <2>1. new \in [1 .. Len(new) -> S] /\ Len(new) \in Nat
    BY <1>2
  <2>2. \A i, j \in 1 .. Len(new) : new[i] = new[j] => i = j
    BY <2>1, <1>2 DEF IsInjective
  <2>3. \A i \in 1 .. Len(new) : new[i] \in S
    BY <2>1
  <2>4. S \subseteq Browsed
    BY <1>1 DEF Browsed
  <2>5. new \in Seq(Browsed)
    BY <1>2, <2>4
  <2> QED
    BY <1>1, <2>2, <2>3, <2>5
<1>4. \A i \in 1 .. Len(todo) : todo[i] \in Items(todo)
  BY DEF Items
<1>5. /\ more \in Seq(Browsed) /\ Len(more) = Len(todo) + Len(new)
      /\ \A i \in 1 .. Len(todo) : more[i] = todo[i]
      /\ \A i \in Len(todo) + 1 .. Len(more) :
           more[i] = new[i - Len(todo)] /\ i - Len(todo) \in 1 .. Len(new)
      /\ Len(todo) \in Nat /\ Len(new) \in Nat
  BY <1>3
<1> HIDE DEF more
<1>6. p \in 0 .. Len(more)
  BY <1>5
<1>7. \A i \in 1 .. p : more[i] \in Items(Pages)
  BY <1>5 DEF Searching
<1>8. \A i \in p + 1 .. Len(more) : more[i] \in Playlists
  <2> TAKE i \in p + 1 .. Len(more)
  <2>1. CASE i <= Len(todo)
    BY <2>1, <1>5 DEF Searching
  <2>2. CASE i > Len(todo)
    BY <2>2, <1>5, <1>3
  <2> QED
    BY <2>1, <2>2, <1>5
<1>9. \A i, j \in p + 1 .. Len(more) : more[i] = more[j] => i = j
  <2> SUFFICES ASSUME NEW i \in p + 1 .. Len(more), NEW j \in p + 1 .. Len(more),
                      more[i] = more[j]
               PROVE  i = j
    OBVIOUS
  <2>1. CASE i <= Len(todo) /\ j <= Len(todo)
    BY <2>1, <1>5 DEF Searching
  <2>2. CASE i > Len(todo) /\ j > Len(todo)
    <3>1. /\ i - Len(todo) \in 1 .. Len(new) /\ j - Len(todo) \in 1 .. Len(new)
          /\ new[i - Len(todo)] = new[j - Len(todo)]
      BY <2>2, <1>5
    <3>2. i - Len(todo) = j - Len(todo)
      BY <3>1, <1>3
    <3> QED
      BY <3>2, <1>5
  <2>3. ASSUME NEW a \in p + 1 .. Len(more), NEW b \in p + 1 .. Len(more),
               a <= Len(todo), b > Len(todo)
        PROVE  more[a] # more[b]
    <3>1. a \in 1 .. Len(todo) /\ b \in Len(todo) + 1 .. Len(more)
      BY <2>3, <1>5
    <3>2. more[a] \in Items(todo)
      BY <3>1, <1>4, <1>5
    <3>3. b - Len(todo) \in 1 .. Len(new) /\ more[b] = new[b - Len(todo)]
      BY <3>1, <1>5
    <3>4. more[b] \notin Items(todo)
      BY <3>3, <1>3
    <3> QED
      BY <3>2, <3>4
  <2>4. CASE (i <= Len(todo) /\ j > Len(todo)) \/ (i > Len(todo) /\ j <= Len(todo))
    BY <2>4, <2>3
  <2> QED
    BY <2>1, <2>2, <2>4, <1>5
<1>10. Searching(more, p)
  BY <1>7, <1>8, <1>9 DEF Searching
<1> QED
  BY <1>5, <1>6, <1>10 DEF more, new

(* What follows a key was counted when the key was read.                   *)
LEMMA DueAnswered ==
  ASSUME NEW todo, NEW k, NEW n, Due(todo, {k}, n)
  PROVE  /\ Due(Follows(k, todo), {}, n) /\ Due(FailFollows(k, todo), {}, n)
         /\ k \in Plain \cup Browsed
<1>1. n \in 0 .. P /\ P \in Nat /\ N \in Nat /\ P = Len(Pages) + N /\ Len(Pages) \in Nat
  BY LengthsNat, PlaylistsFinite DEF Due, P
<1>2. CASE todo = <<>> /\ k \in Plain /\ n = P
  <2>1. k \notin Items(Pages)
    BY <1>2, PlainApart
  <2>2. Due(<<>>, {}, n)
    <3>1. <<>> \in Seq(Browsed) /\ Searching(<<>>, 0) /\ 0 \in 0 .. Len(<<>>)
      BY DEF Searching
    <3>2. n >= 0 + N
      BY <1>1, <1>2
    <3> QED
      BY <1>1, <3>1, <3>2 DEF Due, Browsing
  <2>3. CASE k = "categories"
    <3>1. Follows(k, todo) = Pages
      BY <2>1, <2>3 DEF Follows, ScanFollows, SearchFollows
    <3>2. Pages \in Seq(Browsed) /\ Searching(Pages, Len(Pages)) /\ Len(Pages) \in 0 .. Len(Pages)
      BY <1>1, SequencesRead DEF Searching, Browsed, Items
    <3>3. n >= Len(Pages) + N
      BY <1>1, <1>2
    <3>4. Due(Pages, {}, n)
      BY <1>1, <3>2, <3>3 DEF Due, Browsing
    <3> QED
      BY <2>2, <2>3, <3>1, <3>4, <1>2 DEF FailFollows
  <2>4. CASE k = "mine"
    <3>1. Follows(k, todo) = Saved
      BY <2>4 DEF Follows, ScanFollows
    <3>2. Saved \in Seq(Browsed) /\ Searching(Saved, 0) /\ 0 \in 0 .. Len(Saved)
      BY SequencesRead DEF Searching, Browsed, Items, Playlists, IsInjective
    <3>3. n >= 0 + N
      BY <1>1, <1>2
    <3>4. Due(Saved, {}, n)
      BY <1>1, <3>2, <3>3 DEF Due, Browsing
    <3> QED
      BY <2>2, <2>4, <3>1, <3>4, <1>2 DEF FailFollows
  <2>5. CASE k = "features"
    <3>1. Follows(k, todo) = <<>> /\ FailFollows(k, todo) = <<>>
      BY <2>5, <2>1, <1>2 DEF Follows, ScanFollows, SearchFollows, FailFollows
    <3> QED
      BY <2>2, <3>1, <1>2
  <2> QED
    BY <1>2, <2>3, <2>4, <2>5 DEF Plain
<1>3. CASE Browsing(todo, {k}, n)
  <2>1. todo \in Seq(Browsed) /\ k \in Browsed
    BY <1>3 DEF Browsing
  <2>2. k # "mine" /\ k # "categories" /\ FailFollows(k, todo) = todo
    BY <2>1, BrowsedApart DEF FailFollows, DayKeys
  <2>3. PICK p \in 0 .. Len(todo) :
          Searching(todo, p) /\ (n >= p + N \/ (p = 0 /\ k \notin Items(Pages) /\ n >= Len(todo)))
    BY <1>3 DEF Browsing
  <2>4. Due(todo, {}, n)
    BY <1>1, <2>1, <2>3 DEF Due, Browsing
  <2>5. CASE k \in Items(Pages)
    <3> DEFINE more == todo \o SetToSeq(Items(Listed[k]) \ Items(todo))
    <3>1. Follows(k, todo) = more
      BY <2>2, <2>5 DEF Follows, ScanFollows, SearchFollows
    <3>2. more \in Seq(Browsed) /\ p \in 0 .. Len(more) /\ Searching(more, p)
      BY <2>1, <2>3, <2>5, PageFollows
    <3> HIDE DEF more
    <3>3. Due(more, {}, n)
      BY <1>1, <3>2, <2>3, <2>5 DEF Due, Browsing
    <3> QED
      BY <3>1, <3>3, <2>4, <2>2, <2>1
  <2>6. CASE k \notin Items(Pages)
    <3>1. Follows(k, todo) = todo
      BY <2>2, <2>6 DEF Follows, ScanFollows, SearchFollows
    <3> QED
      BY <3>1, <2>4, <2>2, <2>1
  <2> QED
    BY <2>5, <2>6
<1>4. (todo = <<>> /\ k \in Plain /\ n = P) \/ Browsing(todo, {k}, n)
  BY DEF Due
<1> QED
  BY <1>2, <1>3, <1>4

-----------------------------------------------------------------------------
(* The inductive invariant: what each entry and each reader may hold.      *)
Waits == UNION {[A -> 0 .. CallTime] : A \in SUBSET Asked}
ReaderRecord ==
  [doing : {"idle", "read", "complete", "partial"}, todo : Seq(Asked), calls : Waits,
   fills : {"none", "known", "genres"}, age : Ages, failed : {None} \cup Ages]
EntryRecord == [kept : -1 .. DayTtl + 1, age : Ages, failed : {None} \cup Ages]

Typed ==
  /\ kind \in [Readers -> Kinds] /\ store \in [Keys -> EntryRecord]
  /\ \A k \in Keys : store[k].kept <= Ttl(k) + 1
  /\ reader \in [Readers -> ReaderRecord] /\ failures \in 0 .. MaxFailures

(* An entry's data was no older than OldestOf when it was stored, and only *)
(* an assembly is stored after a failed call.                              *)
OldestOf(k) == IF k = "known" THEN Fresh ELSE IF k = "genres" THEN Time(Len(Artists)) ELSE CallTime
EntryOK(k, e) ==
  \/ e = Nothing
  \/ /\ e.kept >= 0 /\ e.age <= e.kept + OldestOf(k)
     /\ \/ e.failed = None
        \/ k = "known" /\ e.failed <= e.kept + Assembly
        \/ k = "genres" /\ e.failed <= e.kept + CallTime * (Len(Artists) - 1)

(* Its own reads are done in one stretch: x grew no more than the calls    *)
(* already made took, n being still to come; or f of the calls have ended. *)
Within(R, x, n, b) ==
  /\ DOMAIN R.calls = {} => x + Time(n) <= b
  /\ \A k \in DOMAIN R.calls : x + Time(n + 1) <= b + R.calls[k]
Active(R) ==
  \/ DOMAIN R.calls = {}
  \/ R.todo # <<>> /\ Cardinality(DOMAIN R.calls) < (IF R.fills = "genres" THEN Slots ELSE 1)
Elapsed(R, x, f) ==
  /\ Active(R) => x <= Time(f)
  /\ \A k \in DOMAIN R.calls : x <= Time(f) + R.calls[k]

MostFailed == DayTtl + Greater(Assembly, CallTime * (Len(Artists) - 1))

(* An assembly came from the cache, or is about to be looked up there.     *)
Served(R) ==
  /\ R.todo = <<>> /\ DOMAIN R.calls = {} /\ R.fills = "none"
  /\ R.age <= FreshBound /\ R.failed <= MostFailed
Asking(R) ==
  /\ R.todo \in {<<"known">>, <<"genres">>} /\ DOMAIN R.calls = {} /\ R.fills = "none"
  /\ R.age = 0 /\ R.failed = None

(* One call after the other, or several artist calls at once.              *)
Counted(R, n) ==
  /\ Due(R.todo, DOMAIN R.calls, n) /\ Within(R, R.age, n, Fresh)
  /\ R.failed = None \/ Within(R, R.failed, n, Assembly)
Sequential(R) ==
  /\ R.fills \in {"none", "known"}
  /\ DOMAIN R.calls = {} \/ \E k : DOMAIN R.calls = {k}
  /\ \E n \in 0 .. P + 1 : Counted(R, n)
Ended(R, f) ==
  /\ f + Len(R.todo) + Cardinality(DOMAIN R.calls) <= Len(Artists)
  /\ Elapsed(R, R.age, f)
  /\ R.failed = None \/ (f > 0 /\ Elapsed(R, R.failed, f - 1))
Parallel(R) ==
  /\ R.fills = "genres"
  /\ IsFiniteSet(DOMAIN R.calls) /\ Cardinality(DOMAIN R.calls) <= Slots
  /\ R.todo \in Seq(Items(Artists)) /\ DOMAIN R.calls \subseteq Items(Artists)
  /\ \E f \in Nat : Ended(R, f)

ReaderOK(R) ==
  IF R.doing = "read" THEN Served(R) \/ Asking(R) \/ Sequential(R) \/ Parallel(R)
  ELSE DOMAIN R.calls = {}

CacheInv ==
  /\ Typed
  /\ \A k \in Keys : EntryOK(k, store[k])
  /\ \A r \in Readers : ReaderOK(reader[r])

(* The calls awaited, and for how long.                                    *)
LEMMA WaitsAre ==
  ASSUME NEW c
  PROVE  c \in Waits <=> /\ c = [k \in DOMAIN c |-> c[k]] /\ DOMAIN c \subseteq Asked
                         /\ \A k \in DOMAIN c : c[k] \in 0 .. CallTime
<1>1. ASSUME c \in Waits
      PROVE  c = [k \in DOMAIN c |-> c[k]] /\ DOMAIN c \subseteq Asked
             /\ \A k \in DOMAIN c : c[k] \in 0 .. CallTime
  BY <1>1 DEF Waits
<1>2. ASSUME c = [k \in DOMAIN c |-> c[k]], DOMAIN c \subseteq Asked,
             \A k \in DOMAIN c : c[k] \in 0 .. CallTime
      PROVE  c \in Waits
  <2>1. c \in [DOMAIN c -> 0 .. CallTime]
    BY <1>2
  <2> QED
    BY <2>1, <1>2 DEF Waits
<1> QED
  BY <1>1, <1>2

(* What a key's read adds once it has ended, the next call not begun.      *)
LEMMA SequentialGoesOn ==
  ASSUME NEW R \in ReaderRecord, NEW Q \in ReaderRecord, NEW n \in 0 .. P,
         NEW a \in Ages, NEW f \in {None, 0},
         Q.fills \in {"none", "known"}, DOMAIN Q.calls = {},
         Due(Q.todo, {}, n),
         Q.age = Greater(R.age, a), Q.failed = Greater(R.failed, f),
         R.age + Time(n) <= Fresh, a <= DayTtl + CallTime,
         R.failed = None \/ R.failed + Time(n) <= Assembly
  PROVE  Sequential(Q)
<1>1. R.age \in Int /\ R.failed \in Int /\ Q.age \in Int /\ Q.failed \in Int /\ None = -1
  BY Bounds, SMTT(30) DEF ReaderRecord, Ages, None
<1>2. P \in Nat /\ Time(n) \in Nat /\ Time(n) <= Assembly
  BY LengthsNat, TimeNat, TimeGrows, Bounds
<1>3. Fresh = DayTtl + CallTime + Assembly /\ a \in Int /\ Assembly \in Nat
  BY Bounds DEF Fresh, Ages
<1>4. Q.age + Time(n) <= Fresh
  <2>1. Q.age = R.age \/ Q.age = a
    BY DEF Greater
  <2>2. a + Time(n) <= Fresh
    BY <1>2, <1>3
  <2> QED
    BY <2>1, <2>2
<1>5. Q.failed = None \/ Q.failed + Time(n) <= Assembly
  BY <1>1, <1>2, Bounds DEF Greater
<1>6. Counted(Q, n)
  BY <1>4, <1>5 DEF Counted, Within
<1>7. n \in 0 .. P + 1
  BY <1>2
<1> QED
  BY <1>6, <1>7 DEF Sequential

(* A call of a sequential reader begins, and lasts.                        *)
LEMMA SequentialCalls ==
  ASSUME NEW R \in ReaderRecord, NEW Q \in ReaderRecord, NEW n \in 0 .. P, NEW k,
         Q.fills = R.fills, R.fills \in {"none", "known"},
         DOMAIN Q.calls = {k}, Q.calls[k] = 0, Due(Q.todo, {k}, n),
         Q.age = R.age, Q.failed = R.failed,
         R.age + Time(n + 1) <= Fresh,
         R.failed = None \/ R.failed + Time(n + 1) <= Assembly
  PROVE  Sequential(Q)
<1>1. Time(n + 1) \in Nat /\ P \in Nat
  BY LengthsNat, TimeNat
<1>2. Fresh \in Nat /\ Assembly \in Nat
  BY Bounds
<1>3. Counted(Q, n)
  BY <1>2 DEF Counted, Within
<1>4. n \in 0 .. P + 1
  BY <1>1
<1> QED
  BY <1>3, <1>4 DEF Sequential

(* A sequential reader that waits for k, once k has ended.                 *)
LEMMA SequentialEnded ==
  ASSUME NEW R \in ReaderRecord, NEW k \in DOMAIN R.calls, Sequential(R)
  PROVE  \E n \in 0 .. P :
           /\ Due(R.todo, {k}, n) /\ R.age + Time(n) <= Fresh
           /\ R.failed = None \/ R.failed + Time(n) <= Assembly
<1>1. DOMAIN R.calls = {k}
  BY DEF Sequential
<1>2. PICK n \in 0 .. P + 1 : Counted(R, n)
  BY DEF Sequential
<1>3. n \in 0 .. P /\ Due(R.todo, {k}, n)
  BY <1>1, <1>2, LengthsNat DEF Counted, Due
<1>4. R.calls[k] \in 0 .. CallTime
  BY WaitsAre DEF ReaderRecord
<1>5. Time(n) \in Nat /\ Time(n + 1) = Time(n) + CallTime
  BY <1>3, TimeNat, TimeNext
<1>6. R.age \in Int /\ R.failed \in Int /\ Fresh \in Nat /\ Assembly \in Nat
  BY Bounds DEF ReaderRecord, Ages, None
<1>7. /\ R.age + Time(n + 1) <= Fresh + R.calls[k]
      /\ R.failed = None \/ R.failed + Time(n + 1) <= Assembly + R.calls[k]
  BY <1>2 DEF Counted, Within
<1> QED
  BY <1>3, <1>4, <1>5, <1>6, <1>7

LEMMA OneMore ==
  ASSUME NEW S, NEW T, NEW k, IsFiniteSet(S), T = {k} \cup S
  PROVE  /\ IsFiniteSet(T) /\ Cardinality(T) \in Nat
         /\ Cardinality(T) <= Cardinality(S) + 1
<1>1. T = S \cup {k} /\ Cardinality(S) \in Nat
  BY FS_CardinalityType
<1>2. /\ IsFiniteSet(T)
      /\ Cardinality(T) = IF k \in S THEN Cardinality(S) ELSE Cardinality(S) + 1
  BY <1>1, FS_AddElement
<1> QED
  BY <1>1, <1>2

(* The artist calls of a parallel reader: one begins.                      *)
LEMMA ParallelCalls ==
  ASSUME NEW R \in ReaderRecord, NEW Q \in ReaderRecord, Parallel(R), Active(R),
         R.todo # <<>>, NEW k, k = Head(R.todo),
         Q.todo = Tail(R.todo), Q.fills = R.fills, Q.age = R.age, Q.failed = R.failed,
         DOMAIN Q.calls = {k} \cup DOMAIN R.calls,
         \A c \in DOMAIN Q.calls : Q.calls[c] = IF c = k THEN 0 ELSE R.calls[c]
  PROVE  Parallel(Q)
<1>1. PICK f \in Nat : Ended(R, f)
  BY DEF Parallel
<1>2. /\ IsFiniteSet(DOMAIN R.calls) /\ Cardinality(DOMAIN R.calls) \in Nat
      /\ R.todo \in Seq(Items(Artists)) /\ DOMAIN R.calls \subseteq Items(Artists)
      /\ R.fills = "genres"
  BY FS_CardinalityType DEF Parallel
<1>3. /\ Len(Q.todo) = Len(R.todo) - 1 /\ Len(R.todo) \in Nat
      /\ Q.todo \in Seq(Items(Artists)) /\ k \in Items(Artists)
  BY <1>2
<1>4. /\ IsFiniteSet(DOMAIN Q.calls)
      /\ Cardinality(DOMAIN Q.calls) \in Nat
      /\ Cardinality(DOMAIN Q.calls) <= Cardinality(DOMAIN R.calls) + 1
  BY <1>2, OneMore
<1>5. Cardinality(DOMAIN Q.calls) <= Slots
  <2>1. DOMAIN R.calls = {} \/ Cardinality(DOMAIN R.calls) < Slots
    BY <1>2 DEF Active
  <2>2. DOMAIN R.calls = {} => Cardinality(DOMAIN R.calls) = 0
    BY FS_EmptySet
  <2> QED
    BY <1>2, <1>4, <2>1, <2>2
<1>6. f + Len(Q.todo) + Cardinality(DOMAIN Q.calls) <= Len(Artists)
  BY <1>1, <1>2, <1>3, <1>4, LengthsNat DEF Ended
<1>7. ASSUME NEW x \in Int, NEW g \in Nat, Elapsed(R, x, g)
      PROVE  Elapsed(Q, x, g)
  <2>1. x <= Time(g) /\ Time(g) \in Nat
    BY <1>7, TimeNat DEF Elapsed
  <2>2. \A c \in DOMAIN R.calls : x <= Time(g) + R.calls[c]
    BY <1>7 DEF Elapsed
  <2> QED
    BY <2>1, <2>2 DEF Elapsed
<1>8. R.age \in Int /\ R.failed \in Int
  BY Bounds DEF ReaderRecord, Ages, None
<1>9. Ended(Q, f)
  BY <1>1, <1>6, <1>7, <1>8 DEF Ended
<1> QED
  BY <1>2, <1>3, <1>4, <1>5, <1>9 DEF Parallel

LEMMA EndedOneMore ==
  \A g, l, c, d, m : (g \in Nat /\ l \in Nat /\ c \in Nat /\ d = c - 1 /\ g + l + c <= m
                         /\ m \in Nat) => (g + 1) + l + d <= m
OBVIOUS

(* One of them ends, with data of age a or none.                           *)
LEMMA ParallelEnds ==
  ASSUME NEW R \in ReaderRecord, NEW Q \in ReaderRecord, Parallel(R),
         NEW k \in DOMAIN R.calls, NEW a \in 0 .. R.calls[k], NEW f \in {None, 0},
         Q.todo = R.todo, Q.fills = R.fills,
         Q.age = Greater(R.age, a), Q.failed = Greater(R.failed, f),
         DOMAIN Q.calls = DOMAIN R.calls \ {k},
         \A c \in DOMAIN Q.calls : Q.calls[c] = R.calls[c]
  PROVE  Parallel(Q)
<1>1. PICK g \in Nat : Ended(R, g)
  BY DEF Parallel
<1>2. /\ IsFiniteSet(DOMAIN R.calls) /\ Cardinality(DOMAIN R.calls) \in Nat
      /\ R.todo \in Seq(Items(Artists)) /\ DOMAIN R.calls \subseteq Items(Artists)
      /\ R.fills = "genres" /\ Cardinality(DOMAIN R.calls) <= Slots
  BY FS_CardinalityType DEF Parallel
<1>3. /\ IsFiniteSet(DOMAIN Q.calls)
      /\ Cardinality(DOMAIN Q.calls) = Cardinality(DOMAIN R.calls) - 1
  BY <1>2, FS_RemoveElement
<1>4. \A c \in DOMAIN R.calls : R.calls[c] \in 0 .. CallTime
  BY WaitsAre DEF ReaderRecord
<1>5. /\ R.age \in Int /\ R.failed \in Int /\ a \in Int /\ f \in Int /\ None = -1
      /\ R.failed >= -1
  BY <1>4, Bounds DEF ReaderRecord, Ages, None
<1>6. ASSUME NEW x \in Int, NEW h \in Nat, Elapsed(R, x, h)
      PROVE  x <= Time(h + 1)
  <2>1. x <= Time(h) + R.calls[k]
    BY <1>6 DEF Elapsed
  <2> QED
    BY <2>1, <1>4, TimeNat, TimeNext
<1>7. Q.age <= Time(g + 1)
  <2>1. R.age <= Time(g + 1)
    BY <1>1, <1>5, <1>6 DEF Ended
  <2>2. a <= Time(g + 1)
    <3>1. Time(g) \in Nat /\ Time(g + 1) = Time(g) + CallTime /\ R.calls[k] \in 0 .. CallTime
      BY <1>4, TimeNat, TimeNext
    <3> QED
      BY <3>1
  <2> QED
    BY <2>1, <2>2 DEF Greater
<1>8. Q.failed = None \/ Q.failed <= Time(g)
  <2>1. Time(g) \in Nat
    BY TimeNat
  <2>2. R.failed = None \/ R.failed <= Time(g)
    <3>1. CASE R.failed # None
      <4>1. g - 1 \in Nat /\ Elapsed(R, R.failed, g - 1)
        BY <1>1, <3>1 DEF Ended
      <4>2. R.failed <= Time((g - 1) + 1)
        BY <4>1, <1>5, <1>6
      <4>3. (g - 1) + 1 = g
        OBVIOUS
      <4> QED
        BY <4>2, <4>3
    <3> QED
      BY <3>1
  <2>3. f = None \/ f = 0
    OBVIOUS
  <2> QED
    BY <2>1, <2>2, <2>3, <1>5 DEF Greater
<1>9. ASSUME NEW x \in Int, NEW h \in Nat, x <= Time(h)
      PROVE  Elapsed(Q, x, h)
  BY <1>9, <1>4, TimeNat DEF Elapsed
<1>10. Q.age \in Int /\ Q.failed \in Int
  BY Bounds DEF ReaderRecord, Ages, None
<1>11. Q.failed = None \/ Elapsed(Q, Q.failed, (g + 1) - 1)
  <2>1. (g + 1) - 1 = g
    OBVIOUS
  <2>2. Q.failed = None \/ Elapsed(Q, Q.failed, g)
    BY <1>8, <1>9, <1>10, Zenon
  <2> QED
    BY <2>1, <2>2
<1>12. (g + 1) + Len(Q.todo) + Cardinality(DOMAIN Q.calls) <= Len(Artists)
  <2>1. g + Len(R.todo) + Cardinality(DOMAIN R.calls) <= Len(Artists)
    BY <1>1 DEF Ended
  <2>2. Len(Q.todo) \in Nat /\ Len(Q.todo) = Len(R.todo)
    BY <1>2
  <2> DEFINE c == Cardinality(DOMAIN R.calls)
             d == Cardinality(DOMAIN Q.calls)
  <2>3. c \in Nat /\ d = c - 1 /\ g + Len(Q.todo) + c <= Len(Artists)
    BY <1>2, <1>3, <2>1, <2>2
  <2>4. Len(Artists) \in Nat
    BY LengthsNat
  <2> HIDE DEF c, d
  <2>5. (g + 1) + Len(Q.todo) + d <= Len(Artists)
    BY <2>2, <2>3, <2>4, EndedOneMore, Zenon
  <2> QED
    BY <2>5 DEF d
<1>13. g + 1 \in Nat /\ g + 1 > 0 /\ Elapsed(Q, Q.age, g + 1)
  BY <1>7, <1>9, <1>10
<1>14. Ended(Q, g + 1)
  BY <1>11, <1>12, <1>13 DEF Ended
<1>15. Cardinality(DOMAIN Q.calls) <= Slots /\ DOMAIN Q.calls \subseteq Items(Artists)
  BY <1>2, <1>3
<1> QED
  BY <1>2, <1>3, <1>13, <1>14, <1>15 DEF Parallel

-----------------------------------------------------------------------------
(* Time passes for entries and for readers that await.                     *)
LEMMA OlderBounds ==
  /\ \A x \in Ages : Older(x) \in Ages /\ Older(x) <= x + 1 /\ x <= Older(x)
  /\ Older(None) = None /\ None \notin Ages
BY Bounds DEF Older, Ages, None

LEMMA DaysLong ==
  /\ \A k : Ttl(k) \in Nat /\ Ttl(k) <= DayTtl
  /\ DayTtl < FreshBound + 1
BY Bounds DEF Ttl

(* What a hit finds.                                                       *)
LEMMA GotFresh ==
  ASSUME Typed, NEW k, Get(k) # Nothing, \A c \in Keys : EntryOK(c, store[c])
  PROVE  /\ k \in Keys /\ Get(k) = store[k] /\ store[k] \in EntryRecord
         /\ store[k].kept \in 0 .. Ttl(k) /\ store[k].age <= store[k].kept + OldestOf(k)
         /\ \/ store[k].failed = None
            \/ k = "known" /\ store[k].failed <= store[k].kept + Assembly
            \/ k = "genres" /\ store[k].failed <= store[k].kept + CallTime * (Len(Artists) - 1)
<1>1. k \in Keys /\ Get(k) = store[k] /\ store[k].kept <= Ttl(k)
  BY DEF Get
<1>2. store[k] # Nothing /\ store[k] \in EntryRecord
  BY <1>1 DEF Typed
<1>3. store[k].kept \in Int /\ Ttl(k) \in Nat
  BY <1>2, DaysLong DEF EntryRecord
<1> QED
  BY <1>1, <1>2, <1>3 DEF EntryOK

LEMMA OldestNat ==
  ASSUME NEW k PROVE OldestOf(k) \in Nat
BY Bounds, LengthsNat, TimeNat DEF OldestOf

LEMMA EntryAges ==
  ASSUME Typed, NEW k \in Keys, Get(k) # Nothing, \A c \in Keys : EntryOK(c, store[c]), NEW e,
         e = [kept |-> Older(store[k].kept), age |-> Older(store[k].age),
              failed |-> Older(store[k].failed)]
  PROVE  e \in EntryRecord /\ e.kept <= Ttl(k) + 1 /\ EntryOK(k, e)
<1> DEFINE s == store[k]
<1>1. /\ s \in EntryRecord /\ s.kept \in 0 .. Ttl(k) /\ s.age <= s.kept + OldestOf(k)
      /\ \/ s.failed = None
         \/ k = "known" /\ s.failed <= s.kept + Assembly
         \/ k = "genres" /\ s.failed <= s.kept + CallTime * (Len(Artists) - 1)
  BY GotFresh
<1> HIDE DEF s
<1>2. e.kept = s.kept + 1 /\ s.kept + 1 \in 0 .. DayTtl + 1 /\ s.kept + 1 <= Ttl(k) + 1
  <2>1. s.kept \in Nat /\ s.kept <= DayTtl /\ s.kept < FreshBound + 1 /\ s.kept <= Ttl(k)
        /\ Ttl(k) \in Nat
    BY <1>1, DaysLong, Bounds
  <2>2. Older(s.kept) = s.kept + 1
    BY <2>1, Bounds DEF Older, None
  <2>3. e.kept = Older(s.kept)
    BY DEF s
  <2> QED
    BY <2>1, <2>2, <2>3
<1>3. e.age = Older(s.age) /\ s.age \in Ages /\ e.age <= s.age + 1 /\ e.age \in Ages
  BY <1>1, OlderBounds DEF EntryRecord, s
<1>4. /\ e.failed = Older(s.failed) /\ s.failed \in {None} \cup Ages
      /\ e.failed \in {None} \cup Ages /\ (s.failed = None => e.failed = None)
      /\ s.failed # None => e.failed <= s.failed + 1
  BY <1>1, OlderBounds DEF EntryRecord, s
<1>5. e \in EntryRecord
  BY <1>2, <1>3, <1>4 DEF EntryRecord, s
<1>6. e.age <= e.kept + OldestOf(k)
  <2> DEFINE o == OldestOf(k)
  <2>1. o \in Nat /\ s.kept \in Int /\ s.age \in Int /\ e.age \in Int /\ s.age <= s.kept + o
    BY <1>1, <1>2, <1>3, OldestNat DEF Ages
  <2> HIDE DEF o
  <2>2. e.age <= s.age + 1 /\ e.kept = s.kept + 1
    BY <1>2, <1>3
  <2>3. e.age <= e.kept + o
    BY <2>1, <2>2
  <2> QED
    BY <2>3 DEF o
<1>7. CASE s.failed = None
  BY <1>7, <1>2, <1>4, <1>5, <1>6 DEF EntryOK
<1>8. CASE s.failed # None
  <2>1. CallTime * (Len(Artists) - 1) \in Int /\ Assembly \in Nat
    BY LengthsNat, Bounds
  <2>2. s.failed \in Int /\ e.failed \in Int /\ e.failed <= s.failed + 1
    BY <1>8, <1>4, Bounds DEF Ages, None
  <2> DEFINE m == CallTime * (Len(Artists) - 1)
  <2>3. /\ s.failed <= s.kept + Assembly => e.failed <= e.kept + Assembly
        /\ s.failed <= s.kept + m => e.failed <= e.kept + m
    <3>1. s.kept \in Int /\ m \in Int /\ Assembly \in Int
      BY <1>1, <2>1, DaysLong
    <3> HIDE DEF m
    <3> QED
      BY <2>2, <1>2, <3>1
  <2>4. \/ k = "known" /\ e.failed <= e.kept + Assembly
        \/ k = "genres" /\ e.failed <= e.kept + m
    BY <1>1, <1>8, <2>3, Zenon
  <2> QED
    BY <2>4, <1>2, <1>5, <1>6 DEF EntryOK
<1> QED
  BY <1>7, <1>8

(* Whoever awaits at least one call and may not go on.                     *)
LEMMA ReaderAgesTyped ==
  ASSUME NEW R \in ReaderRecord, \A k \in DOMAIN R.calls : R.calls[k] < CallTime, NEW Q,
         Q = [R EXCEPT !.age = Older(@), !.failed = Older(@),
                       !.calls = [k \in DOMAIN @ |-> @[k] + 1]]
  PROVE  /\ Q \in ReaderRecord
         /\ Q.todo = R.todo /\ Q.fills = R.fills /\ Q.age = Older(R.age)
         /\ Q.doing = R.doing /\ Q.failed = Older(R.failed)
         /\ DOMAIN Q.calls = DOMAIN R.calls
         /\ \A k \in DOMAIN R.calls : Q.calls[k] = R.calls[k] + 1
<1>0. /\ R = [doing |-> R.doing, todo |-> R.todo, calls |-> R.calls, fills |-> R.fills,
              age |-> R.age, failed |-> R.failed]
      /\ R.todo \in Seq(Asked) /\ R.calls \in Waits /\ R.fills \in {"none", "known", "genres"}
      /\ R.age \in Ages /\ R.failed \in {None} \cup Ages
  BY DEF ReaderRecord
<1>1. /\ Q = [doing |-> R.doing, todo |-> R.todo,
              calls |-> [k \in DOMAIN R.calls |-> R.calls[k] + 1],
              fills |-> R.fills, age |-> Older(R.age), failed |-> Older(R.failed)]
  BY <1>0
<1>2. /\ Q.todo = R.todo /\ Q.fills = R.fills /\ Q.age = Older(R.age)
      /\ Q.doing = R.doing /\ Q.failed = Older(R.failed)
      /\ Q.calls = [k \in DOMAIN R.calls |-> R.calls[k] + 1]
  BY <1>1
<1>3. /\ DOMAIN Q.calls = DOMAIN R.calls
      /\ \A k \in DOMAIN R.calls : Q.calls[k] = R.calls[k] + 1 /\ R.calls[k] \in 0 .. CallTime
  BY <1>0, <1>2, WaitsAre
<1>4. Q.calls \in Waits
  <2>1. DOMAIN Q.calls \subseteq Asked
    BY <1>0, <1>3, WaitsAre
  <2>2. \A k \in DOMAIN Q.calls : Q.calls[k] \in 0 .. CallTime
    BY <1>3
  <2>3. Q.calls = [k \in DOMAIN Q.calls |-> Q.calls[k]]
    BY <1>2
  <2> QED
    BY <2>1, <2>2, <2>3, WaitsAre
<1>5. Q.age \in Ages /\ Q.failed \in {None} \cup Ages
  BY <1>0, <1>2, OlderBounds
<1>6. Q \in ReaderRecord
  BY <1>0, <1>1, <1>2, <1>4, <1>5 DEF ReaderRecord
<1> QED
  BY <1>2, <1>3, <1>6

LEMMA ReaderAges ==
  ASSUME NEW R \in ReaderRecord, NEW Q \in ReaderRecord,
         R.doing = "read", ReaderOK(R), ~ Active(R),
         Q.todo = R.todo, Q.fills = R.fills, Q.age = Older(R.age),
         Q.doing = R.doing, Q.failed = Older(R.failed),
         DOMAIN Q.calls = DOMAIN R.calls,
         \A k \in DOMAIN R.calls : Q.calls[k] = R.calls[k] + 1
  PROVE  ReaderOK(Q)
<1>1. /\ R.age \in Ages /\ R.failed \in {None} \cup Ages
      /\ \A k \in DOMAIN R.calls : R.calls[k] \in 0 .. CallTime
  BY WaitsAre DEF ReaderRecord
<1>2. ~ Active(Q) /\ DOMAIN R.calls # {} /\ DOMAIN Q.calls # {}
  BY DEF Active
<1>3. \A x \in {R.age, R.failed} \ {None} : x \in Int /\ Older(x) \in Int /\ Older(x) <= x + 1
  <2>1. \A x \in {R.age, R.failed} \ {None} : x \in Ages
    BY <1>1
  <2>2. Ages \subseteq Int
    BY Bounds DEF Ages
  <2> QED
    BY <2>1, <2>2, OlderBounds
<1>4. ASSUME NEW x \in {R.age, R.failed} \ {None}, NEW n \in Nat, NEW b \in Int, Within(R, x, n, b)
      PROVE  Within(Q, Older(x), n, b)
  <2>1. x \in Int /\ Older(x) \in Int /\ Older(x) <= x + 1 /\ Time(n + 1) \in Nat
    BY <1>3, TimeNat
  <2>2. \A k \in DOMAIN R.calls : x + Time(n + 1) <= b + R.calls[k]
    BY <1>4 DEF Within
  <2>3. \A k \in DOMAIN R.calls : Older(x) + Time(n + 1) <= b + Q.calls[k]
    <3> TAKE k \in DOMAIN R.calls
    <3>1. x + Time(n + 1) <= b + R.calls[k] /\ Q.calls[k] = R.calls[k] + 1 /\ R.calls[k] \in Int
      BY <1>1, <2>2
    <3> QED
      BY <2>1, <3>1
  <2> QED
    BY <2>3, <1>2 DEF Within
<1>5. ASSUME NEW x \in {R.age, R.failed} \ {None}, NEW f \in Nat, Elapsed(R, x, f)
      PROVE  Elapsed(Q, Older(x), f)
  <2>1. x \in Int /\ Older(x) \in Int /\ Older(x) <= x + 1 /\ Time(f) \in Nat
    BY <1>3, TimeNat
  <2>2. \A k \in DOMAIN R.calls : x <= Time(f) + R.calls[k]
    BY <1>5 DEF Elapsed
  <2>3. \A k \in DOMAIN R.calls : Older(x) <= Time(f) + Q.calls[k]
    <3> TAKE k \in DOMAIN R.calls
    <3>1. x <= Time(f) + R.calls[k] /\ Q.calls[k] = R.calls[k] + 1 /\ R.calls[k] \in Int
      BY <1>1, <2>2
    <3> QED
      BY <2>1, <3>1
  <2> QED
    BY <2>3, <1>2 DEF Elapsed
<1>6. /\ R.age \in {R.age, R.failed} \ {None}
      /\ R.failed = None => Q.failed = None
      /\ R.failed # None => R.failed \in {R.age, R.failed} \ {None}
  BY <1>1, OlderBounds
<1>7. CASE Sequential(R)
  <2>1. PICK n \in 0 .. P + 1 : Counted(R, n)
    BY <1>7 DEF Sequential
  <2>2. n \in Nat /\ Fresh \in Int /\ Assembly \in Int
    BY LengthsNat, Bounds
  <2>3. Within(Q, Q.age, n, Fresh)
    BY <1>4, <1>6, <2>1, <2>2 DEF Counted
  <2>4. R.failed # None => R.failed = None \/ Within(Q, Q.failed, n, Assembly)
    BY <1>4, <1>6, <2>1, <2>2 DEF Counted
  <2>5. Due(Q.todo, DOMAIN Q.calls, n)
    BY <2>1 DEF Counted
  <2>6. Counted(Q, n)
    BY <1>6, <2>3, <2>4, <2>5, Zenon DEF Counted
  <2>7. Sequential(Q)
    BY <1>7, <2>6 DEF Sequential
  <2> QED
    BY <2>7 DEF ReaderOK
<1>8. CASE Parallel(R)
  <2>1. PICK f \in Nat : Ended(R, f)
    BY <1>8 DEF Parallel
  <2>2. f > 0 => f - 1 \in Nat
    OBVIOUS
  <2>3. Elapsed(Q, Q.age, f)
    BY <1>5, <1>6, <2>1 DEF Ended
  <2>4. R.failed # None => f > 0 /\ Elapsed(Q, Q.failed, f - 1)
    BY <1>5, <1>6, <2>1, <2>2 DEF Ended
  <2>5. Ended(Q, f)
    BY <1>6, <2>1, <2>3, <2>4, Zenon DEF Ended
  <2>6. Parallel(Q)
    BY <1>8, <2>5, Zenon DEF Parallel
  <2> QED
    BY <2>6 DEF ReaderOK
<1> QED
  BY <1>2, <1>7, <1>8 DEF ReaderOK, Served, Asking

-----------------------------------------------------------------------------
(* Each step keeps the invariant.                                          *)
LEMMA OneReader ==
  ASSUME CacheInv, NEW r \in Readers, NEW Q \in ReaderRecord, ReaderOK(Q),
         reader' = [reader EXCEPT ![r] = Q]
  PROVE  reader' \in [Readers -> ReaderRecord] /\ \A o \in Readers : ReaderOK(reader'[o])
<1>1. reader \in [Readers -> ReaderRecord] /\ \A o \in Readers : ReaderOK(reader[o])
  BY DEF CacheInv, Typed
<1>2. \A o \in Readers : reader'[o] = IF o = r THEN Q ELSE reader[o]
  BY <1>1
<1> QED
  BY <1>1, <1>2

Stored ==
  /\ store' \in [Keys -> EntryRecord] /\ \A k \in Keys : store'[k].kept <= Ttl(k) + 1
  /\ \A k \in Keys : EntryOK(k, store'[k])

LEMMA OneEntry ==
  ASSUME CacheInv, NEW k \in Keys, NEW e \in EntryRecord, e.kept <= Ttl(k) + 1, EntryOK(k, e),
         store' = [store EXCEPT ![k] = e]
  PROVE  Stored
<1>1. /\ store \in [Keys -> EntryRecord]
      /\ \A c \in Keys : store[c].kept <= Ttl(c) + 1 /\ EntryOK(c, store[c])
  BY DEF CacheInv, Typed
<1>2. \A c \in Keys : store'[c] = IF c = k THEN e ELSE store[c]
  BY <1>1
<1> QED
  BY <1>1, <1>2 DEF Stored

LEMMA NothingOK ==
  Nothing \in EntryRecord /\ \A k : Nothing.kept <= Ttl(k) + 1 /\ EntryOK(k, Nothing)
BY DaysLong, Bounds DEF Nothing, EntryRecord, EntryOK, Ages, None

LEMMA SameStore == ASSUME CacheInv, store' = store PROVE Stored
BY DEF CacheInv, Typed, Stored

LEMMA EvictStored == ASSUME CacheInv, NEW k, Evict(k) PROVE Stored
BY OneEntry, SameStore, NothingOK DEF Evict

(* What was just read is stored if it is old by OldestOf at most.          *)
LEMMA PutStored ==
  ASSUME CacheInv, NEW k \in Keys, NEW a \in Ages, NEW f \in {None} \cup Ages,
         store' = Put(k, a, f), a <= OldestOf(k),
         \/ f = None
         \/ k = "known" /\ f <= Assembly
         \/ k = "genres" /\ f <= CallTime * (Len(Artists) - 1)
  PROVE  Stored
<1> DEFINE e == [kept |-> 0, age |-> a, failed |-> f]
<1>1. e \in EntryRecord /\ e.kept <= Ttl(k) + 1
  BY DaysLong DEF EntryRecord
<1>2. e.kept = 0 /\ e.age = a /\ e.failed = f
  OBVIOUS
<1>3. 0 + OldestOf(k) = OldestOf(k) /\ 0 + Assembly = Assembly
      /\ 0 + CallTime * (Len(Artists) - 1) = CallTime * (Len(Artists) - 1)
  BY OldestNat, Bounds, LengthsNat
<1> HIDE DEF e
<1>4. EntryOK(k, e)
  BY <1>2, <1>3 DEF EntryOK
<1>5. store' = store \/ store' = [store EXCEPT ![k] = e]
  BY DEF Put, e
<1> QED
  BY <1>1, <1>4, <1>5, OneEntry, SameStore

LEMMA FollowsTyped ==
  ASSUME NEW k, NEW todo \in Seq(Asked)
  PROVE  Follows(k, todo) \in Seq(Asked) /\ FailFollows(k, todo) \in Seq(Asked)
<1>1. Pages \in Seq(Asked) /\ Saved \in Seq(Asked) /\ <<>> \in Seq(Asked)
  BY SequencesRead DEF Asked, Keys, Items, Playlists
<1>2. ASSUME k \in Items(Pages)
      PROVE  todo \o SetToSeq(Items(Listed[k]) \ Items(todo)) \in Seq(Asked)
  <2> DEFINE S == Items(Listed[k]) \ Items(todo)
  <2>1. S \in SUBSET Playlists
    BY <1>2 DEF Playlists
  <2>2. IsFiniteSet(S)
    BY <2>1, PlaylistsFinite, FS_Subset
  <2>3. SetToSeq(S) \in Seq(S)
    BY <2>2, SetInOrder
  <2>4. S \subseteq Asked
    BY <2>1 DEF Asked, Keys
  <2> HIDE DEF S
  <2>5. SetToSeq(S) \in Seq(Asked)
    BY <2>3, <2>4
  <2>6. todo \o SetToSeq(S) \in Seq(Asked)
    BY <2>5
  <2> QED
    BY <2>6 DEF S
<1>3. CASE k = "mine"
  BY <1>1, <1>3 DEF Follows, ScanFollows, FailFollows
<1>4. CASE k # "mine" /\ k = "categories"
  <2>1. k \notin Items(Pages)
    BY <1>4, PlainApart DEF Plain
  <2> QED
    BY <1>1, <1>4, <2>1 DEF Follows, ScanFollows, SearchFollows, FailFollows
<1>5. CASE k # "mine" /\ k # "categories" /\ k \in Items(Pages)
  BY <1>2, <1>5 DEF Follows, ScanFollows, SearchFollows, FailFollows
<1>6. CASE k # "mine" /\ k # "categories" /\ k \notin Items(Pages)
  BY <1>6 DEF Follows, ScanFollows, SearchFollows, FailFollows
<1> QED
  BY <1>3, <1>4, <1>5, <1>6

LEMMA GreaterOf ==
  ASSUME NEW S, NEW x \in S, NEW y \in S
  PROVE  Greater(x, y) \in S
BY DEF Greater

LEMMA TookTyped ==
  ASSUME CacheInv, NEW r \in Readers, NEW a \in Ages, NEW f \in {None} \cup Ages,
         NEW rest \in Seq(Asked)
  PROVE  /\ Took(r, a, f, rest) \in ReaderRecord
         /\ Took(r, a, f, rest).doing = reader[r].doing /\ Took(r, a, f, rest).todo = rest
         /\ Took(r, a, f, rest).calls = reader[r].calls
         /\ Took(r, a, f, rest).fills = reader[r].fills
         /\ Took(r, a, f, rest).age = Greater(reader[r].age, a)
         /\ Took(r, a, f, rest).failed = Greater(reader[r].failed, f)
<1> DEFINE R == reader[r]
           T == Took(r, a, f, rest)
<1>1. R \in ReaderRecord
  BY DEF CacheInv, Typed
<1>2. Greater(R.age, a) \in Ages /\ Greater(R.failed, f) \in {None} \cup Ages
  BY <1>1, GreaterOf DEF ReaderRecord
<1>3. T = [R EXCEPT !.todo = rest, !.age = Greater(R.age, a), !.failed = Greater(R.failed, f)]
  BY DEF Took
<1> HIDE DEF R, T
<1>4. /\ T.doing = R.doing /\ T.todo = rest /\ T.calls = R.calls /\ T.fills = R.fills
      /\ T.age = Greater(R.age, a) /\ T.failed = Greater(R.failed, f)
  BY <1>1, <1>3 DEF ReaderRecord
<1>5. T \in ReaderRecord
  BY <1>1, <1>2, <1>3 DEF ReaderRecord
<1> QED
  BY <1>4, <1>5 DEF R, T

LEMMA ActiveSequential ==
  ASSUME NEW R, Sequential(R), Active(R)
  PROVE  DOMAIN R.calls = {}
<1>1. CASE DOMAIN R.calls # {}
  <2>1. PICK k : DOMAIN R.calls = {k}
    BY <1>1 DEF Sequential
  <2>2. Cardinality(DOMAIN R.calls) = 1
    BY <2>1, FS_Singleton
  <2>3. (IF R.fills = "genres" THEN Slots ELSE 1) = 1
    BY DEF Sequential
  <2> QED
    BY <1>1, <2>2, <2>3 DEF Active
<1> QED
  BY <1>1

LEMMA ReadOK ==
  ASSUME NEW Q, Q.doing = "read", Served(Q) \/ Asking(Q) \/ Sequential(Q) \/ Parallel(Q)
  PROVE  ReaderOK(Q)
BY DEF ReaderOK

LEMMA RunningActive ==
  ASSUME CacheInv, NEW r \in Readers, Running(r)
  PROVE  reader[r].doing = "read" /\ Active(reader[r]) /\ reader[r] \in ReaderRecord
         /\ (Served(reader[r]) \/ Asking(reader[r]) \/ Sequential(reader[r]) \/ Parallel(reader[r]))
BY DEF CacheInv, Typed, Running, Awaited, Width, Active, ReaderOK

LEMMA ArtistsUncached ==
  ASSUME NEW k \in Items(Artists)
  PROVE  k \notin Keys /\ Get(k) = Nothing /\ k \notin {"known", "genres", "categories", "mine"}
         /\ k \notin Items(Pages)
BY KeysApart DEF Keys, Get, DayKeys

LEMMA HitKeeps ==
  ASSUME CacheInv, NEW r \in Readers, Hit(r)
  PROVE  CacheInv'
<1> DEFINE R == reader[r]
           k == Head(R.todo)
           e == Get(k)
           Q == Took(r, e.age, e.failed, Follows(k, Tail(R.todo)))
<1>1. /\ Running(r) /\ R.todo # <<>> /\ e # Nothing /\ reader' = [reader EXCEPT ![r] = Q]
      /\ UNCHANGED <<kind, store, failures>>
  BY DEF Hit
<1>2. R.doing = "read" /\ Active(R) /\ R \in ReaderRecord
      /\ (Served(R) \/ Asking(R) \/ Sequential(R) \/ Parallel(R))
  BY <1>1, RunningActive
<1>3. /\ k \in Keys /\ e = store[k] /\ e \in EntryRecord
      /\ e.kept \in 0 .. Ttl(k) /\ e.age <= e.kept + OldestOf(k)
      /\ \/ e.failed = None
         \/ k = "known" /\ e.failed <= e.kept + Assembly
         \/ k = "genres" /\ e.failed <= e.kept + CallTime * (Len(Artists) - 1)
  BY <1>1, GotFresh DEF CacheInv
<1>4. e.age \in Ages /\ e.failed \in {None} \cup Ages /\ e.kept \in Nat /\ e.kept <= DayTtl
  BY <1>3, DaysLong DEF EntryRecord
<1>5. R.todo \in Seq(Asked) /\ Tail(R.todo) \in Seq(Asked)
  BY <1>1, <1>2 DEF ReaderRecord
<1>6. Follows(k, Tail(R.todo)) \in Seq(Asked)
  BY <1>5, FollowsTyped
<1> HIDE DEF e, k
<1>7. /\ Q \in ReaderRecord /\ Q.doing = R.doing /\ Q.todo = Follows(k, Tail(R.todo))
      /\ Q.calls = R.calls /\ Q.fills = R.fills
      /\ Q.age = Greater(R.age, e.age) /\ Q.failed = Greater(R.failed, e.failed)
  <2> DEFINE rest == Follows(k, Tail(R.todo))
             a == e.age
             f == e.failed
  <2>1. rest \in Seq(Asked) /\ a \in Ages /\ f \in {None} \cup Ages
    BY <1>4, <1>6
  <2> HIDE DEF rest, a, f
  <2>2. /\ Took(r, a, f, rest) \in ReaderRecord
        /\ Took(r, a, f, rest).doing = reader[r].doing /\ Took(r, a, f, rest).todo = rest
        /\ Took(r, a, f, rest).calls = reader[r].calls
        /\ Took(r, a, f, rest).fills = reader[r].fills
        /\ Took(r, a, f, rest).age = Greater(reader[r].age, a)
        /\ Took(r, a, f, rest).failed = Greater(reader[r].failed, f)
    BY <2>1, TookTyped
  <2> QED
    BY <2>2 DEF rest, a, f
<1> HIDE DEF Q, R
<1>8. ASSUME Asking(R) PROVE ReaderOK(Q)
  <2>1. k \in {"known", "genres"} /\ Tail(R.todo) = <<>>
    <3>1. R.todo = <<"known">> \/ R.todo = <<"genres">>
      BY <1>8 DEF Asking
    <3>2. \A x : Head(<<x>>) = x /\ Tail(<<x>>) = <<>>
      OBVIOUS
    <3>3. k = Head(R.todo)
      BY DEF k
    <3> QED
      BY <3>1, <3>2, <3>3
  <2>2. Q.todo = <<>>
    <3>1. k \notin Items(Pages)
      BY <2>1, KeysApart DEF DayKeys
    <3> QED
      BY <1>7, <2>1, <3>1 DEF Follows, ScanFollows, SearchFollows
  <2>3. Q.age = e.age /\ Q.failed = e.failed
    BY <1>4, <1>7, <1>8, Bounds DEF Asking, Greater, Ages, None
  <2>4. e.age <= FreshBound
    <3>1. OldestOf(k) + DayTtl <= FreshBound /\ OldestOf(k) \in Nat
      BY <2>1, OldestNat, Bounds DEF OldestOf
    <3>2. e.age \in Int /\ e.age <= e.kept + OldestOf(k)
      BY <1>3, <1>4, Bounds DEF Ages
    <3> QED
      BY <1>4, <3>1, <3>2, Bounds
  <2>5. e.failed <= MostFailed
    <3> DEFINE m == CallTime * (Len(Artists) - 1)
    <3>1. m \in Int /\ Assembly \in Nat
      BY LengthsNat, Bounds
    <3>2. e.failed \in Int /\ e.kept \in Nat /\ e.kept <= DayTtl /\ None = -1
      BY <1>4, Bounds DEF Ages, None
    <3>3. e.failed = None \/ e.failed <= e.kept + Assembly \/ e.failed <= e.kept + m
      BY <1>3
    <3>4. MostFailed = DayTtl + Greater(Assembly, m)
      BY DEF MostFailed
    <3> HIDE DEF m
    <3> QED
      BY <3>1, <3>2, <3>3, <3>4 DEF Greater
  <2>6. Served(Q)
    BY <1>7, <1>8, <2>2, <2>3, <2>4, <2>5 DEF Served, Asking
  <2> QED
    BY <1>2, <1>7, <2>6, ReadOK
<1>9. ASSUME Sequential(R) PROVE ReaderOK(Q)
  <2>1. DOMAIN R.calls = {}
    BY <1>2, <1>9, ActiveSequential
  <2>2. PICK n \in 0 .. P + 1 : Counted(R, n)
    BY <1>9 DEF Sequential
  <2>3. Due(R.todo, {}, n) /\ R.age + Time(n) <= Fresh
        /\ (R.failed = None \/ R.failed + Time(n) <= Assembly)
    BY <2>1, <2>2 DEF Counted, Within
  <2>4. n - 1 \in 0 .. P /\ Due(Tail(R.todo), {k}, n - 1) /\ k \in Plain \cup Browsed
    BY <1>1, <2>3, DueRead DEF k, R
  <2>5. Due(Q.todo, {}, n - 1)
    BY <1>7, <2>4, DueAnswered
  <2>6. Time(n - 1) <= Time(n) /\ Time(n - 1) \in Nat /\ Time(n) \in Nat
    <3>1. n - 1 \in Nat /\ n \in Nat /\ n - 1 <= n
      BY <2>4, LengthsNat
    <3> QED
      BY <3>1, TimeGrows, TimeNat
  <2>7. k \notin {"known", "genres"}
    BY <2>4, BrowsedApart DEF Plain, DayKeys
  <2>8. e.failed = None /\ e.age <= DayTtl + CallTime
    <3>1. OldestOf(k) = CallTime /\ e.age \in Int
      BY <2>7, <1>4, Bounds DEF OldestOf, Ages
    <3> QED
      BY <1>3, <1>4, <2>7, <3>1
  <2>9. R.age \in Int /\ R.failed \in Int /\ Fresh \in Int /\ Assembly \in Int
    BY <1>2, Bounds DEF ReaderRecord, Ages, None
  <2>10. R.age + Time(n - 1) <= Fresh
         /\ (R.failed = None \/ R.failed + Time(n - 1) <= Assembly)
    BY <2>3, <2>6, <2>9
  <2>11. R.fills \in {"none", "known"} /\ DOMAIN Q.calls = {}
    BY <1>7, <1>9, <2>1 DEF Sequential
  <2>12. Sequential(Q)
    BY <1>2, <1>4, <1>7, <2>4, <2>5, <2>8, <2>10, <2>11, SequentialGoesOn
  <2> QED
    BY <1>2, <1>7, <2>12, ReadOK
<1>10. ASSUME Parallel(R) PROVE FALSE
  <2>1. k \in Items(Artists)
    BY <1>1, <1>10 DEF Parallel, k, R
  <2> QED
    BY <2>1, <1>1, ArtistsUncached DEF e
<1>11. ~ Served(R)
  BY <1>1 DEF Served, R
<1>12. ReaderOK(Q)
  BY <1>2, <1>8, <1>9, <1>10, <1>11
<1>13. reader' \in [Readers -> ReaderRecord] /\ \A o \in Readers : ReaderOK(reader'[o])
  BY <1>1, <1>7, <1>12, OneReader
<1>14. Stored
  BY <1>1, SameStore
<1> QED
  BY <1>1, <1>13, <1>14 DEF CacheInv, Typed, Stored

(* A step that changes one reader and leaves or updates the store.         *)
LEMMA StepKeeps ==
  ASSUME CacheInv, NEW r \in Readers, NEW Q \in ReaderRecord, ReaderOK(Q),
         reader' = [reader EXCEPT ![r] = Q], Stored, kind' = kind,
         failures' \in 0 .. MaxFailures
  PROVE  CacheInv'
<1>1. reader' \in [Readers -> ReaderRecord] /\ \A o \in Readers : ReaderOK(reader'[o])
  BY OneReader
<1> QED
  BY <1>1 DEF CacheInv, Typed, Stored

LEMMA IdleTyped ==
  Idle \in ReaderRecord /\ DOMAIN Idle.calls = {}
<1>1. <<>> \in Waits /\ DOMAIN <<>> = {}
  <2>1. <<>> \in [{} -> 0 .. CallTime]
    OBVIOUS
  <2>2. {} \in SUBSET Asked
    OBVIOUS
  <2> QED
    BY <2>1, <2>2 DEF Waits
<1>2. 0 \in Ages
  BY Bounds DEF Ages
<1> QED
  BY <1>1, <1>2 DEF Idle, ReaderRecord

LEMMA StartKeeps ==
  ASSUME CacheInv, NEW r \in Readers, Start(r)
  PROVE  CacheInv'
<1> DEFINE d == kind[r]
           Q == [Idle EXCEPT !.doing = "read", !.todo = Begins(d)]
<1>1. reader' = [reader EXCEPT ![r] = Q] /\ UNCHANGED <<kind, store, failures>>
  BY DEF Start
<1>2. d \in Kinds
  BY DEF CacheInv, Typed
<1> HIDE DEF d
<1>3. Begins(d) = <<"mine">> \/ Begins(d) = <<"categories">> \/ Begins(d) = <<"features">>
      \/ Begins(d) = <<"known">> \/ Begins(d) = <<"genres">>
  BY <1>2 DEF Kinds, Begins
<1>4. Begins(d) \in Seq(Asked)
  <2>1. {"mine", "categories", "features", "known", "genres"} \subseteq Asked
    BY DEF Asked, Keys, DayKeys
  <2>2. \A x \in Asked : <<x>> \in Seq(Asked)
    OBVIOUS
  <2> QED
    BY <1>3, <2>1, <2>2
<1>5. /\ Q \in ReaderRecord /\ Q.doing = "read" /\ Q.todo = Begins(d)
      /\ DOMAIN Q.calls = {} /\ Q.fills = "none" /\ Q.age = 0 /\ Q.failed = None
  BY <1>4, IdleTyped DEF Idle, ReaderRecord
<1> HIDE DEF Q
<1>6. CASE Begins(d) = <<"known">> \/ Begins(d) = <<"genres">>
  <2>1. Asking(Q)
    BY <1>5, <1>6 DEF Asking
  <2>2. ReaderOK(Q)
    BY <1>5, <2>1, ReadOK
  <2> QED
    BY <1>1, <1>5, <2>2, StepKeeps, SameStore DEF CacheInv, Typed
<1>7. CASE \E b \in Plain : Begins(d) = <<b>>
  <2>1. P + 1 \in 0 .. P + 1 /\ P \in Nat
    BY LengthsNat
  <2>2. Due(Q.todo, DOMAIN Q.calls, P + 1)
    BY <1>5, <1>7, <2>1 DEF Due
  <2>3. 0 + Time(P + 1) <= Fresh
    <3>1. Time(P + 1) = Assembly + CallTime /\ Assembly \in Nat
      BY <2>1, TimeNext, Bounds
    <3> QED
      BY <3>1 DEF Fresh
  <2>4. Counted(Q, P + 1)
    BY <1>5, <2>2, <2>3 DEF Counted, Within
  <2>5. Sequential(Q)
    BY <1>5, <2>1, <2>4 DEF Sequential
  <2>6. ReaderOK(Q)
    BY <1>5, <2>5, ReadOK
  <2> QED
    BY <1>1, <1>5, <2>6, StepKeeps, SameStore DEF CacheInv, Typed
<1> QED
  BY <1>3, <1>6, <1>7 DEF Plain

LEMMA AssembleKeeps ==
  ASSUME CacheInv, NEW r \in Readers, Assemble(r)
  PROVE  CacheInv'
<1> DEFINE R == reader[r]
           k == Head(R.todo)
           Q == [R EXCEPT !.fills = k, !.todo = Expands(k)]
<1>1. /\ Running(r) /\ R.todo # <<>> /\ k \in {"known", "genres"} /\ Evict(k)
      /\ reader' = [reader EXCEPT ![r].fills = k, ![r].todo = Expands(k)]
      /\ UNCHANGED <<kind, failures>>
  BY DEF Assemble
<1>2. R.doing = "read" /\ Active(R) /\ R \in ReaderRecord
      /\ (Served(R) \/ Asking(R) \/ Sequential(R) \/ Parallel(R))
  BY <1>1, RunningActive
<1>3. reader' = [reader EXCEPT ![r] = Q]
  BY <1>1 DEF CacheInv, Typed
<1> HIDE DEF R
<1>4. Asking(R)
  <2>1. ~ Served(R)
    BY <1>1 DEF Served
  <2>2. ASSUME Sequential(R) PROVE FALSE
    <3>1. DOMAIN R.calls = {}
      BY <1>2, <2>2, ActiveSequential
    <3>2. PICK n \in 0 .. P + 1 : Due(R.todo, {}, n)
      BY <2>2, <3>1 DEF Sequential, Counted
    <3>3. k \in Plain \cup Browsed
      BY <1>1, <3>2, DueRead
    <3> QED
      BY <1>1, <3>3, BrowsedApart DEF Plain, DayKeys
  <2>3. ASSUME Parallel(R) PROVE FALSE
    <3>1. k \in Items(Artists)
      BY <1>1, <2>3 DEF Parallel
    <3> QED
      BY <1>1, <3>1, ArtistsUncached
  <2> QED
    BY <1>2, <2>1, <2>2, <2>3
<1> HIDE DEF k
<1>5. Expands(k) \in Seq(Asked)
  <2>1. Artists \in Seq(Items(Artists)) /\ Items(Artists) \subseteq Asked
    BY SequencesRead DEF Asked
  <2>2. Artists \in Seq(Asked)
    BY <2>1
  <2>3. "categories" \in Asked
    BY DEF Asked, Keys, DayKeys
  <2>4. <<"categories">> \in Seq(Asked)
    BY <2>3
  <2> QED
    BY <2>2, <2>4 DEF Expands
<1>6. /\ Q \in ReaderRecord /\ Q.doing = "read" /\ Q.todo = Expands(k) /\ Q.fills = k
      /\ DOMAIN Q.calls = {} /\ Q.age = 0 /\ Q.failed = None
  BY <1>1, <1>2, <1>4, <1>5 DEF ReaderRecord, Asking
<1> HIDE DEF Q
<1>7. ASSUME k = "known" PROVE Sequential(Q)
  <2>1. P + 1 \in 0 .. P + 1 /\ P \in Nat
    BY LengthsNat
  <2>2. Q.todo = <<"categories">>
    BY <1>6, <1>7 DEF Expands
  <2>3. Due(Q.todo, DOMAIN Q.calls, P + 1)
    BY <1>6, <2>1, <2>2 DEF Due, Plain
  <2>4. 0 + Time(P + 1) <= Fresh
    <3>1. Time(P + 1) = Assembly + CallTime /\ Assembly \in Nat
      BY <2>1, TimeNext, Bounds
    <3> QED
      BY <3>1 DEF Fresh
  <2>5. Counted(Q, P + 1)
    BY <1>6, <2>3, <2>4 DEF Counted, Within
  <2> QED
    BY <1>6, <1>7, <2>1, <2>5 DEF Sequential
<1>8. ASSUME k = "genres" PROVE Parallel(Q)
  <2>1. Q.todo = Artists /\ Q.todo \in Seq(Items(Artists)) /\ Q.fills = "genres"
    BY <1>6, <1>8, SequencesRead DEF Expands
  <2>2. IsFiniteSet(DOMAIN Q.calls) /\ Cardinality(DOMAIN Q.calls) = 0
    BY <1>6, FS_EmptySet
  <2>3. 0 + Len(Q.todo) + Cardinality(DOMAIN Q.calls) <= Len(Artists)
    BY <2>1, <2>2, LengthsNat
  <2>4. Elapsed(Q, Q.age, 0)
    BY <1>6, TimeNat DEF Elapsed
  <2>5. Ended(Q, 0)
    BY <1>6, <2>3, <2>4 DEF Ended
  <2> QED
    BY <1>6, <2>1, <2>2, <2>5 DEF Parallel
<1>9. ReaderOK(Q)
  BY <1>1, <1>6, <1>7, <1>8, ReadOK
<1>10. Stored /\ kind' = kind /\ failures' \in 0 .. MaxFailures
  BY <1>1, EvictStored DEF CacheInv, Typed
<1> QED
  BY <1>3, <1>6, <1>9, <1>10, StepKeeps

LEMMA CallKeeps ==
  ASSUME CacheInv, NEW r \in Readers, Call(r)
  PROVE  CacheInv'
<1> DEFINE R == reader[r]
           k == Head(R.todo)
           begun == [c \in {k} \cup DOMAIN R.calls |-> IF c = k THEN 0 ELSE R.calls[c]]
           Q == [R EXCEPT !.todo = Tail(R.todo), !.calls = begun]
<1>1. /\ Running(r) /\ R.todo # <<>> /\ k \notin {"known", "genres"} /\ Evict(k)
      /\ reader' = [reader EXCEPT ![r].todo = Tail(@),
            ![r].calls = [c \in {k} \cup DOMAIN @ |-> IF c = k THEN 0 ELSE @[c]]]
      /\ UNCHANGED <<kind, failures>>
  BY DEF Call
<1>2. R.doing = "read" /\ Active(R) /\ R \in ReaderRecord
      /\ (Served(R) \/ Asking(R) \/ Sequential(R) \/ Parallel(R))
  BY <1>1, RunningActive
<1>3. reader' = [reader EXCEPT ![r] = Q]
  BY <1>1 DEF CacheInv, Typed
<1> HIDE DEF R
<1>4. R.todo \in Seq(Asked) /\ R.calls \in Waits /\ k \in Asked /\ Tail(R.todo) \in Seq(Asked)
  BY <1>1, <1>2 DEF ReaderRecord
<1>5. begun \in Waits
  <2>1. DOMAIN R.calls \subseteq Asked /\ \A c \in DOMAIN R.calls : R.calls[c] \in 0 .. CallTime
    BY <1>4, WaitsAre
  <2>2. begun \in [{k} \cup DOMAIN R.calls -> 0 .. CallTime]
    BY <2>1
  <2>3. {k} \cup DOMAIN R.calls \in SUBSET Asked
    BY <1>4, <2>1
  <2> HIDE DEF begun
  <2> QED
    BY <2>2, <2>3 DEF Waits
<1>6. /\ DOMAIN begun = {k} \cup DOMAIN R.calls
      /\ \A c \in DOMAIN begun : begun[c] = IF c = k THEN 0 ELSE R.calls[c]
  OBVIOUS
<1> HIDE DEF k, begun
<1>7. /\ Q \in ReaderRecord /\ Q.doing = "read" /\ Q.todo = Tail(R.todo) /\ Q.fills = R.fills
      /\ Q.calls = begun /\ Q.age = R.age /\ Q.failed = R.failed
  BY <1>2, <1>4, <1>5 DEF ReaderRecord
<1> HIDE DEF Q
<1>8. ~ Served(R) /\ ~ Asking(R)
  <2>1. Asking(R) => k \in {"known", "genres"}
    BY DEF Asking, k
  <2> QED
    BY <1>1, <2>1 DEF Served
<1>9. ASSUME Sequential(R) PROVE Sequential(Q)
  <2>1. DOMAIN R.calls = {}
    BY <1>2, <1>9, ActiveSequential
  <2>2. PICK n \in 0 .. P + 1 : Counted(R, n)
    BY <1>9 DEF Sequential
  <2>3. Due(R.todo, {}, n) /\ R.age + Time(n) <= Fresh
        /\ (R.failed = None \/ R.failed + Time(n) <= Assembly)
    BY <2>1, <2>2 DEF Counted, Within
  <2>4. n - 1 \in 0 .. P /\ Due(Q.todo, {k}, n - 1)
    BY <1>1, <1>7, <2>3, DueRead DEF k
  <2>5. DOMAIN Q.calls = {k} /\ Q.calls[k] = 0
    BY <1>6, <1>7, <2>1
  <2>6. (n - 1) + 1 = n
    OBVIOUS
  <2>7. R.fills \in {"none", "known"}
    BY <1>9 DEF Sequential
  <2>8. R.age + Time((n - 1) + 1) <= Fresh
        /\ (R.failed = None \/ R.failed + Time((n - 1) + 1) <= Assembly)
    BY <2>3, <2>6
  <2> DEFINE m == n - 1
  <2>9. /\ m \in 0 .. P /\ Due(Q.todo, {k}, m) /\ R.age + Time(m + 1) <= Fresh
        /\ (R.failed = None \/ R.failed + Time(m + 1) <= Assembly)
    BY <2>4, <2>8
  <2> HIDE DEF m
  <2> QED
    BY <1>2, <1>7, <2>5, <2>7, <2>9, SequentialCalls
<1>10. ASSUME Parallel(R) PROVE Parallel(Q)
  <2>1. k = Head(R.todo)
    BY DEF k
  <2> QED
    BY <1>1, <1>2, <1>6, <1>7, <1>10, <2>1, ParallelCalls
<1>11. ReaderOK(Q)
  BY <1>2, <1>7, <1>8, <1>9, <1>10, ReadOK
<1>12. Stored /\ kind' = kind /\ failures' \in 0 .. MaxFailures
  BY <1>1, EvictStored DEF CacheInv, Typed
<1> QED
  BY <1>3, <1>7, <1>11, <1>12, StepKeeps

(* The call for k ends with data of age a, or fails, and R becomes Q.      *)
CallEnded(r, k, a, f, rest, Q) == Q = [Took(r, a, f, rest) EXCEPT !.calls = Hung(r, k)]

LEMMA CallEndedTyped ==
  ASSUME CacheInv, NEW r \in Readers, NEW k \in Awaited(r),
         NEW a \in 0 .. reader[r].calls[k], NEW f \in {None, 0},
         NEW rest \in Seq(Asked), NEW Q, CallEnded(r, k, a, f, rest, Q)
  PROVE  /\ Q \in ReaderRecord /\ Q.doing = reader[r].doing /\ Q.todo = rest
         /\ Q.fills = reader[r].fills /\ Q.age = Greater(reader[r].age, a)
         /\ Q.failed = Greater(reader[r].failed, f)
         /\ DOMAIN Q.calls = DOMAIN reader[r].calls \ {k}
         /\ \A c \in DOMAIN Q.calls : Q.calls[c] = reader[r].calls[c]
         /\ a \in Ages /\ a <= CallTime
<1> DEFINE R == reader[r]
           T == Took(r, a, f, rest)
           h == Hung(r, k)
<1>1. R \in ReaderRecord
  BY DEF CacheInv, Typed
<1>2. /\ DOMAIN R.calls \subseteq Asked
      /\ \A c \in DOMAIN R.calls : R.calls[c] \in 0 .. CallTime
  BY <1>1, WaitsAre DEF ReaderRecord
<1>3. R.calls[k] \in 0 .. CallTime
  BY <1>2 DEF Awaited
<1>4. a \in Ages /\ a <= CallTime
  <2>1. a \in 0 .. R.calls[k]
    OBVIOUS
  <2>2. a \in Nat /\ a <= CallTime
    BY <2>1, <1>3
  <2>3. CallTime <= FreshBound + 1
    <3>1. DayTtl + CallTime <= Fresh /\ Fresh + DayTtl <= FreshBound /\ Fresh \in Nat
          /\ FreshBound \in Nat
      BY Bounds
    <3> QED
      BY <3>1
  <2> QED
    BY <2>2, <2>3, Bounds DEF Ages
<1>5. f \in {None} \cup Ages
  BY Bounds DEF Ages
<1>6. /\ T \in ReaderRecord /\ T.doing = R.doing /\ T.todo = rest /\ T.fills = R.fills
      /\ T.age = Greater(R.age, a) /\ T.failed = Greater(R.failed, f)
  <2>1. /\ Took(r, a, f, rest) \in ReaderRecord
        /\ Took(r, a, f, rest).doing = reader[r].doing /\ Took(r, a, f, rest).todo = rest
        /\ Took(r, a, f, rest).calls = reader[r].calls
        /\ Took(r, a, f, rest).fills = reader[r].fills
        /\ Took(r, a, f, rest).age = Greater(reader[r].age, a)
        /\ Took(r, a, f, rest).failed = Greater(reader[r].failed, f)
    BY <1>4, <1>5, TookTyped, ZenonT(30)
  <2> QED
    BY <2>1
<1>7. /\ h = [c \in DOMAIN R.calls \ {k} |-> R.calls[c]]
      /\ DOMAIN h = DOMAIN R.calls \ {k} /\ \A c \in DOMAIN h : h[c] = R.calls[c]
  BY DEF Hung, Awaited
<1>8. h \in Waits
  <2>1. h \in [DOMAIN R.calls \ {k} -> 0 .. CallTime]
    BY <1>2, <1>7
  <2>2. DOMAIN R.calls \ {k} \in SUBSET Asked
    BY <1>2
  <2> HIDE DEF h, R
  <2> QED
    BY <2>1, <2>2 DEF Waits
<1>9. Q = [T EXCEPT !.calls = h]
  BY DEF CallEnded
<1> HIDE DEF T, h, R
<1>10. /\ Q \in ReaderRecord /\ Q.doing = T.doing /\ Q.todo = T.todo /\ Q.fills = T.fills
       /\ Q.age = T.age /\ Q.failed = T.failed /\ Q.calls = h
  BY <1>6, <1>8, <1>9 DEF ReaderRecord
<1> QED
  BY <1>4, <1>6, <1>7, <1>10 DEF R

(* Whoever awaits a call makes its calls in one of the two ways.           *)
LEMMA AwaitingReads ==
  ASSUME CacheInv, NEW r \in Readers, NEW k \in Awaited(r)
  PROVE  /\ reader[r].doing = "read" /\ reader[r] \in ReaderRecord /\ k \in DOMAIN reader[r].calls
         /\ Sequential(reader[r]) \/ Parallel(reader[r])
         /\ reader[r].todo \in Seq(Asked)
BY DEF CacheInv, Typed, Awaited, ReaderOK, Served, Asking, ReaderRecord

LEMMA CallEndedOK ==
  ASSUME CacheInv, NEW r \in Readers, NEW k \in Awaited(r),
         NEW a \in 0 .. reader[r].calls[k], NEW f \in {None, 0},
         NEW rest \in {Follows(k, reader[r].todo), FailFollows(k, reader[r].todo)},
         NEW Q, CallEnded(r, k, a, f, rest, Q)
  PROVE  Q \in ReaderRecord /\ ReaderOK(Q) /\ k \notin {"known", "genres"}
<1> DEFINE R == reader[r]
<1>1. /\ R.doing = "read" /\ R \in ReaderRecord /\ k \in DOMAIN R.calls
      /\ Sequential(R) \/ Parallel(R)
      /\ R.todo \in Seq(Asked)
  BY AwaitingReads
<1>2. rest \in Seq(Asked)
  BY <1>1, FollowsTyped
<1>3. /\ Q \in ReaderRecord /\ Q.doing = R.doing /\ Q.todo = rest
      /\ Q.fills = R.fills /\ Q.age = Greater(R.age, a) /\ Q.failed = Greater(R.failed, f)
      /\ DOMAIN Q.calls = DOMAIN R.calls \ {k}
      /\ \A c \in DOMAIN Q.calls : Q.calls[c] = R.calls[c]
      /\ a \in Ages /\ a <= CallTime
  BY <1>2, CallEndedTyped
<1>4. a \in 0 .. R.calls[k] /\ rest \in {Follows(k, R.todo), FailFollows(k, R.todo)}
  OBVIOUS
<1> HIDE DEF R
<1>5. ASSUME Sequential(R) PROVE Sequential(Q) /\ k \notin {"known", "genres"}
  <2>1. PICK n \in 0 .. P : 
           /\ Due(R.todo, {k}, n) /\ R.age + Time(n) <= Fresh
           /\ R.failed = None \/ R.failed + Time(n) <= Assembly
    BY <1>1, <1>5, SequentialEnded
  <2>2. Due(Q.todo, {}, n) /\ k \in Plain \cup Browsed
    BY <1>3, <1>4, <2>1, DueAnswered
  <2>3. DOMAIN Q.calls = {} /\ R.fills \in {"none", "known"}
    BY <1>1, <1>3, <1>5 DEF Sequential
  <2>4. a <= DayTtl + CallTime
    <3>1. a \in Int
      BY <1>3, Bounds DEF Ages
    <3> QED
      BY <1>3, <3>1
  <2>5. Sequential(Q)
    BY <1>1, <1>3, <2>1, <2>2, <2>3, <2>4, SequentialGoesOn
  <2> QED
    BY <2>2, <2>5, BrowsedApart DEF Plain, DayKeys
<1>6. ASSUME Parallel(R) PROVE Parallel(Q) /\ k \notin {"known", "genres"}
  <2>1. k \in Items(Artists)
    BY <1>1, <1>6 DEF Parallel
  <2>2. k \notin {"known", "genres", "categories", "mine"} /\ k \notin Items(Pages)
    BY <2>1, ArtistsUncached
  <2>3. rest = R.todo
    BY <1>4, <2>2 DEF Follows, ScanFollows, SearchFollows, FailFollows
  <2> QED
    BY <1>1, <1>3, <1>4, <1>6, <2>2, <2>3, ParallelEnds
<1>7. ReaderOK(Q)
  BY <1>1, <1>3, <1>5, <1>6, ReadOK
<1> QED
  BY <1>1, <1>3, <1>5, <1>6, <1>7

LEMMA AnswerKeeps ==
  ASSUME CacheInv, NEW r \in Readers, Answer(r)
  PROVE  CacheInv'
<1>0. PICK k \in Awaited(r) : \E age \in 0 .. reader[r].calls[k] :
       /\ reader' = [reader EXCEPT ![r] =
            [Took(r, age, None, Follows(k, reader[r].todo)) EXCEPT !.calls = Hung(r, k)]]
       /\ store' = IF k \in Keys THEN Put(k, age, None) ELSE store
  BY DEF Answer
<1>1. PICK a \in 0 .. reader[r].calls[k] :
       /\ reader' = [reader EXCEPT ![r] =
            [Took(r, a, None, Follows(k, reader[r].todo)) EXCEPT !.calls = Hung(r, k)]]
       /\ store' = IF k \in Keys THEN Put(k, a, None) ELSE store
  BY <1>0
<1> DEFINE rest == Follows(k, reader[r].todo)
           Q == [Took(r, a, None, rest) EXCEPT !.calls = Hung(r, k)]
<1>2. kind' = kind /\ failures' \in 0 .. MaxFailures
  BY DEF Answer, CacheInv, Typed
<1>3. CallEnded(r, k, a, None, rest, Q) /\ reader' = [reader EXCEPT ![r] = Q]
  BY <1>1 DEF CallEnded
<1>4. rest \in Seq(Asked)
  BY AwaitingReads, FollowsTyped
<1> HIDE DEF Q
<1>5. Q \in ReaderRecord /\ ReaderOK(Q) /\ k \notin {"known", "genres"}
  BY <1>3, CallEndedOK
<1>6. a \in Ages /\ a <= CallTime
  BY <1>3, <1>4, CallEndedTyped
<1>7. OldestOf(k) = CallTime
  BY <1>5 DEF OldestOf
<1>8. Stored
  <2>1. CASE k \in Keys
    BY <1>1, <1>6, <1>7, <2>1, PutStored
  <2>2. CASE k \notin Keys
    BY <1>1, <2>2, SameStore
  <2> QED
    BY <2>1, <2>2
<1> QED
  BY <1>2, <1>3, <1>5, <1>8, StepKeeps

LEMMA FailKeeps ==
  ASSUME CacheInv, NEW r \in Readers, Fail(r)
  PROVE  CacheInv'
<1>1. PICK k \in Awaited(r) : reader' = [reader EXCEPT ![r] =
         [Took(r, 0, 0, FailFollows(k, reader[r].todo)) EXCEPT !.calls = Hung(r, k)]]
  BY DEF Fail
<1> DEFINE rest == FailFollows(k, reader[r].todo)
           Q == [Took(r, 0, 0, rest) EXCEPT !.calls = Hung(r, k)]
<1>2. kind' = kind /\ store' = store /\ failures' \in 0 .. MaxFailures
  BY DEF Fail, CacheInv, Typed
<1>3. CallEnded(r, k, 0, 0, rest, Q) /\ reader' = [reader EXCEPT ![r] = Q]
  BY <1>1 DEF CallEnded
<1>4. 0 \in 0 .. reader[r].calls[k]
  <2>1. reader[r].calls[k] \in 0 .. CallTime
    BY AwaitingReads, WaitsAre DEF ReaderRecord
  <2> QED
    BY <2>1
<1> HIDE DEF Q
<1>5. Q \in ReaderRecord /\ ReaderOK(Q)
  BY <1>3, <1>4, CallEndedOK
<1> QED
  BY <1>2, <1>3, <1>5, SameStore, StepKeeps

(* A refused read is one of those counted, and brings no data.             *)
LEMMA RefuseKeeps ==
  ASSUME CacheInv, NEW r \in Readers, Refuse(r)
  PROVE  CacheInv'
<1> DEFINE R == reader[r]
           k == Head(R.todo)
           rest == FailFollows(k, Tail(R.todo))
           T == Took(r, 0, 0, rest)
           Q == [T EXCEPT !.fills = IF k = "categories" THEN "none" ELSE @]
<1>1. /\ Running(r) /\ R.todo # <<>> /\ k \notin Items(Artists)
      /\ reader' = [reader EXCEPT ![r] = Q] /\ UNCHANGED <<kind, store>>
  BY DEF Refuse
<1>2. R.doing = "read" /\ Active(R) /\ R \in ReaderRecord
      /\ (Served(R) \/ Asking(R) \/ Sequential(R) \/ Parallel(R))
  BY <1>1, RunningActive
<1>3. failures' \in 0 .. MaxFailures
  BY DEF Refuse, CacheInv, Typed
<1>4. Tail(R.todo) \in Seq(Asked)
  BY <1>1, <1>2 DEF ReaderRecord
<1>5. rest \in Seq(Asked) /\ 0 \in Ages
  BY <1>4, FollowsTyped, Bounds DEF Ages, FailFollows
<1>6. /\ T \in ReaderRecord /\ T.doing = R.doing /\ T.todo = rest /\ T.calls = R.calls
      /\ T.fills = R.fills /\ T.age = Greater(R.age, 0) /\ T.failed = Greater(R.failed, 0)
  BY <1>5, TookTyped
<1> HIDE DEF T, R, rest
<1>7. /\ Q \in ReaderRecord /\ Q.doing = R.doing /\ Q.todo = rest /\ Q.calls = R.calls
      /\ Q.fills \in {R.fills, "none"}
      /\ Q.age = Greater(R.age, 0) /\ Q.failed = Greater(R.failed, 0)
  BY <1>6 DEF ReaderRecord
<1> HIDE DEF Q
<1>8. ASSUME Asking(R) PROVE ReaderOK(Q)
  <2>1. Q.todo = <<>> /\ Q.fills = "none" /\ DOMAIN Q.calls = {}
    <3>1. \A x : Tail(<<x>>) = <<>>
      OBVIOUS
    <3>2. Tail(R.todo) = <<>>
      BY <1>8, <3>1 DEF Asking
    <3> QED
      BY <1>7, <1>8, <3>2 DEF Asking, rest, FailFollows
  <2>2. Q.age = 0 /\ Q.failed = 0
    BY <1>7, <1>8 DEF Asking, Greater, None
  <2>3. FreshBound >= 0 /\ MostFailed >= 0
    <3> DEFINE m == CallTime * (Len(Artists) - 1)
    <3>1. m \in Int /\ Assembly \in Nat /\ MostFailed = DayTtl + Greater(Assembly, m)
      BY LengthsNat, Bounds DEF MostFailed
    <3> HIDE DEF m
    <3> QED
      BY <3>1, Bounds DEF Greater
  <2>4. Served(Q)
    BY <2>1, <2>2, <2>3 DEF Served
  <2> QED
    BY <1>2, <1>7, <2>4, ReadOK
<1>9. ASSUME Sequential(R) PROVE ReaderOK(Q)
  <2>1. DOMAIN R.calls = {}
    BY <1>2, <1>9, ActiveSequential
  <2>2. PICK n \in 0 .. P + 1 : Counted(R, n)
    BY <1>9 DEF Sequential
  <2>3. Due(R.todo, {}, n) /\ R.age + Time(n) <= Fresh
        /\ (R.failed = None \/ R.failed + Time(n) <= Assembly)
    BY <2>1, <2>2 DEF Counted, Within
  <2>4. n - 1 \in 0 .. P /\ Due(Tail(R.todo), {k}, n - 1)
    BY <1>1, <2>3, DueRead
  <2>5. Due(Q.todo, {}, n - 1)
    BY <1>7, <2>4, DueAnswered DEF rest
  <2>6. Time(n - 1) <= Time(n) /\ Time(n - 1) \in Nat /\ Time(n) \in Nat
    <3>1. n - 1 \in Nat /\ n \in Nat /\ n - 1 <= n
      BY <2>4, LengthsNat
    <3> QED
      BY <3>1, TimeGrows, TimeNat
  <2>7. R.age \in Int /\ R.failed \in Int /\ Fresh \in Int /\ Assembly \in Int
    BY <1>2, Bounds DEF ReaderRecord, Ages, None
  <2>8. R.age + Time(n - 1) <= Fresh
        /\ (R.failed = None \/ R.failed + Time(n - 1) <= Assembly)
    BY <2>3, <2>6, <2>7
  <2>9. Q.fills \in {"none", "known"} /\ DOMAIN Q.calls = {}
    BY <1>7, <1>9, <2>1 DEF Sequential
  <2>10. 0 <= DayTtl + CallTime
    OBVIOUS
  <2>11. Sequential(Q)
    BY <1>2, <1>5, <1>7, <2>4, <2>5, <2>8, <2>9, <2>10, SequentialGoesOn
  <2> QED
    BY <1>2, <1>7, <2>11, ReadOK
<1>10. ~ Served(R)
  BY <1>1 DEF Served
<1>11. ~ Parallel(R)
  BY <1>1 DEF Parallel
<1>12. ReaderOK(Q)
  BY <1>2, <1>8, <1>9, <1>10, <1>11
<1> QED
  BY <1>1, <1>3, <1>7, <1>12, SameStore, StepKeeps

(* What a reader hands out and stores when nothing is left to read.        *)
LEMMA WhenEnds ==
  ASSUME CacheInv, NEW r \in Readers, Ends(r)
  PROVE  LET R == reader[r] IN
         /\ R \in ReaderRecord /\ R.age <= FreshBound /\ R.failed <= MostFailed
         /\ R.fills = "known" =>
              R.age <= Fresh /\ (R.failed = None \/ R.failed <= Assembly)
         /\ R.fills = "genres" =>
              /\ R.age <= Time(Len(Artists))
              /\ R.failed = None \/ R.failed <= CallTime * (Len(Artists) - 1)
<1> DEFINE R == reader[r]
           m == CallTime * (Len(Artists) - 1)
<1>1. R.doing = "read" /\ Active(R) /\ R \in ReaderRecord /\ R.todo = <<>>
      /\ (Served(R) \/ Asking(R) \/ Sequential(R) \/ Parallel(R))
  BY RunningActive DEF Ends
<1> HIDE DEF R
<1>2. R.age \in Int /\ R.failed \in Int /\ None = -1
  BY <1>1, Bounds DEF ReaderRecord, Ages, None
<1>3. DOMAIN R.calls = {}
  BY <1>1 DEF Active
<1>4. m \in Int /\ Assembly \in Nat /\ MostFailed = DayTtl + Greater(Assembly, m)
  BY LengthsNat, Bounds DEF MostFailed
<1> HIDE DEF m
<1>5. MostFailed \in Int /\ MostFailed >= Assembly /\ MostFailed >= m /\ MostFailed >= None
  BY <1>2, <1>4 DEF Greater
<1>6. Fresh \in Nat /\ Time(Len(Artists)) \in Nat /\ FreshBound \in Nat
      /\ Fresh <= FreshBound /\ Time(Len(Artists)) <= FreshBound
  <2>1. Time(Len(Artists)) \in Nat
    BY LengthsNat, TimeNat
  <2>2. /\ Fresh \in Nat /\ FreshBound \in Nat /\ Fresh + DayTtl <= FreshBound
        /\ DayTtl + Time(Len(Artists)) <= FreshBound
    BY Bounds
  <2> QED
    BY <2>1, <2>2
<1>7. ASSUME Sequential(R)
      PROVE  R.age <= Fresh /\ (R.failed = None \/ R.failed <= Assembly) /\ R.fills # "genres"
  <2>1. PICK n \in 0 .. P + 1 : Counted(R, n)
    BY <1>7 DEF Sequential
  <2>2. R.age + Time(n) <= Fresh /\ (R.failed = None \/ R.failed + Time(n) <= Assembly)
    BY <1>3, <2>1 DEF Counted, Within
  <2>3. Time(n) \in Nat
    BY LengthsNat, TimeNat
  <2>4. R.fills # "genres"
    BY <1>7 DEF Sequential
  <2> QED
    BY <1>2, <1>4, <1>6, <2>2, <2>3, <2>4, SMTT(30)
<1>8. ASSUME Parallel(R)
      PROVE  /\ R.age <= Time(Len(Artists)) /\ (R.failed = None \/ R.failed <= m)
             /\ R.fills = "genres"
  <2>1. PICK f \in Nat : Ended(R, f)
    BY <1>8 DEF Parallel
  <2>2. R.age <= Time(f) /\ (R.failed = None \/ (f > 0 /\ R.failed <= Time(f - 1)))
    BY <1>1, <2>1 DEF Ended, Elapsed
  <2>3. f <= Len(Artists)
    <3>1. Cardinality(DOMAIN R.calls) = 0 /\ Len(R.todo) = 0
      BY <1>1, <1>3, FS_EmptySet
    <3> QED
      BY <2>1, <3>1, LengthsNat DEF Ended
  <2>4. R.age <= Time(Len(Artists))
    <3>1. Time(f) <= Time(Len(Artists)) /\ Time(f) \in Nat
      BY <2>3, LengthsNat, TimeGrows, TimeNat
    <3> QED
      BY <1>2, <1>6, <2>2, <3>1
  <2>5. ASSUME f > 0, R.failed <= Time(f - 1) PROVE R.failed <= m
    <3>1. f - 1 \in Nat /\ Len(Artists) - 1 \in Nat /\ f - 1 <= Len(Artists) - 1
      BY <2>3, <2>5, LengthsNat
    <3>2. Time(f - 1) <= Time(Len(Artists) - 1) /\ Time(f - 1) \in Nat
      BY <3>1, TimeGrows, TimeNat
    <3>3. Time(Len(Artists) - 1) = m
      BY DEF Time, m
    <3> QED
      BY <1>2, <1>4, <2>5, <3>2, <3>3
  <2>6. R.fills = "genres"
    BY <1>8 DEF Parallel
  <2> QED
    BY <2>2, <2>4, <2>5, <2>6
<1>9. ASSUME Served(R)
      PROVE  R.age <= FreshBound /\ R.failed <= MostFailed /\ R.fills = "none"
  BY <1>9 DEF Served
<1>10. ~ Asking(R)
  BY <1>1 DEF Asking
<1>11. R.age <= FreshBound /\ R.failed <= MostFailed
  BY <1>1, <1>2, <1>4, <1>5, <1>6, <1>7, <1>8, <1>9, <1>10
<1>12. R.fills = "known" => R.age <= Fresh /\ (R.failed = None \/ R.failed <= Assembly)
  BY <1>1, <1>7, <1>8, <1>9, <1>10
<1>13. R.fills = "genres" => R.age <= Time(Len(Artists)) /\ (R.failed = None \/ R.failed <= m)
  BY <1>1, <1>7, <1>8, <1>9, <1>10
<1> QED
  BY <1>1, <1>11, <1>12, <1>13 DEF R, m

LEMMA FinishKeeps ==
  ASSUME CacheInv, NEW r \in Readers, Finish(r)
  PROVE  CacheInv'
<1> DEFINE R == reader[r]
           to == IF R.failed = None THEN "complete" ELSE "partial"
           Q == [Idle EXCEPT !.doing = to]
<1>1. /\ Ends(r) /\ reader' = [reader EXCEPT ![r] = Q] /\ UNCHANGED <<kind, failures>>
      /\ store' = IF R.fills = "none" THEN store ELSE Put(R.fills, R.age, R.failed)
  BY DEF Finish
<1>2. /\ R \in ReaderRecord
      /\ R.fills = "known" => R.age <= Fresh /\ (R.failed = None \/ R.failed <= Assembly)
      /\ R.fills = "genres" =>
           /\ R.age <= Time(Len(Artists))
           /\ R.failed = None \/ R.failed <= CallTime * (Len(Artists) - 1)
  BY <1>1, WhenEnds
<1>3. R.fills \in {"none", "known", "genres"} /\ R.age \in Ages /\ R.failed \in {None} \cup Ages
  BY <1>2 DEF ReaderRecord
<1>4. to \in {"complete", "partial"}
  OBVIOUS
<1> HIDE DEF to
<1>5. Q \in ReaderRecord /\ Q.doing = to /\ DOMAIN Q.calls = {}
  BY <1>4, IdleTyped DEF ReaderRecord
<1>6. ReaderOK(Q)
  BY <1>4, <1>5 DEF ReaderOK
<1> HIDE DEF Q, R
<1>7. Stored
  <2>1. CASE R.fills = "none"
    BY <1>1, <2>1, SameStore
  <2>2. CASE R.fills = "known"
    <3>1. "known" \in Keys /\ OldestOf("known") = Fresh
      BY DEF Keys, DayKeys, OldestOf
    <3>2. store' = Put("known", R.age, R.failed)
      BY <1>1, <2>2
    <3> QED
      BY <1>2, <1>3, <2>2, <3>1, <3>2, PutStored
  <2>3. CASE R.fills = "genres"
    <3>1. "genres" \in Keys /\ OldestOf("genres") = Time(Len(Artists))
      BY DEF Keys, DayKeys, OldestOf
    <3>2. store' = Put("genres", R.age, R.failed)
      BY <1>1, <2>3
    <3> QED
      BY <1>2, <1>3, <2>3, <3>1, <3>2, PutStored
  <2> QED
    BY <1>3, <2>1, <2>2, <2>3
<1>8. kind' = kind /\ failures' \in 0 .. MaxFailures
  BY <1>1 DEF CacheInv, Typed
<1> QED
  BY <1>1, <1>5, <1>6, <1>7, <1>8, StepKeeps

LEMMA TickKeeps ==
  ASSUME CacheInv, Tick
  PROVE  CacheInv'
<1>1. /\ \A r \in Readers : ~ Running(r) /\ \A k \in Awaited(r) : reader[r].calls[k] < CallTime
      /\ store' = [k \in Keys |-> IF Get(k) = Nothing THEN store[k] ELSE
                     [kept |-> Older(store[k].kept), age |-> Older(store[k].age),
                      failed |-> Older(store[k].failed)]]
      /\ reader' = [r \in Readers |-> IF reader[r].doing # "read" THEN reader[r] ELSE
                      [reader[r] EXCEPT !.age = Older(@), !.failed = Older(@),
                         !.calls = [k \in DOMAIN @ |-> @[k] + 1]]]
      /\ UNCHANGED <<kind, failures>>
  BY DEF Tick
<1>2. \A k \in Keys : store'[k] \in EntryRecord /\ store'[k].kept <= Ttl(k) + 1
                      /\ EntryOK(k, store'[k])
  <2> TAKE k \in Keys
  <2>1. CASE Get(k) = Nothing
    BY <1>1, <2>1 DEF CacheInv, Typed
  <2>2. CASE Get(k) # Nothing
    <3> DEFINE e == [kept |-> Older(store[k].kept), age |-> Older(store[k].age),
                     failed |-> Older(store[k].failed)]
    <3>1. store'[k] = e
      BY <1>1, <2>2
    <3>2. e \in EntryRecord /\ e.kept <= Ttl(k) + 1 /\ EntryOK(k, e)
      BY <2>2, EntryAges DEF CacheInv
    <3> QED
      BY <3>1, <3>2
  <2> QED
    BY <2>1, <2>2
<1>3. store' \in [Keys -> EntryRecord]
  <2>1. DOMAIN store' = Keys /\ store' = [k \in Keys |-> store'[k]]
    BY <1>1
  <2> QED
    BY <1>2, <2>1
<1>4. \A r \in Readers : reader'[r] \in ReaderRecord /\ ReaderOK(reader'[r])
  <2> TAKE r \in Readers
  <2> DEFINE R == reader[r]
             Q == [R EXCEPT !.age = Older(@), !.failed = Older(@),
                            !.calls = [k \in DOMAIN @ |-> @[k] + 1]]
  <2>1. R \in ReaderRecord /\ ReaderOK(R)
    BY DEF CacheInv, Typed
  <2>2. CASE R.doing # "read"
    BY <1>1, <2>1, <2>2
  <2>3. CASE R.doing = "read"
    <3>1. reader'[r] = Q
      BY <1>1, <2>3
    <3>2. ~ Active(R) /\ \A k \in DOMAIN R.calls : R.calls[k] < CallTime
      BY <1>1, <2>3 DEF Running, Awaited, Width, Active
    <3>3. /\ Q \in ReaderRecord
          /\ Q.todo = R.todo /\ Q.fills = R.fills /\ Q.age = Older(R.age)
          /\ Q.doing = R.doing /\ Q.failed = Older(R.failed)
          /\ DOMAIN Q.calls = DOMAIN R.calls
          /\ \A k \in DOMAIN R.calls : Q.calls[k] = R.calls[k] + 1
      BY <2>1, <3>2, ReaderAgesTyped
    <3> HIDE DEF Q, R
    <3>4. ReaderOK(Q)
      BY <2>1, <2>3, <3>2, <3>3, ReaderAges
    <3> QED
      BY <3>1, <3>3, <3>4
  <2> QED
    BY <2>2, <2>3
<1>5. reader' \in [Readers -> ReaderRecord]
  <2>1. DOMAIN reader' = Readers /\ reader' = [r \in Readers |-> reader'[r]]
    BY <1>1
  <2> QED
    BY <1>4, <2>1
<1>6. kind' \in [Readers -> Kinds] /\ failures' \in 0 .. MaxFailures
  BY <1>1 DEF CacheInv, Typed
<1> QED
  BY <1>2, <1>3, <1>4, <1>5, <1>6 DEF CacheInv, Typed

-----------------------------------------------------------------------------
(* The invariant holds initially, is kept, and gives the properties.       *)
LEMMA InitCache == Init => CacheInv
<1> SUFFICES ASSUME Init PROVE CacheInv
  OBVIOUS
<1>1. kind \in [Readers -> Kinds] /\ failures \in 0 .. MaxFailures
  BY MixesOfKinds DEF Init
<1>2. store \in [Keys -> EntryRecord]
      /\ \A k \in Keys : store[k].kept <= Ttl(k) + 1 /\ EntryOK(k, store[k])
  BY NothingOK DEF Init
<1>3. /\ reader \in [Readers -> ReaderRecord]
      /\ \A r \in Readers : reader[r] = Idle
  BY IdleTyped DEF Init
<1>4. ReaderOK(Idle)
  <2>1. Idle.doing = "idle"
    BY DEF Idle
  <2> QED
    BY <2>1, IdleTyped DEF ReaderOK
<1> QED
  BY <1>1, <1>2, <1>3, <1>4 DEF CacheInv, Typed

LEMMA NextKeepsCache == CacheInv /\ [Next]_vars => CacheInv'
<1> SUFFICES ASSUME CacheInv, [Next]_vars PROVE CacheInv'
  OBVIOUS
<1>1. CASE Tick
  BY <1>1, TickKeeps
<1>2. ASSUME NEW r \in Readers, Start(r) \/ Step(r) \/ Fail(r) \/ Refuse(r)
      PROVE  CacheInv'
  <2>1. CASE Start(r)
    BY <2>1, StartKeeps
  <2>2. CASE Fail(r)
    BY <2>2, FailKeeps
  <2>3. CASE Hit(r)
    BY <2>3, HitKeeps
  <2>4. CASE Assemble(r)
    BY <2>4, AssembleKeeps
  <2>5. CASE Call(r)
    BY <2>5, CallKeeps
  <2>6. CASE Answer(r)
    BY <2>6, AnswerKeeps
  <2>7. CASE Finish(r)
    BY <2>7, FinishKeeps
  <2>8. CASE Refuse(r)
    BY <2>8, RefuseKeeps
  <2> QED
    BY <1>2, <2>1, <2>2, <2>3, <2>4, <2>5, <2>6, <2>7, <2>8 DEF Step
<1>3. CASE UNCHANGED vars
  BY <1>3 DEF vars, CacheInv, Typed
<1> QED
  BY <1>1, <1>2, <1>3 DEF Next

LEMMA CacheAlways == Spec => []CacheInv
BY InitCache, NextKeepsCache, PTL DEF Spec

(* Every entry and request keeps its shape, within the bounds on time, and *)
(* no reader has more calls under way than the semaphore lets through.     *)
THEOREM CacheTyped == Spec => []TypeOK
<1>1. ASSUME CacheInv PROVE TypeOK
  <2>1. /\ kind \in [Readers -> Kinds] /\ failures \in 0 .. MaxFailures
        /\ store \in [Keys -> EntryRecord] /\ reader \in [Readers -> ReaderRecord]
        /\ \A k \in Keys : store[k].kept <= Ttl(k) + 1
        /\ \A r \in Readers : ReaderOK(reader[r])
    BY <1>1 DEF CacheInv, Typed
  <2>2. \A k \in Keys : /\ store[k].kept \in -1 .. Ttl(k) + 1
                        /\ store[k].age \in Ages /\ store[k].failed \in {None} \cup Ages
    <3> TAKE k \in Keys
    <3>1. store[k] \in EntryRecord /\ store[k].kept <= Ttl(k) + 1 /\ Ttl(k) \in Nat
      BY <2>1, DaysLong
    <3>2. store[k].kept \in -1 .. DayTtl + 1 /\ store[k].age \in Ages
          /\ store[k].failed \in {None} \cup Ages
      BY <3>1 DEF EntryRecord
    <3> QED
      BY <3>1, <3>2
  <2>3. ASSUME NEW r \in Readers
        PROVE  /\ reader[r].doing \in {"idle", "read", "complete", "partial"}
               /\ Items(reader[r].todo) \cup Awaited(r) \subseteq Keys \cup Items(Artists)
               /\ reader[r].age \in Ages /\ reader[r].failed \in {None} \cup Ages
               /\ Cardinality(Awaited(r)) <= Width(r)
    <3> DEFINE R == reader[r]
    <3>1. R \in ReaderRecord /\ ReaderOK(R)
      BY <2>1
    <3>2. /\ R.doing \in {"idle", "read", "complete", "partial"}
          /\ R.age \in Ages /\ R.failed \in {None} \cup Ages
      BY <3>1 DEF ReaderRecord
    <3>3. Items(R.todo) \subseteq Asked /\ DOMAIN R.calls \subseteq Asked
      <4>1. R.todo \in Seq(Asked) /\ R.calls \in Waits
        BY <3>1 DEF ReaderRecord
      <4> QED
        BY <4>1, WaitsAre DEF Items
    <3>4. Cardinality(DOMAIN R.calls) <= Width(r)
      <4>0. Width(r) = (IF R.fills = "genres" THEN Slots ELSE 1) /\ 0 <= Slots
        BY DEF Width
      <4>1. CASE DOMAIN R.calls = {}
        BY <4>0, <4>1, FS_EmptySet
      <4>2. CASE DOMAIN R.calls # {} /\ Sequential(R)
        <5>1. PICK k : DOMAIN R.calls = {k}
          BY <4>2 DEF Sequential
        <5>2. Cardinality(DOMAIN R.calls) = 1
          BY <5>1, FS_Singleton
        <5>3. R.fills # "genres"
          BY <4>2 DEF Sequential
        <5> QED
          BY <4>0, <5>2, <5>3
      <4>3. CASE Parallel(R)
        BY <4>0, <4>3 DEF Parallel
      <4> QED
        BY <3>1, <4>1, <4>2, <4>3 DEF ReaderOK, Served, Asking
    <3> QED
      BY <3>2, <3>3, <3>4 DEF Awaited, Asked
  <2> QED
    BY <2>1, <2>2, <2>3 DEF TypeOK
<1> QED
  BY <1>1, CacheAlways, PTL

(* What a reader hands out holds nothing the platform said longer ago than *)
(* two day long limits and the calls of one assembly, whatever hits, other *)
(* readers' stores and slow calls it was put together from.                *)
THEOREM CacheFresh == Spec => []AnswersFresh
<1>1. ASSUME CacheInv PROVE AnswersFresh
  BY <1>1, WhenEnds DEF AnswersFresh
<1> QED
  BY <1>1, CacheAlways, PTL

(* The failures behind an incomplete answer lie within one day and the     *)
(* rest of the assembly they happened in.                                  *)
THEOREM CachePartial == Spec => []PartialWithinADay
<1>1. ASSUME CacheInv PROVE PartialWithinADay
  BY <1>1, WhenEnds DEF PartialWithinADay, MostFailed
<1> QED
  BY <1>1, CacheAlways, PTL
=============================================================================
