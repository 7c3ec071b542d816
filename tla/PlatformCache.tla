--------------------------- MODULE PlatformCache ---------------------------
(***************************************************************************)
(* The in-memory TTL cache and the adapter methods that read the music     *)
(* platforms through it.  A reader runs without suspension from one await  *)
(* to the next; an await is a platform call, which takes up to CallTime    *)
(* and may fail.  What is assembled from several reads is itself stored.   *)
(* Of the data only two things are kept: the age of its oldest part, and   *)
(* the time since a call behind it failed, None when all succeeded.        *)
(***************************************************************************)
EXTENDS Integers, SequencesExt

CONSTANTS
  Readers,      \* background tasks that use the adapters
  Mixes,        \* what the readers may be reading together
  Saved,        \* a participant's saved playlists, in order
  Pages,        \* the category pages a genre and a mood map to, in order
  Listed,       \* the playlists on each page, in order
  Artists,      \* the artists of the scanned tracks, in order
  Slots,        \* concurrent artist calls
  TopTtl, DayTtl,   \* TOP_TRACKS_TTL and the day long TTLs, in ticks
  CallTime,     \* most ticks one call, its retries included, takes
  MaxFailures   \* bound: calls that fail or are refused

VARIABLES
  kind,         \* kind[r]: what reader r reads
  store,        \* the cache: an entry or Nothing under each key
  reader,       \* per reader: what it has to read, awaits and has read
  failures      \* number of failed and refused calls

vars == <<kind, store, reader, failures>>

Items(s) == {s[i] : i \in DOMAIN s}
Playlists == Items(Saved) \cup UNION {Items(Listed[p]) : p \in Items(Pages)}
DayKeys == {"categories", "known", "features", "genres"}
Keys == DayKeys \cup {"mine"} \cup Items(Pages) \cup Playlists
Kinds == {"scan", "search", "known", "features", "genres"}

ASSUME MixesOfKinds == Mixes \subseteq [Readers -> Kinds]
ASSUME TimesNat ==
  /\ TopTtl \in Nat /\ DayTtl \in Nat /\ TopTtl <= DayTtl
  /\ CallTime \in Nat /\ MaxFailures \in Nat /\ Slots \in Nat \ {0}

(* A library lists a playlist once.  Keys of different reads differ: each  *)
(* has a prefix of its own.                                                *)
ASSUME SequencesRead ==
  /\ Pages \in Seq(Items(Pages)) /\ Artists \in Seq(Items(Artists))
  /\ Saved \in Seq(Items(Saved)) /\ IsInjective(Saved)
  /\ \A p \in Items(Pages) : Listed[p] \in Seq(Items(Listed[p]))
ASSUME KeysApart ==
  /\ (DayKeys \cup {"mine"}) \cap (Items(Pages) \cup Playlists \cup Items(Artists)) = {}
  /\ Items(Pages) \cap (Playlists \cup Items(Artists)) = {}
  /\ Playlists \cap Items(Artists) = {}
None == -1
Nothing == [kept |-> None, age |-> 0, failed |-> None]

Greater(m, n) == IF m > n THEN m ELSE n

(* The longest an assembly takes after its first read, and the oldest data *)
(* that can be handed out.                                                 *)
Assembly == CallTime * (Len(Pages) + Cardinality(Playlists))
FreshBound == Greater(2 * DayTtl + CallTime + Assembly, DayTtl + CallTime * Len(Artists))
Older(n) == IF n \in {None, FreshBound + 1} THEN n ELSE n + 1   \* a bound on ages

-----------------------------------------------------------------------------
(* CacheService.                                                           *)
Ttl(k) == IF k \in DayKeys THEN DayTtl ELSE TopTtl
GetUnexpired(k) == IF k \in Keys THEN store[k] ELSE Nothing   \* mutant: no expiry
GetForGood(k) ==   \* mutant: genres are stored without a time limit
  IF k \in Keys /\ (k = "genres" \/ store[k].kept <= Ttl(k)) THEN store[k] ELSE Nothing
Get(k) == IF k \in Keys /\ store[k].kept <= Ttl(k) THEN store[k] ELSE Nothing
Evict(k) ==
  store' = IF k \in Keys THEN [store EXCEPT ![k] = Nothing] ELSE store
Put(k, age, failed) ==
  IF Ttl(k) = 0 THEN store
  ELSE [store EXCEPT ![k] = [kept |-> 0, age |-> age, failed |-> failed]]

-----------------------------------------------------------------------------
Idle == [doing |-> "idle", todo |-> <<>>, calls |-> <<>>, fills |-> "none",
         age |-> 0, failed |-> None]

Init ==
  /\ kind \in Mixes
  /\ store = [k \in Keys |-> Nothing]
  /\ reader = [r \in Readers |-> Idle]
  /\ failures = 0

(* The keys each kind of request begins with.                              *)
Begins(d) ==
  CASE d = "scan"   -> <<"mine">>
    [] d = "search" -> <<"categories">>
    [] OTHER        -> <<d>>

(* What remains to read after key k was read: the pages of the categories, *)
(* then the playlists of the pages, each once; the order of those of one   *)
(* page is left unspecified.                                               *)
ScanFollows(k, todo) == IF k = "mine" THEN Saved ELSE todo
SearchFollows(k, todo) ==
  CASE k = "categories"   -> Pages
    [] k \in Items(Pages) -> todo \o SetToSeq(Items(Listed[k]) \ Items(todo))
    [] OTHER              -> todo
Follows(k, todo) == ScanFollows(k, SearchFollows(k, todo))

(* What remains after the read of k failed: a failed category lookup ends  *)
(* the search, a failed playlist listing the scan; other reads are skipped.*)
FailFollows(k, todo) == IF k \in {"categories", "mine"} THEN <<>> ELSE todo

(* What an assembly reads when its own key is not in the cache.            *)
Expands(k) == IF k = "known" THEN <<"categories">> ELSE Artists

(* A semaphore lets Slots artist calls run at once; other reads are made   *)
(* one after the other.                                                    *)
Width(r) == IF reader[r].fills = "genres" THEN Slots ELSE 1
Awaited(r) == DOMAIN reader[r].calls
RunningUnbounded(r) ==   \* mutant: no semaphore
  reader[r].doing = "read" /\ (Awaited(r) = {} \/ reader[r].todo # <<>>)
Running(r) ==
  /\ reader[r].doing = "read"
  /\ \/ Awaited(r) = {}
     \/ reader[r].todo # <<>> /\ Cardinality(Awaited(r)) < Width(r)
Alone(r) == \A o \in Readers \ {r} : ~Running(o)

Start(r) ==
  /\ reader[r].doing # "read" /\ Alone(r)
  /\ reader' = [reader EXCEPT ![r] =
                  [Idle EXCEPT !.doing = "read", !.todo = Begins(kind[r])]]
  /\ UNCHANGED <<kind, store, failures>>

Took(r, age, failed, rest) ==
  [reader[r] EXCEPT !.todo = rest, !.age = Greater(@, age), !.failed = Greater(@, failed)]

HitRenewing(r) ==   \* mutant: a hit renews the entry's time limit
  /\ Running(r) /\ Alone(r) /\ reader[r].todo # <<>>
  /\ LET k == Head(reader[r].todo) IN
       /\ Get(k) # Nothing
       /\ reader' = [reader EXCEPT ![r] =
            Took(r, Get(k).age, Get(k).failed, Follows(k, Tail(reader[r].todo)))]
       /\ store' = Put(k, Get(k).age, Get(k).failed)
  /\ UNCHANGED <<kind, failures>>

(* A hit goes on to the next read without suspending.                      *)
Hit(r) ==
  /\ Running(r) /\ Alone(r) /\ reader[r].todo # <<>>
  /\ LET k == Head(reader[r].todo) IN
       /\ Get(k) # Nothing
       /\ reader' = [reader EXCEPT ![r] =
            Took(r, Get(k).age, Get(k).failed, Follows(k, Tail(reader[r].todo)))]
  /\ UNCHANGED <<kind, store, failures>>

(* The key of an assembly is missing or expired: its parts are read.       *)
Assemble(r) ==
  /\ Running(r) /\ Alone(r) /\ reader[r].todo # <<>>
  /\ LET k == Head(reader[r].todo) IN
       /\ k \in {"known", "genres"} /\ Get(k) = Nothing
       /\ Evict(k)
       /\ reader' = [reader EXCEPT ![r].fills = k, ![r].todo = Expands(k)]
  /\ UNCHANGED <<kind, failures>>

(* Any other key that is missing or expired is asked of the platform.      *)
Call(r) ==
  /\ Running(r) /\ Alone(r) /\ reader[r].todo # <<>>
  /\ LET k == Head(reader[r].todo) IN
       /\ k \notin {"known", "genres"} /\ Get(k) = Nothing
       /\ Evict(k)
       /\ reader' = [reader EXCEPT ![r].todo = Tail(@),
            ![r].calls = [c \in {k} \cup DOMAIN @ |-> IF c = k THEN 0 ELSE @[c]]]
  /\ UNCHANGED <<kind, failures>>

Hung(r, k) == [c \in Awaited(r) \ {k} |-> reader[r].calls[c]]

(* The call for k returns: the platform gave its data some time since it   *)
(* was asked.  The data is stored, except that of a single artist.         *)
Answer(r) ==
  /\ Alone(r)
  /\ \E k \in Awaited(r) : \E age \in 0 .. reader[r].calls[k] :
       /\ reader' = [reader EXCEPT ![r] =
            [Took(r, age, None, Follows(k, reader[r].todo)) EXCEPT !.calls = Hung(r, k)]]
       /\ store' = IF k \in Keys THEN Put(k, age, None) ELSE store
  /\ UNCHANGED <<kind, failures>>

(* The call for k fails for good: nothing is stored for it.                *)
Fail(r) ==
  /\ Alone(r) /\ failures < MaxFailures
  /\ \E k \in Awaited(r) :
       reader' = [reader EXCEPT ![r] =
         [Took(r, 0, 0, FailFollows(k, reader[r].todo)) EXCEPT !.calls = Hung(r, k)]]
  /\ failures' = failures + 1
  /\ UNCHANGED <<kind, store>>

(* The open breaker refuses an adapter's method, whatever is cached; the   *)
(* pages are read inside the one that looks the categories up.  A known    *)
(* set whose categories are refused is returned and not stored.            *)
Refuse(r) ==
  /\ Running(r) /\ Alone(r) /\ reader[r].todo # <<>> /\ failures < MaxFailures
  /\ LET k == Head(reader[r].todo) IN
       /\ k \notin Items(Pages) \cup Items(Artists)
       /\ reader' = [reader EXCEPT ![r] =
            [Took(r, 0, 0, FailFollows(k, Tail(reader[r].todo))) EXCEPT
               !.fills = IF k = "categories" THEN "none" ELSE @]]
  /\ failures' = failures + 1
  /\ UNCHANGED <<kind, store>>

(* Nothing is left to read: an assembly is stored, whole or not, and the   *)
(* request has its answer.                                                 *)
Ends(r) == Running(r) /\ reader[r].todo = <<>>
Finish(r) ==
  /\ Ends(r) /\ Alone(r)
  /\ store' = IF reader[r].fills = "none" THEN store
              ELSE Put(reader[r].fills, reader[r].age, reader[r].failed)
  /\ reader' = [reader EXCEPT ![r] = [Idle EXCEPT
                  !.doing = IF reader[r].failed = None THEN "complete" ELSE "partial"]]
  /\ UNCHANGED <<kind, failures>>

(* Time passes while every reader awaits or rests.                         *)
Tick ==
  /\ \A r \in Readers :
       /\ ~Running(r)
       /\ \A k \in Awaited(r) : reader[r].calls[k] < CallTime
  /\ store' = [k \in Keys |-> IF Get(k) = Nothing THEN store[k] ELSE
                 [kept |-> Older(store[k].kept), age |-> Older(store[k].age),
                  failed |-> Older(store[k].failed)]]
  /\ reader' = [r \in Readers |-> IF reader[r].doing # "read" THEN reader[r] ELSE
                  [reader[r] EXCEPT !.age = Older(@), !.failed = Older(@),
                     !.calls = [k \in DOMAIN @ |-> @[k] + 1]]]
  /\ UNCHANGED <<kind, failures>>

Step(r) == Hit(r) \/ Assemble(r) \/ Call(r) \/ Answer(r) \/ Finish(r)
Next == Tick \/ \E r \in Readers : Start(r) \/ Step(r) \/ Fail(r) \/ Refuse(r)

Spec == Init /\ [][Next]_vars

(* Requests of each kind keep coming, calls end, and time passes.          *)
FairSpec ==
  /\ Spec /\ SF_vars(Tick)
  /\ \A r \in Readers : SF_vars(Start(r)) /\ SF_vars(Step(r))

-----------------------------------------------------------------------------
(* Every entry and request keeps its shape, within the bounds on time.     *)
Ages == 0 .. FreshBound + 1
TypeOK ==
  /\ kind \in [Readers -> Kinds]
  /\ \A k \in Keys : /\ store[k].kept \in -1 .. Ttl(k) + 1
                     /\ store[k].age \in Ages /\ store[k].failed \in {None} \cup Ages
  /\ \A r \in Readers :
       /\ reader[r].doing \in {"idle", "read", "complete", "partial"}
       /\ Items(reader[r].todo) \cup Awaited(r) \subseteq Keys \cup Items(Artists)
       /\ reader[r].age \in Ages /\ reader[r].failed \in {None} \cup Ages
       /\ Cardinality(Awaited(r)) <= Width(r)
  /\ failures \in 0 .. MaxFailures

(* The time limits of nested cached reads add up and no more: an answer    *)
(* holds nothing the platform said longer ago than the two day long limits *)
(* that can lie behind each other and the calls of one assembly.           *)
AnswersFresh ==
  \A r \in Readers : Ends(r) => reader[r].age <= FreshBound

(* A failed call is swallowed and its partial result stored for a day, but *)
(* no longer: the failures behind an incomplete answer lie within that day *)
(* and the rest of the assembly they happened in.                          *)
PartialWithinADay ==
  \A r \in Readers : Ends(r) => 
    reader[r].failed <= DayTtl + Greater(Assembly, CallTime * (Len(Artists) - 1))

(* Whoever gets an incomplete answer gets a complete one some time after   *)
(* the platform works again: no partial result is renewed by its readers.  *)
Recovers ==
  \A r \in Readers : reader[r].doing = "partial" ~> reader[r].doing = "complete"
=============================================================================
