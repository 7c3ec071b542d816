--------------------------- MODULE PlatformCalls ---------------------------
(***************************************************************************)
(* The calls that all of a user's tasks make to the music platform, behind *)
(* the one CircuitBreaker that platform_factory keeps for the user.  Every *)
(* public adapter method runs inside CircuitBreaker.call, and with_retry   *)
(* inside the method repeats the request.  A request answered 401 calls    *)
(* refresh_access_token, itself a public method and so a call through the  *)
(* same breaker.  Calls overlap: each reads the breaker when it enters and *)
(* changes it, after its awaits, when it returns.                          *)
(***************************************************************************)
EXTENDS Naturals

CONSTANTS
  Call,         \* adapter calls that may be under way at once
  Threshold,    \* failure_threshold
  Recovery,     \* recovery_timeout, in ticks
  MaxAttempts   \* max_attempts of with_retry

ASSUME CallsAssumption ==
  /\ Threshold \in Nat \ {0}
  /\ Recovery \in Nat
  /\ MaxAttempts \in Nat \ {0}

VARIABLES
  state,      \* _state
  failures,   \* _failures, counted up to Threshold: it is only compared with it
  since,      \* ticks since _open_time, counted up to Recovery
  call,       \* the adapter calls
  healthy     \* the platform has recovered for good

vars == <<state, failures, since, call, healthy>>

Idle == [pc |-> "idle", attempt |-> 1, refreshed |-> FALSE]
Started == [pc |-> "running", attempt |-> 1, refreshed |-> FALSE]

Init ==
  /\ state = "closed" /\ failures = 0 /\ since = 0
  /\ call = [c \in Call |-> Idle]
  /\ healthy = FALSE

Return(c) == call' = [call EXCEPT ![c] = Idle]
UpTo(n, max) == IF n < max THEN n + 1 ELSE max

-----------------------------------------------------------------------------
(* CircuitBreaker.                                                         *)

Untouched == UNCHANGED <<state, failures, since>>

(* call() lets a call in when the breaker is not open or has been open     *)
(* long enough, in which case it becomes half-open.                        *)
Admits == state # "open" \/ since = Recovery

EnterGate ==
  /\ state' = IF state = "open" THEN "half_open" ELSE state
  /\ UNCHANGED <<failures, since>>

(* The exception path: count, and trip at the threshold or when half-open. *)
CountFailureLate ==   \* mutant: one failure more is needed
  LET n == UpTo(failures, Threshold + 1)
      trips == n > Threshold \/ state = "half_open"
  IN /\ failures' = n
     /\ state' = IF trips THEN "open" ELSE state
     /\ since' = IF trips THEN 0 ELSE since
CountFailure ==
  LET n == UpTo(failures, Threshold)
      trips == n = Threshold \/ state = "half_open"
  IN /\ failures' = n
     /\ state' = IF trips THEN "open" ELSE state
     /\ since' = IF trips THEN 0 ELSE since

(* The success path: a half-open breaker is reset; otherwise the failure   *)
(* counter is, also by a call that returns after the breaker has opened.   *)
CountSuccessAlways ==   \* mutant: every success resets the breaker
  failures' = 0 /\ state' = "closed" /\ since' = 0
CountSuccessStuck ==   \* mutant: a probe that succeeds only resets the counter
  failures' = 0 /\ UNCHANGED <<state, since>>
CountSuccess ==
  /\ failures' = 0
  /\ state' = IF state = "half_open" THEN "closed" ELSE state
  /\ since' = IF state = "half_open" THEN 0 ELSE since
-----------------------------------------------------------------------------
(* Adapter calls.                                                          *)

(* A refused call raises 503 and leaves everything as it was.              *)
Enter(c) ==
  /\ call[c].pc = "idle" /\ Admits
  /\ EnterGate
  /\ call' = [call EXCEPT ![c] = Started]
  /\ UNCHANGED healthy

Succeed(c) ==
  /\ call[c].pc = "running"
  /\ CountSuccess
  /\ Return(c)
  /\ UNCHANGED healthy

(* A network error or 5xx with attempts left: wait and repeat.  So does a  *)
(* 429, after Retry-After.                                                 *)
Retry(c) ==
  /\ call[c].pc = "running" /\ ~healthy
  /\ call[c].attempt < MaxAttempts
  /\ call' = [call EXCEPT ![c].attempt = @ + 1, ![c].refreshed = FALSE]
  /\ Untouched /\ UNCHANGED healthy

(* The last attempt fails, or a 4xx that is not retried.                   *)
Fail(c) ==
  /\ call[c].pc = "running" /\ ~healthy
  /\ CountFailure
  /\ Return(c)
  /\ UNCHANGED healthy

(* An HTTPException leaves the breaker alone: rate limited on the last     *)
(* attempt, no active device, ...                                          *)
HttpError(c) ==
  /\ call[c].pc = "running" /\ ~healthy
  /\ Untouched
  /\ Return(c)
  /\ UNCHANGED healthy

(* 401: the token is refreshed through the breaker, once for an attempt.   *)
(* A breaker that refuses makes the whole call end with its 503.           *)
Unauthorized(c) ==
  /\ call[c].pc = "running" /\ ~healthy /\ ~call[c].refreshed
  /\ \/ /\ Admits
        /\ EnterGate
        /\ call' = [call EXCEPT ![c].pc = "refreshing"]
     \/ /\ ~Admits
        /\ Untouched /\ Return(c)
  /\ UNCHANGED healthy

RefreshSucceeds(c) ==
  /\ call[c].pc = "refreshing"
  /\ CountSuccess
  /\ call' = [call EXCEPT ![c].pc = "running", ![c].refreshed = TRUE]
  /\ UNCHANGED healthy

(* The refresh fails and is counted; to the retry around the request it is *)
(* one more failed attempt.                                                *)
RefreshFails(c) ==
  /\ call[c].pc = "refreshing" /\ ~healthy
  /\ CountFailure
  /\ call' = [call EXCEPT ![c].pc = IF call[c].attempt < MaxAttempts THEN "running" ELSE "failing",
                          ![c].attempt = UpTo(@, MaxAttempts), ![c].refreshed = FALSE]
  /\ UNCHANGED healthy

(* After the last attempt the call itself fails, and is counted as well.   *)
FailAfterRefresh(c) ==
  /\ call[c].pc = "failing"
  /\ CountFailure
  /\ Return(c)
  /\ UNCHANGED healthy

(* The refresh token is refused: an HTTPException through both levels.     *)
RefreshRefused(c) ==
  /\ call[c].pc = "refreshing" /\ ~healthy
  /\ Untouched
  /\ Return(c)
  /\ UNCHANGED healthy

-----------------------------------------------------------------------------
Tick ==
  /\ state = "open" /\ since < Recovery
  /\ since' = since + 1
  /\ UNCHANGED <<state, failures, call, healthy>>

Heal ==
  /\ ~healthy /\ healthy' = TRUE
  /\ UNCHANGED <<state, failures, since, call>>

Answer(c) ==
  \/ Succeed(c) \/ Retry(c) \/ Fail(c) \/ HttpError(c) \/ Unauthorized(c)
  \/ RefreshSucceeds(c) \/ RefreshFails(c) \/ FailAfterRefresh(c) \/ RefreshRefused(c)

Next == (\E c \in Call : Enter(c) \/ Answer(c)) \/ Tick \/ Heal

Spec == Init /\ [][Next]_vars

(* Time passes, requests are answered, and users keep making calls.        *)
FairSpec ==
  /\ Spec
  /\ WF_vars(Tick)
  /\ \A c \in Call : WF_vars(Answer(c)) /\ WF_vars(Enter(c))

-----------------------------------------------------------------------------
(* Properties.                                                             *)

TypeOK ==
  /\ state \in {"closed", "open", "half_open"}
  /\ failures \in 0..Threshold
  /\ since \in 0..Recovery
  /\ call \in [Call -> [pc : {"idle", "running", "refreshing", "failing"},
                        attempt : 1..MaxAttempts, refreshed : BOOLEAN]]
  /\ healthy \in BOOLEAN

(* A closed breaker has room for a failure: however overlapping calls end, *)
(* the count never passes the threshold without the breaker opening, and a *)
(* breaker that closed again starts from nothing.                          *)
ClosedBelowThreshold == state = "closed" => failures < Threshold

(* The breaker keeps its promise (BreakerGate) under late answers: results *)
(* of calls that entered before it opened never close it early.            *)
Gate == INSTANCE BreakerGate WITH gate <- state
GateKept == Gate!Spec

(* Once the platform has recovered, the breaker closes again.              *)
Recovers == healthy ~> state = "closed"

=============================================================================
