---------------------------- MODULE AccountLink ----------------------------
(***************************************************************************)
(* One user's link to a music platform: the platform columns of the users  *)
(* row, the OAuth states and exchanges that link Spotify, the request that *)
(* links YouTube, and the adapters that background tasks build from a row  *)
(* they loaded earlier.  A Spotify adapter whose token has expired gets a  *)
(* new one and writes it to the row, whatever the row has become meanwhile.*)
(***************************************************************************)
EXTENDS Naturals

CONSTANTS
  Exchange,   \* POST /auth/oauth/spotify/exchange requests
  State,      \* OAuth states
  Adapter,    \* adapters in use at once
  MaxLinks,   \* bounds the number of links
  None        \* no token, no platform

ASSUME LinkAssumption ==
  /\ MaxLinks \in Nat
  /\ None \notin {"spotify", "youtube"}

VARIABLES
  account,    \* users.platform, platform_token, platform_refresh
  state,      \* the oauth_states rows
  exchange,   \* the exchange requests
  adapter,    \* adapters, with the tokens they hold
  links,      \* links made so far; a token carries the number of its link
  overtaken   \* history: the last write of a token was by an adapter whose
              \* link is not the account's

vars == <<account, state, exchange, adapter, links, overtaken>>

Platform == {"spotify", "youtube"}
NoToken == [of |-> None, link |-> 0]
Fresh(platform) == [of |-> platform, link |-> links + 1]

Unlinked == [platform |-> None, token |-> NoToken, refresh |-> NoToken]
NewExchange == [pc |-> "new", state |-> None]
Idle == [pc |-> "idle", row |-> Unlinked]

Init ==
  /\ account = Unlinked /\ links = 0 /\ overtaken = FALSE
  /\ state = [s \in State |-> "absent"]
  /\ exchange = [e \in Exchange |-> NewExchange]
  /\ adapter = [a \in Adapter |-> Idle]

Users == <<account, links, overtaken>>
Linking == <<state, exchange>>

-----------------------------------------------------------------------------
(* Linking.                                                                *)

(* generate_state, and later the end of its time to live.                  *)
Generate(s) ==
  /\ state[s] = "absent"
  /\ state' = [state EXCEPT ![s] = "issued"]
  /\ UNCHANGED <<Users, exchange, adapter>>

Expire(s) ==
  /\ state[s] = "issued"
  /\ state' = [state EXCEPT ![s] = "expired"]
  /\ UNCHANGED <<Users, exchange, adapter>>

(* validate_and_consume_state reads the row and checks it ...              *)
ValidateUnexpired(e, s) ==   \* mutant: only the age of the state is checked
  /\ exchange[e].pc = "new"
  /\ exchange' = [exchange EXCEPT
       ![e] = [pc |-> IF state[s] \in {"issued", "consumed"} THEN "consume" ELSE "over",
               state |-> s]]
  /\ UNCHANGED <<Users, state, adapter>>
Validate(e, s) ==
  /\ exchange[e].pc = "new"
  /\ exchange' = [exchange EXCEPT
       ![e] = [pc |-> IF state[s] = "issued" THEN "consume" ELSE "over", state |-> s]]
  /\ UNCHANGED <<Users, state, adapter>>

(* ... and marks it consumed in a statement of its own.                    *)
Consume(e) ==
  /\ exchange[e].pc = "consume"
  /\ state' = [state EXCEPT ![exchange[e].state] = "consumed"]
  /\ exchange' = [exchange EXCEPT ![e].pc = "redeem"]
  /\ UNCHANGED <<Users, adapter>>

(* Spotify redeems the code or refuses it; the row gets both tokens.       *)
StoreKeeping(e) ==   \* mutant: without a new refresh token the old one stays
  /\ exchange[e].pc = "redeem" /\ links < MaxLinks
  /\ \E refresh \in {Fresh("spotify"), account.refresh} :
       account' = [platform |-> "spotify", token |-> Fresh("spotify"), refresh |-> refresh]
  /\ links' = links + 1 /\ overtaken' = FALSE
  /\ exchange' = [exchange EXCEPT ![e].pc = "over"]
  /\ UNCHANGED <<state, adapter>>
Store(e) ==
  /\ exchange[e].pc = "redeem" /\ links < MaxLinks
  /\ \E refresh \in {Fresh("spotify"), NoToken} :
       account' = [platform |-> "spotify", token |-> Fresh("spotify"), refresh |-> refresh]
  /\ links' = links + 1 /\ overtaken' = FALSE
  /\ exchange' = [exchange EXCEPT ![e].pc = "over"]
  /\ UNCHANGED <<state, adapter>>

FailExchange(e) ==
  /\ exchange[e].pc \in {"consume", "redeem"}
  /\ exchange' = [exchange EXCEPT ![e].pc = "over"]
  /\ UNCHANGED <<Users, state, adapter>>

(* youtube_connect leaves the refresh token of an earlier Spotify link.    *)
ConnectUntyped ==   \* mutant: the platform is set before a token is there
  /\ account' = [account EXCEPT !.platform = "youtube", !.token = NoToken]
  /\ links < MaxLinks /\ links' = links + 1 /\ overtaken' = FALSE
  /\ UNCHANGED <<Linking, adapter>>
ConnectYouTube ==
  /\ links < MaxLinks
  /\ account' = [account EXCEPT !.platform = "youtube", !.token = Fresh("youtube")]
  /\ links' = links + 1 /\ overtaken' = FALSE
  /\ UNCHANGED <<Linking, adapter>>

-----------------------------------------------------------------------------
(* Adapters.                                                               *)

(* A task loads the user and builds an adapter of the row's platform.      *)
Load(a) ==
  /\ adapter[a].pc = "idle" /\ account.platform # None
  /\ adapter' = [adapter EXCEPT ![a] = [pc |-> "ready", row |-> account]]
  /\ UNCHANGED <<Users, Linking>>

(* The access token is refused, the refresh token is accepted.             *)
Refresh(a) ==
  /\ adapter[a].pc = "ready"
  /\ adapter[a].row.platform = "spotify" /\ adapter[a].row.refresh # NoToken
  /\ adapter' = [adapter EXCEPT ![a].pc = "persist", ![a].row.token = adapter[a].row.refresh]
  /\ UNCHANGED <<Users, Linking>>

(* The new access token is written to the row.                             *)
Persist(a) ==
  /\ adapter[a].pc = "persist"
  /\ account' = [account EXCEPT !.token = adapter[a].row.token]
  /\ overtaken' = (account.platform # "spotify" \/ account.refresh # adapter[a].row.refresh)
  /\ adapter' = [adapter EXCEPT ![a].pc = "ready"]
  /\ UNCHANGED <<links, Linking>>

(* The task is over, or a call of its adapter failed for good.             *)
ReleaseCached(a) ==   \* mutant: the adapter is kept for the next task
  /\ adapter[a].pc # "idle"
  /\ adapter' = [adapter EXCEPT ![a].pc = "ready"]
  /\ UNCHANGED <<Users, Linking>>
Release(a) ==
  /\ adapter[a].pc # "idle"
  /\ adapter' = [adapter EXCEPT ![a] = Idle]
  /\ UNCHANGED <<Users, Linking>>

Next ==
  \/ \E s \in State : Generate(s) \/ Expire(s)
  \/ \E e \in Exchange :
       (\E s \in State : Validate(e, s)) \/ Consume(e) \/ Store(e) \/ FailExchange(e)
  \/ ConnectYouTube
  \/ \E a \in Adapter : Load(a) \/ Refresh(a) \/ Persist(a) \/ Release(a)

Spec == Init /\ [][Next]_vars

(* The account stays in use and tasks end.  An access token lives an hour, *)
(* so adapters meet an expired one again and again, and a refresh or its   *)
(* write that can be done over and over does not fail every time.          *)
FairSpec ==
  /\ Spec
  /\ \A a \in Adapter :
       WF_vars(Load(a)) /\ WF_vars(Release(a)) /\ SF_vars(Refresh(a)) /\ SF_vars(Persist(a))

-----------------------------------------------------------------------------
(* Properties.                                                             *)

Token == [of : {"spotify", "youtube", None}, link : 0..MaxLinks]
Row == [platform : {"spotify", "youtube", None}, token : Token, refresh : Token]

(* Types, and a platform is never set without a token.                     *)
TypeOK ==
  /\ account \in Row /\ links \in 0..MaxLinks /\ overtaken \in BOOLEAN
  /\ account.platform # None => account.token # NoToken
  /\ state \in [State -> {"absent", "issued", "expired", "consumed"}]
  /\ exchange \in [Exchange -> [pc : {"new", "consume", "redeem", "over"}, state : State \cup {None}]]
  /\ adapter \in [Adapter -> [pc : {"idle", "ready", "persist"}, row : Row]]

(* State s is used up: no exchange that has found it valid is about to     *)
(* consume it, and it is not valid any more.                               *)
Settled(s) ==
  /\ state[s] \in {"expired", "consumed"}
  /\ \A e \in Exchange : exchange[e].pc = "consume" => exchange[e].state # s

(* However exchanges overlap, a state that is used up stays so: two        *)
(* deliveries of one deep link can pass together only while both are       *)
(* between the check and the update; a later replay never passes.          *)
SettledStays == [][\A s \in State : Settled(s) => Settled(s)']_vars

(* Links, refreshes and the tasks that overlap them leave an account whose *)
(* token is one of its platform and, for Spotify, of the same link as the  *)
(* refresh token.  The exception is a refresh by an adapter that was built *)
(* before the account was linked again.                                    *)
TokensPaired ==
  ~overtaken => /\ account.token.of = account.platform
                /\ account.platform = "spotify" /\ account.refresh # NoToken =>
                     account.token.link = account.refresh.link

(* Even then a Spotify account recovers: an adapter built from the row as  *)
(* it is now replaces the token by one of the current link.                *)
SpotifyRecovers ==
  account.platform = "spotify" ~>
    \/ account.platform # "spotify" \/ account.refresh = NoToken
    \/ account.token = account.refresh

=============================================================================
