------------------------- MODULE AccountLinkProofs -------------------------
(***************************************************************************)
(* AccountLink for every number of requests, states, adapters and links:   *)
(* its type invariant, and that only a refresh by an adapter older than    *)
(* the last link can take token and refresh token apart.                   *)
(***************************************************************************)
EXTENDS AccountLink, TLAPS

(* Refresh tokens are Spotify's, also those in rows that adapters hold;    *)
(* and what an adapter is about to write is of the link of its row.        *)
Held(row) == row.refresh # NoToken => row.refresh.of = "spotify"

RowsHeld ==
  /\ Held(account)
  /\ \A a \in Adapter : Held(adapter[a].row)

Writing ==
  \A a \in Adapter : adapter[a].pc = "persist" =>
    adapter[a].row.refresh # NoToken /\ adapter[a].row.token = adapter[a].row.refresh

(* An adapter is built from a row that is linked.                          *)
Built == \A a \in Adapter : adapter[a].pc # "idle" => adapter[a].row.platform # None

IInv == TypeOK /\ RowsHeld /\ Writing /\ Built /\ TokensPaired

LEMMA Constructors ==
  /\ NoToken \in Token
  /\ Unlinked \in Row
  /\ \A p \in Platform : links \in Nat /\ links < MaxLinks =>
       Fresh(p) \in Token /\ Fresh(p) # NoToken
BY LinkAssumption DEF NoToken, Token, Unlinked, Row, Fresh, Platform

LEMMA Initially == Init => IInv
<1> SUFFICES ASSUME Init PROVE IInv OBVIOUS
<1>1. TypeOK
  <2>1. exchange \in [Exchange -> [pc : {"new", "consume", "redeem", "over"}, state : State \cup {None}]]
    BY DEF Init, NewExchange
  <2>2. adapter \in [Adapter -> [pc : {"idle", "ready", "persist"}, row : Row]]
    BY Constructors DEF Init, Idle
  <2>3. account.platform = None /\ account \in Row
    BY Constructors DEF Init, Unlinked
  <2>4. overtaken \in BOOLEAN
    BY DEF Init
  <2>5. /\ links \in 0..MaxLinks
        /\ state \in [State -> {"absent", "issued", "expired", "consumed"}]
    BY LinkAssumption DEF Init
  <2> QED BY <2>1, <2>2, <2>3, <2>4, <2>5 DEF TypeOK
<1>2. RowsHeld /\ Writing /\ Built /\ TokensPaired
  BY LinkAssumption DEF Init, Idle, Unlinked, NoToken, RowsHeld, Held, Writing, Built, TokensPaired
<1> QED BY <1>1, <1>2 DEF IInv

(* Steps that touch neither the account nor the adapters.                  *)
LEMMA Elsewhere ==
  ASSUME IInv, TypeOK', UNCHANGED <<account, adapter, overtaken>>
  PROVE  IInv'
BY DEF IInv, RowsHeld, Held, Writing, Built, TokensPaired

LEMMA StatesTyped ==
  ASSUME IInv, NEW s \in State, Generate(s) \/ Expire(s)
  PROVE  IInv'
<1>1. TypeOK'
  BY DEF IInv, TypeOK, Generate, Expire, Users
<1> QED BY <1>1, Elsewhere DEF Generate, Expire, Users

LEMMA ExchangesTyped ==
  ASSUME IInv, NEW e \in Exchange,
         (\E s \in State : Validate(e, s)) \/ Consume(e) \/ FailExchange(e)
  PROVE  IInv'
<1> USE DEF IInv, TypeOK, Users
<1>1. CASE \E s \in State : Validate(e, s)
  <2> PICK s \in State : Validate(e, s) BY <1>1
  <2>1. exchange' \in [Exchange -> [pc : {"new", "consume", "redeem", "over"}, state : State \cup {None}]]
    BY DEF Validate
  <2> QED BY <2>1, Elsewhere DEF Validate
<1>2. CASE Consume(e)
  <2>1. /\ exchange' \in [Exchange -> [pc : {"new", "consume", "redeem", "over"}, state : State \cup {None}]]
        /\ state' \in [State -> {"absent", "issued", "expired", "consumed"}]
    BY <1>2 DEF Consume
  <2> QED BY <1>2, <2>1, Elsewhere DEF Consume
<1>3. CASE FailExchange(e)
  <2>1. exchange' \in [Exchange -> [pc : {"new", "consume", "redeem", "over"}, state : State \cup {None}]]
    BY <1>3 DEF FailExchange
  <2> QED BY <1>3, <2>1, Elsewhere DEF FailExchange
<1> QED BY <1>1, <1>2, <1>3

LEMMA StorePairs ==
  ASSUME IInv, NEW e \in Exchange, Store(e)
  PROVE  IInv'
<1> DEFINE fresh == Fresh("spotify")
<1>0. PICK refresh \in {fresh, NoToken} :
        account' = [platform |-> "spotify", token |-> fresh, refresh |-> refresh]
  BY DEF Store
<1>1. /\ fresh \in Token /\ fresh # NoToken
      /\ fresh.of = "spotify" /\ refresh \in Token
      /\ links' = links + 1 /\ links' \in 0..MaxLinks
  BY Constructors, LinkAssumption DEF IInv, TypeOK, Store, Fresh, Platform
<1> HIDE DEF fresh
<1>2. account' \in Row /\ account'.token # NoToken
  BY <1>0, <1>1 DEF Row
<1>3. exchange' \in [Exchange -> [pc : {"new", "consume", "redeem", "over"}, state : State \cup {None}]]
  BY DEF Store, IInv, TypeOK
<1>4. TypeOK'
  BY <1>1, <1>2, <1>3 DEF Store, IInv, TypeOK
<1>5. RowsHeld' /\ Writing' /\ Built'
  BY <1>0, <1>1 DEF Store, IInv, RowsHeld, Held, Writing, Built
<1>6. TokensPaired'
  BY <1>0, <1>1 DEF TokensPaired
<1> QED BY <1>4, <1>5, <1>6 DEF IInv

LEMMA ConnectPairs ==
  ASSUME IInv, ConnectYouTube
  PROVE  IInv'
<1> DEFINE fresh == Fresh("youtube")
<1>0. /\ account' = [account EXCEPT !.platform = "youtube", !.token = fresh]
      /\ account \in Row
  BY DEF ConnectYouTube, IInv, TypeOK
<1>1. /\ fresh \in Token /\ fresh # NoToken
      /\ fresh.of = "youtube"
      /\ links' = links + 1 /\ links' \in 0..MaxLinks
  BY Constructors, LinkAssumption DEF IInv, TypeOK, ConnectYouTube, Fresh, Platform
<1> HIDE DEF fresh
<1>2. /\ account' \in Row /\ account'.token = fresh
      /\ account'.platform = "youtube" /\ account'.refresh = account.refresh
  BY <1>0, <1>1 DEF Row
<1>3. TypeOK'
  BY <1>1, <1>2 DEF ConnectYouTube, IInv, TypeOK, Linking
<1>4. RowsHeld' /\ Writing' /\ Built'
  BY <1>2 DEF ConnectYouTube, IInv, RowsHeld, Held, Writing, Built
<1>5. TokensPaired'
  BY <1>1, <1>2 DEF TokensPaired
<1> QED BY <1>3, <1>4, <1>5 DEF IInv

LEMMA LoadPairs ==
  ASSUME IInv, NEW a \in Adapter, Load(a)
  PROVE  IInv'
<1>1. adapter' = [adapter EXCEPT ![a] = [pc |-> "ready", row |-> account]]
  BY DEF Load
<1>2. adapter' \in [Adapter -> [pc : {"idle", "ready", "persist"}, row : Row]]
  BY <1>1 DEF IInv, TypeOK
<1>3. TypeOK'
  BY <1>2 DEF Load, IInv, TypeOK, Users, Linking
<1>4. RowsHeld' /\ Writing' /\ Built'
  BY <1>1 DEF Load, Users, IInv, TypeOK, RowsHeld, Held, Writing, Built
<1> QED BY <1>3, <1>4 DEF IInv, Load, Users, TokensPaired

LEMMA RefreshPairs ==
  ASSUME IInv, NEW a \in Adapter, Refresh(a)
  PROVE  IInv'
<1> DEFINE row == adapter[a].row
           new == [row EXCEPT !.token = row.refresh]
<1>0. row \in Row /\ row.refresh # NoToken /\ adapter \in [Adapter -> [pc : {"idle", "ready", "persist"}, row : Row]]
  BY DEF Refresh, IInv, TypeOK
<1>1. /\ new \in Row /\ new.token = row.refresh /\ new.refresh = row.refresh
  BY <1>0 DEF Row
<1>2. /\ adapter'[a].pc = "persist" /\ adapter'[a].row = new
      /\ \A b \in Adapter \ {a} : adapter'[b] = adapter[b]
      /\ adapter' \in [Adapter -> [pc : {"idle", "ready", "persist"}, row : Row]]
  <2>1. adapter' = [adapter EXCEPT ![a].pc = "persist", ![a].row.token = row.refresh]
    BY DEF Refresh
  <2>2. adapter'[a] = [[adapter[a] EXCEPT !.pc = "persist"] EXCEPT !.row.token = row.refresh]
    BY <1>0, <2>1
  <2>3. /\ adapter[a] \in [pc : {"idle", "ready", "persist"}, row : Row]
        /\ \A b \in Adapter \ {a} : adapter'[b] = adapter[b]
        /\ DOMAIN adapter' = Adapter /\ adapter' = [b \in Adapter |-> adapter'[b]]
    BY <1>0, <2>1
  <2>4. adapter'[a].pc = "persist" /\ adapter'[a].row = new
    BY <2>2, <2>3 DEF new
  <2>5. adapter'[a] = [pc |-> "persist", row |-> new]
    BY <2>2, <2>3 DEF new
  <2>6. adapter'[a] \in [pc : {"idle", "ready", "persist"}, row : Row]
    BY <1>1, <2>5
  <2>7. \A b \in Adapter : adapter'[b] \in [pc : {"idle", "ready", "persist"}, row : Row]
    BY <1>0, <2>3, <2>6
  <2> QED BY <2>3, <2>4, <2>7
<1> HIDE DEF new
<1>3. TypeOK'
  <2>1. adapter' \in [Adapter -> [pc : {"idle", "ready", "persist"}, row : Row]]
    BY <1>2
  <2> QED BY <2>1 DEF Refresh, IInv, TypeOK, Users, Linking
<1>4. RowsHeld' /\ Writing' /\ Built'
  BY <1>0, <1>1, <1>2 DEF Refresh, Users, IInv, RowsHeld, Held, Writing, Built
<1> QED BY <1>3, <1>4 DEF IInv, Refresh, Users, TokensPaired

LEMMA PersistPairs ==
  ASSUME IInv, NEW a \in Adapter, Persist(a)
  PROVE  IInv'
<1> DEFINE row == adapter[a].row
<1>0. /\ row \in Row /\ account \in Row
      /\ adapter[a].pc = "persist" /\ row.platform # None
      /\ row.refresh # NoToken /\ row.token = row.refresh /\ row.refresh.of = "spotify"
      /\ adapter \in [Adapter -> [pc : {"idle", "ready", "persist"}, row : Row]]
  BY DEF Persist, IInv, TypeOK, Writing, Built, RowsHeld, Held
<1>1. /\ account' \in Row /\ account'.token = row.refresh
      /\ account'.platform = account.platform /\ account'.refresh = account.refresh
  BY <1>0 DEF Persist, Row
<1>2. /\ adapter'[a].pc = "ready" /\ adapter'[a].row = row
      /\ \A b \in Adapter \ {a} : adapter'[b] = adapter[b]
  BY <1>0 DEF Persist
<1>3. overtaken' = (account.platform # "spotify" \/ account.refresh # row.refresh)
  BY DEF Persist
<1> HIDE DEF row
<1>4. TypeOK'
  <2>1. adapter' \in [Adapter -> [pc : {"idle", "ready", "persist"}, row : Row]]
    BY <1>0 DEF Persist
  <2>2. overtaken' \in BOOLEAN
    BY <1>3
  <2> QED BY <1>0, <1>1, <2>1, <2>2 DEF Persist, IInv, TypeOK, Linking
<1>5. RowsHeld' /\ Writing' /\ Built'
  BY <1>0, <1>1, <1>2 DEF IInv, RowsHeld, Held, Writing, Built, row
<1>6. TokensPaired'
  BY <1>0, <1>1, <1>3 DEF TokensPaired
<1> QED BY <1>4, <1>5, <1>6 DEF IInv

LEMMA ReleasePairs ==
  ASSUME IInv, NEW a \in Adapter, Release(a)
  PROVE  IInv'
<1>1. adapter' = [adapter EXCEPT ![a] = Idle]
  BY DEF Release
<1>2. Idle.pc = "idle" /\ Idle.row = Unlinked /\ Idle \in [pc : {"idle", "ready", "persist"}, row : Row]
  BY Constructors DEF Idle
<1>3. TypeOK'
  <2>1. adapter' \in [Adapter -> [pc : {"idle", "ready", "persist"}, row : Row]]
    BY <1>1, <1>2 DEF IInv, TypeOK
  <2> QED BY <2>1 DEF Release, IInv, TypeOK, Users, Linking
<1>4. RowsHeld' /\ Writing' /\ Built'
  BY <1>1, <1>2 DEF Release, Users, Unlinked, IInv, TypeOK, RowsHeld, Held, Writing, Built
<1> QED BY <1>3, <1>4 DEF IInv, Release, Users, TokensPaired

LEMMA Preserved == IInv /\ [Next]_vars => IInv'
<1> SUFFICES ASSUME IInv, [Next]_vars PROVE IInv' OBVIOUS
<1>1. CASE UNCHANGED vars
  <2>1. TypeOK' BY <1>1 DEF vars, IInv, TypeOK
  <2> QED BY <1>1, <2>1, Elsewhere DEF vars
<1>2. ASSUME NEW s \in State, Generate(s) \/ Expire(s) PROVE IInv'
  BY <1>2, StatesTyped
<1>3. ASSUME NEW e \in Exchange,
             (\E s \in State : Validate(e, s)) \/ Consume(e) \/ FailExchange(e)
      PROVE  IInv'
  BY <1>3, ExchangesTyped
<1>4. ASSUME NEW e \in Exchange, Store(e) PROVE IInv'
  BY <1>4, StorePairs
<1>5. CASE ConnectYouTube BY <1>5, ConnectPairs
<1>7. ASSUME NEW a \in Adapter, Load(a) PROVE IInv'
  BY <1>7, LoadPairs
<1>8. ASSUME NEW a \in Adapter, Refresh(a) PROVE IInv'
  BY <1>8, RefreshPairs
<1>9. ASSUME NEW a \in Adapter, Persist(a) PROVE IInv'
  BY <1>9, PersistPairs
<1>10. ASSUME NEW a \in Adapter, Release(a) PROVE IInv'
  BY <1>10, ReleasePairs
<1> QED BY <1>1, <1>2, <1>3, <1>4, <1>5, <1>7, <1>8, <1>9, <1>10 DEF Next

LEMMA Inductive == Spec => []IInv
BY Initially, Preserved, PTL DEF Spec

(* The users row, states, requests and adapters stay well typed, and an    *)
(* account with a platform has a token (update(User) in the exchange, in   *)
(* youtube_connect and in refresh_access_token).                           *)
THEOREM TypeCorrect == Spec => []TypeOK
<1>1. IInv => TypeOK BY DEF IInv
<1> QED BY <1>1, Inductive, PTL

(* Links, refreshes and overlapping tasks keep the token and the refresh   *)
(* token of one link, but for a refresh by an adapter built before the     *)
(* last link.                                                              *)
THEOREM TokensStayPaired == Spec => []TokensPaired
<1>1. IInv => TokensPaired BY DEF IInv
<1> QED BY <1>1, Inductive, PTL

LEMMA KeepsSettled ==
  ASSUME IInv, [Next]_vars, NEW s \in State, Settled(s)
  PROVE  Settled(s)'
<1>1. CASE UNCHANGED vars
  BY <1>1 DEF vars, Settled
<1>2. ASSUME NEW r \in State, Generate(r) \/ Expire(r) PROVE Settled(s)'
  <2>1. state'[s] = state[s]
    BY <1>2 DEF Generate, Expire, Settled, IInv, TypeOK
  <2> QED BY <1>2, <2>1 DEF Generate, Expire, Settled
<1>3. ASSUME NEW e \in Exchange, NEW r \in State, Validate(e, r) PROVE Settled(s)'
  <2>1. \A f \in Exchange : f # e => exchange'[f] = exchange[f]
    BY <1>3 DEF Validate, IInv, TypeOK
  <2>2. exchange'[e] = [pc |-> IF state[r] = "issued" THEN "consume" ELSE "over", state |-> r]
    BY <1>3 DEF Validate, IInv, TypeOK
  <2>3. exchange'[e].pc = "consume" => exchange'[e].state # s
    BY <2>2 DEF Settled
  <2> QED BY <1>3, <2>1, <2>3 DEF Validate, Settled
<1>4. ASSUME NEW e \in Exchange, Consume(e) PROVE Settled(s)'
  <2>1. state'[s] = state[s]
    BY <1>4 DEF Consume, Settled, IInv, TypeOK
  <2>2. \A f \in Exchange : exchange'[f].pc = "consume" => exchange'[f] = exchange[f]
    BY <1>4 DEF Consume, IInv, TypeOK
  <2> QED BY <2>1, <2>2 DEF Settled
<1>5. ASSUME NEW e \in Exchange, Store(e) \/ FailExchange(e) PROVE Settled(s)'
  <2>1. \A f \in Exchange : exchange'[f].pc = "consume" => exchange'[f] = exchange[f]
    BY <1>5 DEF Store, FailExchange, IInv, TypeOK
  <2> QED BY <1>5, <2>1 DEF Store, FailExchange, Settled
<1>6. CASE ConnectYouTube
  BY <1>6 DEF ConnectYouTube, Linking, Settled
<1>7. ASSUME NEW a \in Adapter,
             Load(a) \/ Refresh(a) \/ Persist(a) \/ Release(a)
      PROVE  Settled(s)'
  BY <1>7 DEF Load, Refresh, Persist, Release, Linking, Settled
<1> QED BY <1>1, <1>2, <1>3, <1>4, <1>5, <1>6, <1>7 DEF Next

(* Once a state is consumed or expired and no exchange is between          *)
(* validate_and_consume_state's check and its update, no exchange passes   *)
(* with that state any more.                                               *)
THEOREM UsedUpStatesStay == Spec => SettledStays
<1>1. IInv /\ [Next]_vars => \A s \in State : Settled(s) => Settled(s)'
  BY KeepsSettled
<1> QED BY <1>1, Inductive, PTL DEF Spec, SettledStays
=============================================================================
