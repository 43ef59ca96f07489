---------------------------- MODULE DashboardProofs ----------------------------
(***************************************************************************)
(* That the dashboard shows what its user changed, and nothing that was     *)
(* asked for before a sign-out: for every choice of its screens, which TLC  *)
(* can check but two of at a time, and every number of changes and visits.  *)
(***************************************************************************)
EXTENDS Dashboard, TLAPS

(***************************************************************************)
(* The inductive invariant.                                                *)
(***************************************************************************)

(* What a screen is bound to show was made, and so was what a change on its *)
(* way says it made.                                                       *)
DueIsMade ==
    /\ \A q \in Query : due[q] <= version[q.reads]
    /\ \A m \in change.what : change.made <= version[m.writes]

(* An answer on its way to a screen is what the screen is bound to show.    *)
AnswerIsFresh ==
    \A q \in Shown : fetching[q].version >= 0 => fetching[q].version >= due[q]

(* Data there is was served, and on a screen it is fresh, or is marked.     *)
DataIsFresh ==
    /\ \A q \in Query : cached[q] # NoData => cached[q].version >= 0
    /\ \A q \in Shown :
          cached[q] # NoData => cached[q].version >= due[q] \/ cached[q].invalidated

(* A fetch belongs to the visit it was begun in. *)
FetchOfVisit == \A q \in Query : fetching[q] # NoFetch => fetching[q].visit = signOuts

DashboardInv ==
    /\ DashboardTypeOK /\ DueIsMade /\ AnswerIsFresh /\ DataIsFresh /\ FetchOfVisit
    /\ NothingOfBefore

(***************************************************************************)
(* The screens, and the keys of what they show.                            *)
(***************************************************************************)

Queries == {UseApplications, UseApplication, UseApiKeys, UseConnections, UseConnection, UseQrCode,
            UseNotifications, UseNotification, UseNotificationEvents, UseReadiness}
Changes == {UseCreateApplication, UseCreateApiKey, UseRevokeApiKey, UseCreateConnection,
            UseConnectionAction, UseDeleteConnection, UseSendNotification, UseCancelNotification,
            UseCancelWaitingNotifications}

LEMMA ScreensShow ==
    ASSUME NEW s \in Screen
    PROVE  s.shows \subseteq Queries /\ s.offers \subseteq Changes
<1>1. CASE s = ApplicationsPage
  BY <1>1 DEF ApplicationsPage, Route, Queries, Changes
<1>2. CASE s = OverviewPage
  BY <1>2 DEF OverviewPage, ApplicationLayout, Route, Queries, Changes
<1>3. CASE s = NotificationsPage
  BY <1>3
  DEF NotificationsPage, CancelWaitingNotifications, ApplicationLayout, Route, Queries, Changes
<1>4. CASE s = NotificationPage
  BY <1>4 DEF NotificationPage, ApplicationLayout, Route, Queries, Changes
<1>5. CASE s = SendPage
  BY <1>5 DEF SendPage, ApplicationLayout, Route, Queries, Changes
<1>6. CASE s = ConnectionsPage
  BY <1>6 DEF ConnectionsPage, ApplicationLayout, Route, Queries, Changes
<1>7. CASE s = ConnectionPage
  BY <1>7
  DEF ConnectionPage, CancelWaitingNotifications, QrPanel, ApplicationLayout, Route, Queries,
      Changes
<1>8. CASE s = ApiKeysPage
  BY <1>8 DEF ApiKeysPage, ApplicationLayout, Route, Queries, Changes
<1>9. CASE s = SystemStatusPage
  BY <1>9 DEF SystemStatusPage, ApplicationLayout, Route, Queries, Changes
<1>10. QED
  BY <1>1, <1>2, <1>3, <1>4, <1>5, <1>6, <1>7, <1>8, <1>9, DashboardAssumption

(* What each query reads. *)
LEMMA Reads ==
    /\ UseApplications.reads = "applications" /\ UseApplication.reads = "applications"
    /\ UseApiKeys.reads = "api keys"
    /\ UseConnections.reads = "connections" /\ UseConnection.reads = "connections"
    /\ UseQrCode.reads = "connections"
    /\ UseNotifications.reads = "notifications" /\ UseNotification.reads = "notifications"
    /\ UseNotificationEvents.reads = "notifications"
    /\ UseReadiness.reads = "readiness"
BY DEF UseApplications, UseApplication, UseApiKeys, UseConnections, UseConnection, UseQrCode,
       UseNotifications, UseNotification, UseNotificationEvents, UseReadiness

(* A change invalidates the keys of what it alters. *)
LEMMA Covered ==
    ASSUME NEW m \in Changes, NEW q \in Queries, q.reads = m.writes
    PROVE  IsPrefix(m.invalidates, q.key)
<1>1. CASE m = UseCreateApplication
  <2>1. m.writes = "applications" /\ m.invalidates = <<"applications">>
    BY <1>1 DEF UseCreateApplication
  <2>2. q \in {UseApplications, UseApplication}
    BY <2>1, Reads DEF Queries
<2>3. IsPrefix(<<"applications">>, UseApplications.key)
    BY DEF IsPrefix, UseApplications
  <2>4. IsPrefix(<<"applications">>, UseApplication.key)
    BY DEF IsPrefix, UseApplication, OfApplication
  <2>5. QED
    BY <2>1, <2>2, <2>3, <2>4
<1>2. CASE m \in {UseCreateApiKey, UseRevokeApiKey}
  <2>1. m.writes = "api keys" /\ m.invalidates = UseApiKeys.key
    <3>1. CASE m = UseCreateApiKey
      BY <3>1 DEF UseCreateApiKey
    <3>2. CASE m = UseRevokeApiKey
      BY <3>2 DEF UseRevokeApiKey
    <3>3. QED
      BY <1>2, <3>1, <3>2
  <2>2. q = UseApiKeys
    BY <2>1, Reads DEF Queries
<2>3. IsPrefix(UseApiKeys.key, UseApiKeys.key)
    BY DEF IsPrefix, UseApiKeys, OfApplication
  <2>4. QED
    BY <2>1, <2>2, <2>3
<1>3. CASE m \in {UseCreateConnection, UseConnectionAction, UseDeleteConnection}
  <2>1. m.writes = "connections" /\ m.invalidates = UseConnections.key
    BY <1>3 DEF UseCreateConnection, UseConnectionAction, UseDeleteConnection
  <2>2. q \in {UseConnections, UseConnection, UseQrCode}
    BY <2>1, Reads DEF Queries
<2>3. IsPrefix(UseConnections.key, UseConnections.key)
    BY DEF IsPrefix, UseConnections, OfApplication
  <2>4. IsPrefix(UseConnections.key, UseConnection.key)
    BY DEF IsPrefix, UseConnections, UseConnection, OfApplication
  <2>5. IsPrefix(UseConnections.key, UseQrCode.key)
    BY DEF IsPrefix, UseConnections, UseQrCode, OfApplication
  <2>6. QED
    BY <2>1, <2>2, <2>3, <2>4, <2>5
<1>4. CASE m \in {UseSendNotification, UseCancelNotification, UseCancelWaitingNotifications}
  <2>1. m.writes = "notifications" /\ m.invalidates = OfApplication(<<"notifications">>)
    BY <1>4 DEF UseSendNotification, UseCancelNotification, UseCancelWaitingNotifications
  <2>2. q \in {UseNotifications, UseNotification, UseNotificationEvents}
    BY <2>1, Reads DEF Queries
<2>3. IsPrefix(OfApplication(<<"notifications">>), UseNotifications.key)
    BY DEF IsPrefix, UseNotifications, OfApplication
  <2>4. IsPrefix(OfApplication(<<"notifications">>), UseNotification.key)
    BY DEF IsPrefix, UseNotification, OfApplication
  <2>5. IsPrefix(OfApplication(<<"notifications">>), UseNotificationEvents.key)
    BY DEF IsPrefix, UseNotificationEvents, OfApplication
  <2>6. QED
    BY <2>1, <2>2, <2>3, <2>4, <2>5
<1>5. QED
  BY <1>1, <1>2, <1>3, <1>4 DEF Changes

(* Whatever shows what a change alters is under the key it invalidates. *)
LEMMA ChangesCover ==
    ASSUME NEW m \in Change, NEW q \in Query, q.reads = m.writes
    PROVE  q \in Under(m.invalidates)
<1>1. m \in Changes /\ q \in Queries
  BY ScreensShow DEF Change, Query
<1>2. QED
  BY <1>1, Covered DEF Under

(***************************************************************************)
(* Operators.                                                              *)
(***************************************************************************)

(* The types that a step needs of what it reads. *)
LEMMA KnownTypes ==
    ASSUME DashboardTypeOK
    PROVE  /\ Shown \subseteq Query /\ screen.offers \subseteq Change
           /\ \A q \in Query :
                 /\ q.reads \in Table /\ version[q.reads] \in 0 .. MaxVersion
                 /\ due[q] \in 0 .. MaxVersion
                 /\ cached[q].version \in -1 .. MaxVersion /\ cached[q].visit \in 0 .. MaxVisits
                 /\ cached[q].invalidated \in BOOLEAN
                 /\ fetching[q].version \in -2 .. MaxVersion
                 /\ fetching[q].visit \in 0 .. MaxVisits
           /\ \A m \in Change : m.writes \in Table /\ version[m.writes] \in 0 .. MaxVersion
           /\ change.what \subseteq Change /\ change.made \in -1 .. MaxVersion
           /\ signOuts \in 0 .. MaxVisits
           /\ MaxVersion \in Nat /\ MaxVisits \in Nat
<1>1. screen.shows \subseteq Query /\ screen.offers \subseteq Change
  <2>1. SignInPage.shows = {} /\ SignInPage.offers = {}
    BY DEF SignInPage, Route
  <2>2. ASSUME NEW s \in Screen PROVE s.shows \subseteq Query /\ s.offers \subseteq Change
    BY DEF Query, Change
  <2>3. QED
    BY <2>1, <2>2 DEF DashboardTypeOK
<1>2. /\ \A q \in Query : q.reads \in Table
      /\ \A m \in Change : m.writes \in Table
  BY DEF Table
<1>3. /\ version \in [Table -> 0 .. MaxVersion]
      /\ cached \in [Query -> [version : -1 .. MaxVersion, visit : 0 .. MaxVisits,
                               invalidated : BOOLEAN]]
      /\ fetching \in [Query -> [version : -2 .. MaxVersion, visit : 0 .. MaxVisits]]
      /\ due \in [Query -> 0 .. MaxVersion]
      /\ change.what \subseteq Change /\ change.made \in -1 .. MaxVersion
      /\ signOuts \in 0 .. MaxVisits
  BY DEF DashboardTypeOK
<1>4. /\ \A q \in Query :
            /\ version[q.reads] \in 0 .. MaxVersion
            /\ due[q] \in 0 .. MaxVersion
            /\ cached[q].version \in -1 .. MaxVersion /\ cached[q].visit \in 0 .. MaxVisits
            /\ cached[q].invalidated \in BOOLEAN
            /\ fetching[q].version \in -2 .. MaxVersion
            /\ fetching[q].visit \in 0 .. MaxVisits
      /\ \A m \in Change : version[m.writes] \in 0 .. MaxVersion
  BY <1>2, <1>3
<1>5. MaxVersion \in Nat /\ MaxVisits \in Nat
  BY DashboardAssumption
<1>6. QED
  BY <1>1, <1>2, <1>3, <1>4, <1>5 DEF Shown

(* The marks of no data and no fetch. *)
LEMMA Marks ==
    ASSUME DashboardTypeOK
    PROVE  /\ NoData \in [version : -1 .. MaxVersion, visit : 0 .. MaxVisits, invalidated : BOOLEAN]
           /\ NoFetch \in [version : -2 .. MaxVersion, visit : 0 .. MaxVisits]
           /\ Asked \in [version : -2 .. MaxVersion, visit : 0 .. MaxVisits]
           /\ Asked.version = -1 /\ Asked.visit = signOuts /\ Asked # NoFetch
           /\ NoFetch.version = -2 /\ ~(NoFetch.version >= 0) /\ ~(Asked.version >= 0)
           /\ NoData.invalidated = FALSE
           /\ NoChange \in [what : {{}} \cup {{m} : m \in Change}, made : -1 .. MaxVersion]
           /\ NoChange.what = {}
<1>1. signOuts \in 0 .. MaxVisits /\ MaxVersion \in Nat /\ MaxVisits \in Nat
  BY KnownTypes
<1>2. Asked.version = -1 /\ NoFetch.version = -2 /\ Asked # NoFetch
  BY DEF Asked, NoFetch
<1>3. QED
  BY <1>1, <1>2 DEF NoData, NoFetch, Asked, NoChange

LEMMA DashboardInitEstablishes == DashboardInit => DashboardInv
<1> SUFFICES ASSUME DashboardInit PROVE DashboardInv
  OBVIOUS
<1>1. 0 \in 0 .. MaxVersion /\ 0 \in 0 .. MaxVisits /\ -1 \in -1 .. MaxVersion
      /\ -2 \in -2 .. MaxVersion
  BY DashboardAssumption
<1>2. DashboardTypeOK
  BY <1>1 DEF DashboardInit, DashboardTypeOK, NoData, NoFetch, NoChange
<1>3. DueIsMade
  BY KnownTypes, <1>2 DEF DashboardInit, DueIsMade, NoChange
<1>4. AnswerIsFresh
  BY KnownTypes, <1>2 DEF DashboardInit, AnswerIsFresh, NoFetch
<1>5. DataIsFresh /\ FetchOfVisit /\ NothingOfBefore
  BY KnownTypes, <1>2 DEF DashboardInit, DataIsFresh, FetchOfVisit, NothingOfBefore
<1>6. QED
  BY <1>2, <1>3, <1>4, <1>5 DEF DashboardInv

(***************************************************************************)
(* The steps.                                                              *)
(***************************************************************************)

(* On another screen nothing is due but what it has in common with the last.*)
LEMMA DueFalls ==
    ASSUME DashboardTypeOK, NEW s, Goes(s)
    PROVE  /\ screen' = s /\ Shown' = s.shows
           /\ due' \in [Query -> 0 .. MaxVersion]
           /\ \A q \in Query : due'[q] <= due[q]
           /\ \A q \in Query \cap Shown' : (due'[q] = due[q] /\ q \in Shown) \/ due'[q] = 0
<1>1. /\ screen' = s
      /\ due' = [q \in Query |-> IF q \in s.shows \cap Shown THEN due[q] ELSE 0]
  BY DEF Goes
<1>2. MaxVersion \in Nat /\ \A q \in Query : due[q] \in 0 .. MaxVersion
  BY KnownTypes
<1>3. \A q \in Query : due'[q] \in 0 .. MaxVersion /\ due'[q] <= due[q]
  <2> SUFFICES ASSUME NEW q \in Query PROVE due'[q] \in 0 .. MaxVersion /\ due'[q] <= due[q]
    OBVIOUS
  <2>1. due'[q] = due[q] \/ due'[q] = 0
    BY <1>1
  <2>2. due[q] \in 0 .. MaxVersion /\ MaxVersion \in Nat
    BY <1>2
  <2>3. QED
    BY <2>1, <2>2
<1>4. QED
  BY <1>1, <1>3 DEF Shown

LEMMA VersionsStand ==
    ASSUME DashboardTypeOK, UNCHANGED version
    PROVE  version' \in [Table -> 0 .. MaxVersion] /\ \A t \in Table : version[t] <= version'[t]
<1>1. version \in [Table -> 0 .. MaxVersion] /\ MaxVersion \in Nat
  BY DashboardAssumption DEF DashboardTypeOK
<1>2. \A t \in Table : version[t] \in 0 .. MaxVersion /\ version[t] <= version[t]
  BY <1>1
<1>3. QED
  BY <1>1, <1>2

(* What is due was made, and more may be by now. *)
LEMMA DueStaysMade ==
    ASSUME DashboardTypeOK, DueIsMade, version' \in [Table -> 0 .. MaxVersion],
           \A t \in Table : version[t] <= version'[t],
           due' \in [Query -> 0 .. MaxVersion], NEW q \in Query, due'[q] <= due[q]
    PROVE  due'[q] <= version'[q.reads]
<1>1. /\ due[q] \in 0 .. MaxVersion /\ MaxVersion \in Nat
      /\ q.reads \in Table /\ version[q.reads] \in 0 .. MaxVersion
  BY KnownTypes
<1>2. due'[q] \in 0 .. MaxVersion /\ version'[q.reads] \in 0 .. MaxVersion
  BY <1>1
<1>3. due[q] <= version[q.reads] /\ version[q.reads] <= version'[q.reads]
  BY <1>1 DEF DueIsMade
<1>4. QED
  BY <1>1, <1>2, <1>3

(* The cache and the server stand still while the screen changes. *)
LEMMA GoesPreserves ==
    ASSUME DashboardInv, NEW s \in Screen \cup {SignInPage}, Goes(s),
           session' \in {"pending", "signed out", "signed in"},
           session' # "signed in" => s = SignInPage,
           UNCHANGED <<version, cached, fetching, change, signOuts>>
    PROVE  DashboardInv'
<1> USE DEF DashboardInv
<1>1. /\ screen' = s /\ Shown' = s.shows /\ due' \in [Query -> 0 .. MaxVersion]
      /\ \A q \in Query : due'[q] <= due[q]
      /\ \A q \in Query \cap Shown' : (due'[q] = due[q] /\ q \in Shown) \/ due'[q] = 0
  BY DueFalls
<1>2. /\ MaxVersion \in Nat
      /\ \A q \in Query : /\ cached[q].version \in -1 .. MaxVersion
                          /\ fetching[q].version \in -2 .. MaxVersion
  BY KnownTypes
<1>3. DashboardTypeOK'
  BY <1>1 DEF DashboardTypeOK
<1>4. Shown' \subseteq Query
  <2>1. SignInPage.shows = {}
    BY DEF SignInPage, Route
  <2>2. QED
    BY <1>1, <2>1 DEF Query
<1>5. DueIsMade'
  <2>1. version' \in [Table -> 0 .. MaxVersion] /\ \A t \in Table : version[t] <= version'[t]
    BY VersionsStand
  <2>2. \A q \in Query : due'[q] <= version'[q.reads]
    BY <1>1, <2>1, DueStaysMade
  <2>3. QED
    BY <2>2 DEF DueIsMade
<1>6. AnswerIsFresh'
  BY <1>1, <1>2, <1>4 DEF AnswerIsFresh
<1>7. DataIsFresh'
  BY <1>1, <1>2, <1>4 DEF DataIsFresh
<1>8. FetchOfVisit' /\ NothingOfBefore'
  BY DEF FetchOfVisit, NothingOfBefore
<1>9. QED
  BY <1>3, <1>5, <1>6, <1>7, <1>8

(* Nothing but one query's data and its fetch changes. *)
LEMMA QueryPreserves ==
    ASSUME DashboardInv, NEW q \in Query,
           NEW data \in [version : -1 .. MaxVersion, visit : 0 .. MaxVisits, invalidated : BOOLEAN],
           NEW fetch \in [version : -2 .. MaxVersion, visit : 0 .. MaxVisits],
           cached' = [cached EXCEPT ![q] = data], fetching' = [fetching EXCEPT ![q] = fetch],
           UNCHANGED <<version, session, screen, change, signOuts, due>>,
           data # NoData => data.version >= 0 /\ data.visit = signOuts,
           q \in Shown /\ data # NoData => data.version >= due[q] \/ data.invalidated,
           fetch # NoFetch => fetch.visit = signOuts,
           q \in Shown /\ fetch.version >= 0 => fetch.version >= due[q]
    PROVE  DashboardInv'
<1> USE DEF DashboardInv
<1>1. DashboardTypeOK'
  BY DEF DashboardTypeOK
<1>2. \A p \in Query : /\ cached'[p] = IF p = q THEN data ELSE cached[p]
                       /\ fetching'[p] = IF p = q THEN fetch ELSE fetching[p]
  BY DEF DashboardTypeOK
<1>3. Shown' = Shown /\ Shown \subseteq Query
  BY KnownTypes DEF Shown
<1>4. DueIsMade'
  BY DEF DueIsMade
<1>5. AnswerIsFresh'
  BY <1>2, <1>3 DEF AnswerIsFresh
<1>6. DataIsFresh'
  BY <1>2, <1>3 DEF DataIsFresh
<1>7. FetchOfVisit' /\ NothingOfBefore'
  BY <1>2 DEF FetchOfVisit, NothingOfBefore
<1>8. QED
  BY <1>1, <1>4, <1>5, <1>6, <1>7

(* What is true of data that stays as it is. *)
LEMMA KeptData ==
    ASSUME DashboardInv, NEW q \in Query
    PROVE  /\ cached[q] \in [version : -1 .. MaxVersion, visit : 0 .. MaxVisits,
                             invalidated : BOOLEAN]
           /\ cached = [cached EXCEPT ![q] = cached[q]]
           /\ cached[q] # NoData => cached[q].version >= 0 /\ cached[q].visit = signOuts
           /\ q \in Shown /\ cached[q] # NoData =>
                 cached[q].version >= due[q] \/ cached[q].invalidated
BY DEF DashboardInv, DashboardTypeOK, DataIsFresh, NothingOfBefore

LEMMA FetchPreserves == ASSUME DashboardInv, NEW q \in Query, Fetch(q) PROVE DashboardInv'
<1>1. /\ cached' = cached /\ fetching' = [fetching EXCEPT ![q] = Asked]
      /\ UNCHANGED <<version, session, screen, change, signOuts, due>>
  BY DEF Fetch
<1>2. /\ Asked \in [version : -2 .. MaxVersion, visit : 0 .. MaxVisits]
      /\ Asked.visit = signOuts /\ ~(Asked.version >= 0)
  BY Marks DEF DashboardInv
<1>3. QED
  BY <1>1, <1>2, KeptData, QueryPreserves

LEMMA ServePreserves == ASSUME DashboardInv, NEW q \in Query, Serve(q) PROVE DashboardInv'
<1> USE DEF DashboardInv
<1> DEFINE fetch == [fetching[q] EXCEPT !.version = version[q.reads]]
<1>1. cached' = [cached EXCEPT ![q] = cached[q]] /\ fetching' = [fetching EXCEPT ![q] = fetch]
  BY DEF Serve, DashboardTypeOK
<1>2. /\ cached[q] \in [version : -1 .. MaxVersion, visit : 0 .. MaxVisits, invalidated : BOOLEAN]
      /\ cached[q] # NoData => cached[q].version >= 0 /\ cached[q].visit = signOuts
      /\ q \in Shown /\ cached[q] # NoData => cached[q].version >= due[q] \/ cached[q].invalidated
  BY DEF DashboardTypeOK, DataIsFresh, NothingOfBefore
<1>3. /\ fetching[q] \in [version : -2 .. MaxVersion, visit : 0 .. MaxVisits]
      /\ version[q.reads] \in 0 .. MaxVersion /\ due[q] <= version[q.reads]
  BY KnownTypes DEF DashboardTypeOK, DueIsMade
<1>4. fetching[q].visit = signOuts
  BY Marks DEF Serve, FetchOfVisit
<1>5. /\ fetch \in [version : -2 .. MaxVersion, visit : 0 .. MaxVisits]
      /\ fetch.version = version[q.reads] /\ fetch.visit = signOuts
  BY <1>3, <1>4, KnownTypes
<1> HIDE DEF fetch
<1>6. UNCHANGED <<version, session, screen, change, signOuts, due>>
  BY DEF Serve
<1>7. QED
  BY <1>6, <1>1, <1>2, <1>3, <1>5, QueryPreserves

LEMMA ReceivePreserves == ASSUME DashboardInv, NEW q \in Query, Receive(q) PROVE DashboardInv'
<1> DEFINE data == [version |-> fetching[q].version, visit |-> fetching[q].visit,
                    invalidated |-> FALSE]
<1>1. /\ cached' = [cached EXCEPT ![q] = data] /\ fetching' = [fetching EXCEPT ![q] = NoFetch]
      /\ UNCHANGED <<version, session, screen, change, signOuts, due>>
  BY DEF Receive
<1>2. /\ fetching[q].version \in -2 .. MaxVersion /\ fetching[q].visit \in 0 .. MaxVisits
      /\ fetching[q].version >= 0 /\ MaxVersion \in Nat
  BY KnownTypes DEF DashboardInv, Receive
<1>3. fetching[q].visit = signOuts
  BY <1>2, Marks DEF DashboardInv, FetchOfVisit
<1>4. /\ data \in [version : -1 .. MaxVersion, visit : 0 .. MaxVisits, invalidated : BOOLEAN]
      /\ data.version >= 0 /\ data.visit = signOuts
  BY <1>2, <1>3
<1>5. q \in Shown => data.version >= due[q]
  BY <1>2 DEF DashboardInv, AnswerIsFresh
<1>6. /\ NoFetch \in [version : -2 .. MaxVersion, visit : 0 .. MaxVisits]
      /\ ~(NoFetch.version >= 0)
  BY Marks DEF DashboardInv
<1> HIDE DEF data
<1>7. QED
  BY <1>1, <1>4, <1>5, <1>6, QueryPreserves

LEMMA FailToFetchPreserves ==
    ASSUME DashboardInv, NEW q \in Query, FailToFetch(q)
    PROVE  DashboardInv'
<1>1. /\ cached' = cached /\ fetching' = [fetching EXCEPT ![q] = NoFetch]
      /\ UNCHANGED <<version, session, screen, change, signOuts, due>>
  BY DEF FailToFetch
<1>2. /\ NoFetch \in [version : -2 .. MaxVersion, visit : 0 .. MaxVisits]
      /\ ~(NoFetch.version >= 0)
  BY Marks DEF DashboardInv
<1>3. QED
  BY <1>1, <1>2, KeptData, QueryPreserves

LEMMA CollectPreserves == ASSUME DashboardInv, NEW q \in Query, Collect(q) PROVE DashboardInv'
<1>1. /\ cached' = [cached EXCEPT ![q] = NoData] /\ fetching' = fetching /\ fetching[q] = NoFetch
      /\ UNCHANGED <<version, session, screen, change, signOuts, due>>
  BY DEF Collect
<1>2. fetching' = [fetching EXCEPT ![q] = NoFetch]
  BY <1>1 DEF DashboardInv, DashboardTypeOK
<1>3. /\ NoData \in [version : -1 .. MaxVersion, visit : 0 .. MaxVisits, invalidated : BOOLEAN]
      /\ NoFetch \in [version : -2 .. MaxVersion, visit : 0 .. MaxVisits]
      /\ ~(NoFetch.version >= 0)
  BY Marks DEF DashboardInv
<1>4. QED
  BY <1>1, <1>2, <1>3, QueryPreserves

(* The server's tables only ever move on. *)
LEMMA AlterMoves ==
    ASSUME DashboardTypeOK, NEW t \in Table, Alter(t)
    PROVE  /\ version' \in [Table -> 0 .. MaxVersion]
           /\ \A u \in Table : version[u] \in 0 .. MaxVersion /\ version[u] <= version'[u]
<1>1. version \in [Table -> 0 .. MaxVersion] /\ MaxVersion \in Nat
  BY DashboardAssumption DEF DashboardTypeOK
<1>2. version[t] < MaxVersion /\ version' = [version EXCEPT ![t] = version[t] + 1]
  BY DEF Alter
<1>3. \A u \in Table : version'[u] = IF u = t THEN version[t] + 1 ELSE version[u]
  BY <1>1, <1>2
<1>4. version[t] \in 0 .. MaxVersion /\ version[t] + 1 \in 0 .. MaxVersion
  BY <1>1, <1>2
<1>5. QED
  BY <1>1, <1>2, <1>3, <1>4

(* A change is begun, made, forgotten, or made by somebody else. *)
LEMMA ServerPreserves ==
    ASSUME DashboardInv, version' \in [Table -> 0 .. MaxVersion],
           \A u \in Table : version[u] <= version'[u],
           change' \in [what : {{}} \cup {{m} : m \in Change}, made : -1 .. MaxVersion],
           \A m \in change'.what : change'.made <= version'[m.writes],
           UNCHANGED <<session, screen, cached, fetching, signOuts, due>>
    PROVE  DashboardInv'
<1> USE DEF DashboardInv
<1>1. DashboardTypeOK'
  BY DEF DashboardTypeOK
<1>2. \A q \in Query : due[q] <= version'[q.reads]
  <2> SUFFICES ASSUME NEW q \in Query PROVE due[q] <= version'[q.reads]
    OBVIOUS
  <2>1. /\ due[q] \in 0 .. MaxVersion /\ q.reads \in Table
        /\ version[q.reads] \in 0 .. MaxVersion /\ due[q] <= version[q.reads]
        /\ MaxVersion \in Nat
    BY KnownTypes DEF DueIsMade
  <2>2. QED
    BY <2>1
<1>3. DueIsMade'
  BY <1>2 DEF DueIsMade
<1>4. AnswerIsFresh' /\ DataIsFresh' /\ FetchOfVisit' /\ NothingOfBefore'
  BY DEF AnswerIsFresh, DataIsFresh, FetchOfVisit, NothingOfBefore, Shown
<1>5. QED
  BY <1>1, <1>3, <1>4
LEMMA ChangePreserves ==
    ASSUME DashboardInv,
           \/ \E t \in Table : AlterElsewhere(t)
           \/ \E m \in Change : Mutate(m) \/ Perform(m)
           \/ FailToChange
    PROVE  DashboardInv'
<1> USE DEF DashboardInv
<1>1. /\ UNCHANGED version =>
            /\ version' \in [Table -> 0 .. MaxVersion]
            /\ \A t \in Table : version[t] <= version'[t]
      /\ \A t \in Table : Alter(t) =>
            /\ version' \in [Table -> 0 .. MaxVersion]
            /\ \A u \in Table : version[u] <= version'[u]
  BY VersionsStand, AlterMoves
<1>2. ASSUME NEW t \in Table, AlterElsewhere(t) PROVE DashboardInv'
  <2>1. /\ version' \in [Table -> 0 .. MaxVersion] /\ \A u \in Table : version[u] <= version'[u]
        /\ UNCHANGED <<session, screen, cached, fetching, change, signOuts, due>>
    BY <1>1, <1>2 DEF AlterElsewhere
  <2>2. ASSUME NEW m \in change.what PROVE change.made <= version'[m.writes]
    <3>1. /\ m \in Change /\ m.writes \in Table /\ version[m.writes] \in 0 .. MaxVersion
          /\ change.made \in -1 .. MaxVersion /\ MaxVersion \in Nat
      BY KnownTypes
    <3>2. /\ change.made <= version[m.writes] /\ version[m.writes] <= version'[m.writes]
          /\ version'[m.writes] \in 0 .. MaxVersion
      BY <2>1, <3>1 DEF DueIsMade
    <3>3. QED
      BY <3>1, <3>2
  <2>3. change' \in [what : {{}} \cup {{m} : m \in Change}, made : -1 .. MaxVersion]
    BY <2>1 DEF DashboardTypeOK
  <2>4. QED
    BY <2>1, <2>2, <2>3, ServerPreserves
<1>3. ASSUME NEW m \in Change, Mutate(m) PROVE DashboardInv'
  <2>1. /\ change' = [what |-> {m}, made |-> -1]
        /\ UNCHANGED <<version, session, screen, cached, fetching, signOuts, due>>
    BY <1>3 DEF Mutate
  <2>2. change' \in [what : {{}} \cup {{n} : n \in Change}, made : -1 .. MaxVersion]
    BY <2>1, KnownTypes
  <2>3. -1 <= version[m.writes]
    BY KnownTypes
  <2>4. QED
    BY <1>1, <2>1, <2>2, <2>3, ServerPreserves
<1>4. ASSUME NEW m \in Change, Perform(m) PROVE DashboardInv'
  <2>1. /\ Alter(m.writes) /\ m.writes \in Table /\ change.what = {m}
        /\ UNCHANGED <<session, screen, cached, fetching, signOuts, due>>
    BY <1>4, KnownTypes DEF Perform
  <2>2. /\ version' \in [Table -> 0 .. MaxVersion] /\ \A u \in Table : version[u] <= version'[u]
    BY <1>1, <2>1
  <2>3. change' = [what |-> {m}, made |-> version'[m.writes]]
    BY <1>4 DEF Perform
  <2>4. version'[m.writes] \in 0 .. MaxVersion /\ version'[m.writes] \in -1 .. MaxVersion
    BY <2>1, <2>2, DashboardAssumption
  <2>5. change' \in [what : {{}} \cup {{n} : n \in Change}, made : -1 .. MaxVersion]
    BY <2>3, <2>4
  <2>6. \A n \in change'.what : change'.made <= version'[n.writes]
    BY <2>3, <2>4
  <2>7. QED
    BY <2>1, <2>2, <2>5, <2>6, ServerPreserves
<1>5. CASE FailToChange
  <2>1. /\ change' = NoChange
        /\ UNCHANGED <<version, session, screen, cached, fetching, signOuts, due>>
    BY <1>5 DEF FailToChange
  <2>2. /\ change' \in [what : {{}} \cup {{m} : m \in Change}, made : -1 .. MaxVersion]
        /\ change'.what = {}
    BY <2>1, Marks
  <2>3. QED
    BY <1>1, <2>1, <2>2, ServerPreserves
<1>6. QED
  BY <1>2, <1>3, <1>4, <1>5

(* Everything that shows what was changed is marked or fetched anew. *)
LEMMA SettlePreserves == ASSUME DashboardInv, NEW m \in Change, Settle(m) PROVE DashboardInv'
<1> USE DEF DashboardInv
<1>1. /\ m \in change.what /\ change.made >= 0 /\ change' = NoChange
      /\ due' = [q \in Query |->
            IF q \in Shown /\ q.reads = m.writes /\ ~(FirstFetch(q) /\ fetching[q].version >= 0)
            THEN change.made ELSE due[q]]
      /\ cached' = [q \in Query |->
            IF q \in Under(m.invalidates) /\ cached[q] # NoData
            THEN [cached[q] EXCEPT !.invalidated = TRUE] ELSE cached[q]]
      /\ fetching' = [q \in Query |->
            IF q \in Under(m.invalidates) \cap Shown /\ ~FirstFetch(q)
            THEN Asked ELSE fetching[q]]
      /\ UNCHANGED <<version, session, screen, signOuts>>
  BY DEF Settle, Invalidate
<1>2. Shown' = Shown /\ Shown \subseteq Query
  BY <1>1, KnownTypes DEF Shown
<1>3. ASSUME NEW q \in Query
      PROVE  /\ cached[q] = NoData => cached'[q] = NoData
             /\ cached[q] # NoData => /\ cached'[q].version = cached[q].version
                                      /\ cached'[q].visit = cached[q].visit
                                      /\ cached[q].invalidated => cached'[q].invalidated
                                      /\ q \in Under(m.invalidates) => cached'[q].invalidated
             /\ cached'[q] \in [version : -1 .. MaxVersion, visit : 0 .. MaxVisits,
                                invalidated : BOOLEAN]
  <2>1. cached[q] \in [version : -1 .. MaxVersion, visit : 0 .. MaxVisits, invalidated : BOOLEAN]
    BY DEF DashboardTypeOK
  <2>2. CASE q \in Under(m.invalidates) /\ cached[q] # NoData
    <3>1. cached'[q] = [cached[q] EXCEPT !.invalidated = TRUE]
      BY <1>1, <2>2
    <3>2. QED
      BY <2>1, <2>2, <3>1
  <2>3. CASE ~(q \in Under(m.invalidates) /\ cached[q] # NoData)
    <3>1. cached'[q] = cached[q]
      BY <1>1, <2>3
    <3>2. QED
      BY <2>1, <2>3, <3>1
  <2>4. QED
    BY <2>2, <2>3
<1>4. ASSUME NEW q \in Query
      PROVE  /\ (fetching'[q] = Asked /\ q \in Shown) \/ fetching'[q] = fetching[q]
             /\ q \in Under(m.invalidates) \cap Shown =>
                   fetching'[q] = Asked \/ (FirstFetch(q) /\ fetching'[q] = fetching[q])
             /\ fetching'[q] \in [version : -2 .. MaxVersion, visit : 0 .. MaxVisits]
  <2>1. /\ Asked \in [version : -2 .. MaxVersion, visit : 0 .. MaxVisits]
        /\ fetching[q] \in [version : -2 .. MaxVersion, visit : 0 .. MaxVisits]
    BY Marks DEF DashboardTypeOK
  <2>2. CASE q \in Under(m.invalidates) \cap Shown /\ ~FirstFetch(q)
    <3>1. fetching'[q] = Asked /\ q \in Shown
      BY <1>1, <2>2
    <3>2. QED
      BY <2>1, <3>1
  <2>3. CASE ~(q \in Under(m.invalidates) \cap Shown /\ ~FirstFetch(q))
    <3>1. fetching'[q] = fetching[q]
      BY <1>1, <2>3
    <3>2. QED
      BY <2>1, <2>3, <3>1
  <2>4. QED
    BY <2>2, <2>3
<1>5. ASSUME NEW q \in Query
      PROVE  /\ q \in Shown /\ q.reads = m.writes => q \in Under(m.invalidates)
             /\ due'[q] # due[q] =>
                   /\ q \in Shown /\ q.reads = m.writes
                   /\ ~(FirstFetch(q) /\ fetching[q].version >= 0)
             /\ due'[q] \in 0 .. MaxVersion
  <2>1. due[q] \in 0 .. MaxVersion /\ change.made \in -1 .. MaxVersion /\ MaxVersion \in Nat
    BY KnownTypes
  <2>2. change.made \in 0 .. MaxVersion
    BY <1>1, <2>1
  <2>3. QED
    BY <1>1, <2>1, <2>2, ChangesCover
<1>6. DashboardTypeOK'
  <2>1. cached' \in [Query -> [version : -1 .. MaxVersion, visit : 0 .. MaxVisits,
                               invalidated : BOOLEAN]]
    BY <1>1, <1>3
  <2>2. fetching' \in [Query -> [version : -2 .. MaxVersion, visit : 0 .. MaxVisits]]
    BY <1>1, <1>4
  <2>3. due' \in [Query -> 0 .. MaxVersion]
    BY <1>1, <1>5
  <2>4. change' \in [what : {{}} \cup {{n} : n \in Change}, made : -1 .. MaxVersion]
    BY <1>1, Marks
  <2>5. QED
    BY <1>1, <2>1, <2>2, <2>3, <2>4 DEF DashboardTypeOK
<1>7. DueIsMade'
  <2>1. change'.what = {}
    BY <1>1, Marks
  <2>2. ASSUME NEW q \in Query PROVE due'[q] <= version'[q.reads]
    BY <1>1, <1>5 DEF DueIsMade
  <2>3. QED
    BY <2>1, <2>2 DEF DueIsMade
<1>8. AnswerIsFresh'
  <2> SUFFICES ASSUME NEW q \in Shown, fetching'[q].version >= 0
               PROVE  fetching'[q].version >= due'[q]
    BY <1>2 DEF AnswerIsFresh
  <2>1. fetching'[q] # Asked
    BY Marks
  <2>2. fetching'[q] = fetching[q] /\ due'[q] = due[q]
    BY <1>2, <1>4, <1>5, <2>1
  <2>3. QED
    BY <2>2 DEF AnswerIsFresh
<1>9. DataIsFresh'
  <2>1. ASSUME NEW q \in Query, cached'[q] # NoData PROVE cached'[q].version >= 0
    BY <1>3, <2>1 DEF DataIsFresh
  <2>2. ASSUME NEW q \in Shown, cached'[q] # NoData
        PROVE  cached'[q].version >= due'[q] \/ cached'[q].invalidated
    <3>1. q \in Query /\ cached[q] # NoData
      BY <1>2, <1>3, <2>2
    <3>2. CASE q.reads = m.writes
      BY <1>3, <1>5, <3>1, <3>2
    <3>3. CASE q.reads # m.writes
      BY <1>3, <1>5, <3>1, <3>3 DEF DataIsFresh
    <3>4. QED
      BY <3>2, <3>3
  <2>3. QED
    BY <1>2, <2>1, <2>2 DEF DataIsFresh
<1>10. FetchOfVisit'
  BY <1>1, <1>4, Marks DEF FetchOfVisit
<1>11. NothingOfBefore'
  BY <1>1, <1>3 DEF NothingOfBefore
<1>12. QED
  BY <1>6, <1>7, <1>8, <1>9, <1>10, <1>11
(* Nothing is left of what was cached or on its way. *)
LEMMA UseLogoutPreserves == ASSUME DashboardInv, UseLogout PROVE DashboardInv'
<1> USE DEF DashboardInv
<1>1. /\ signOuts < MaxVisits /\ signOuts' = signOuts + 1
      /\ session' = "signed out" /\ screen' = SignInPage
      /\ cached' = [q \in Query |-> NoData] /\ fetching' = [q \in Query |-> NoFetch]
      /\ due' = [q \in Query |-> 0] /\ UNCHANGED <<version, change>>
  BY DEF UseLogout
<1>2. signOuts \in 0 .. MaxVisits /\ MaxVisits \in Nat /\ MaxVersion \in Nat
  BY KnownTypes
<1>3. signOuts' \in 0 .. MaxVisits /\ 0 \in 0 .. MaxVersion
  <2>1. signOuts < MaxVisits /\ signOuts' = signOuts + 1
    BY <1>1
  <2>2. QED
    BY <2>1, <1>2
<1>4. /\ NoData \in [version : -1 .. MaxVersion, visit : 0 .. MaxVisits, invalidated : BOOLEAN]
      /\ NoFetch \in [version : -2 .. MaxVersion, visit : 0 .. MaxVisits]
  BY Marks
<1>5. /\ cached' \in [Query -> [version : -1 .. MaxVersion, visit : 0 .. MaxVisits,
                                invalidated : BOOLEAN]]
      /\ fetching' \in [Query -> [version : -2 .. MaxVersion, visit : 0 .. MaxVisits]]
      /\ due' \in [Query -> 0 .. MaxVersion]
  BY <1>1, <1>3, <1>4
<1>6. DashboardTypeOK'
  BY <1>1, <1>3, <1>5 DEF DashboardTypeOK
<1>7. Shown' = {}
  BY <1>1 DEF Shown, SignInPage, Route
<1>8. DueIsMade'
  <2>1. ASSUME NEW q \in Query PROVE due'[q] <= version'[q.reads]
    <3>1. due'[q] = 0 /\ version'[q.reads] = version[q.reads]
      BY <1>1
    <3>2. version[q.reads] \in 0 .. MaxVersion
      BY KnownTypes
    <3>3. QED
      BY <3>1, <3>2, <1>2
  <2>2. QED
    BY <1>1, <2>1 DEF DueIsMade
<1>9. AnswerIsFresh'
  BY <1>7 DEF AnswerIsFresh
<1>10. DataIsFresh' /\ FetchOfVisit' /\ NothingOfBefore'
  BY <1>1, <1>7 DEF DataIsFresh, FetchOfVisit, NothingOfBefore
<1>11. QED
  BY <1>6, <1>8, <1>9, <1>10

LEMMA SignInPreserves == ASSUME DashboardInv, SignIn PROVE DashboardInv'
<1> USE DEF DashboardInv
<1>1. session' = "signed in" /\ Shown' = Shown
      /\ UNCHANGED <<version, screen, cached, fetching, change, signOuts, due>>
  BY DEF SignIn, Shown
<1>2. DashboardTypeOK'
  BY <1>1 DEF DashboardTypeOK
<1>3. DueIsMade' /\ AnswerIsFresh' /\ DataIsFresh' /\ FetchOfVisit' /\ NothingOfBefore'
  BY <1>1 DEF DueIsMade, AnswerIsFresh, DataIsFresh, FetchOfVisit, NothingOfBefore
<1>4. QED
  BY <1>2, <1>3

LEMMA StandsStill == ASSUME DashboardInv, UNCHANGED dashboardVars PROVE DashboardInv'
<1> USE DEF DashboardInv
<1>1. DashboardTypeOK'
  BY DEF dashboardVars, DashboardTypeOK
<1>2. DueIsMade' /\ AnswerIsFresh' /\ DataIsFresh' /\ FetchOfVisit' /\ NothingOfBefore'
  BY DEF dashboardVars, DueIsMade, AnswerIsFresh, DataIsFresh, FetchOfVisit, NothingOfBefore, Shown
<1>3. QED
  BY <1>1, <1>2

LEMMA DashboardStepPreserves == DashboardInv /\ [DashboardNext]_dashboardVars => DashboardInv'
<1> SUFFICES ASSUME DashboardInv, [DashboardNext]_dashboardVars PROVE DashboardInv'
  OBVIOUS
<1>1. CASE UNCHANGED dashboardVars
  BY <1>1, StandsStill
<1>2. ASSUME NEW s \in Screen, Open(s) PROVE DashboardInv'
  <2>1. /\ session = "signed in" /\ Goes(s)
        /\ UNCHANGED <<version, session, cached, fetching, change, signOuts>>
    BY <1>2 DEF Open
  <2>2. QED
    BY <2>1, GoesPreserves
<1>3. ASSUME NEW q \in Query, Fetch(q) \/ Serve(q) \/ Receive(q) \/ FailToFetch(q) \/ Collect(q)
      PROVE  DashboardInv'
  BY <1>3, FetchPreserves, ServePreserves, ReceivePreserves, FailToFetchPreserves,
     CollectPreserves
<1>4. CASE \/ \E t \in Table : AlterElsewhere(t)
           \/ \E m \in Change : Mutate(m) \/ Perform(m)
           \/ FailToChange
  BY <1>4, ChangePreserves
<1>5. ASSUME NEW m \in Change, Settle(m) PROVE DashboardInv'
  BY <1>5, SettlePreserves
<1>6. CASE UseSession
  <2>1. /\ session' \in {"signed out", "signed in"} /\ Goes(SignInPage)
        /\ UNCHANGED <<version, cached, fetching, change, signOuts>>
    BY <1>6 DEF UseSession
  <2>2. QED
    BY <2>1, GoesPreserves
<1>7. CASE UseLogin \/ UseRegister
  BY <1>7, SignInPreserves DEF UseLogin, UseRegister
<1>8. CASE UseLogout
  BY <1>8, UseLogoutPreserves
<1>9. QED
  BY <1>1, <1>2, <1>3, <1>4, <1>5, <1>6, <1>7, <1>8 DEF DashboardNext

(***************************************************************************)
(* The results.                                                            *)
(***************************************************************************)

(* The inductive invariant holds. *)
THEOREM DashboardInvariance == DashboardSpec => []DashboardInv
BY DashboardInitEstablishes, DashboardStepPreserves, PTL DEF DashboardSpec

(* Every variable of the dashboard keeps its type. *)
THEOREM DashboardTypeCorrect == DashboardSpec => []DashboardTypeOK
<1>1. DashboardInv => DashboardTypeOK
  BY DEF DashboardInv
<1>2. QED
  BY <1>1, DashboardInvariance, PTL

(* On every screen there is, what invalidateQueries is given covers all that *)
(* shows what a change of the tab altered, and no answer that was already on *)
(* its way puts it back.                                                   *)
THEOREM MutationTheorem == DashboardSpec => []MutationShown
<1>1. DashboardInv => MutationShown
  BY DEF DashboardInv, DataIsFresh, MutationShown
<1>2. QED
  BY <1>1, DashboardInvariance, PTL

(* Nothing that was asked for before the last sign-out is shown after it,    *)
(* because useLogout removes the fetches with the data.                     *)
THEOREM SignOutTheorem == DashboardSpec => []NothingOfBefore
<1>1. DashboardInv => NothingOfBefore
  BY DEF DashboardInv
<1>2. QED
  BY <1>1, DashboardInvariance, PTL
=============================================================================
