------------------------------- MODULE Dashboard -------------------------------
(***************************************************************************)
(* The dashboard in one browser tab: what its screens show of the server's *)
(* data, through the query cache, and the changes it asks for.             *)
(*                                                                         *)
(* A query's data is fetched when a screen with it opens, again now and    *)
(* then, and whenever a change the tab made invalidates it; answers arrive *)
(* in any order or not at all, and the server's data changes for other     *)
(* reasons too.  The cache is the library's: a query is known by its key,  *)
(* has at most one fetch that counts, keeps it when its screen closes, and *)
(* is dropped some time after that.  Retries and how often a screen polls  *)
(* are left out: a fetch may begin at any time.  So are filters, and all    *)
(* but one application, connection and notification.                       *)
(*                                                                         *)
(* A definition that stands just before the one it resembles, and that     *)
(* nothing uses, is a mistake that one could have.                         *)
(***************************************************************************)
EXTENDS Integers, FiniteSets, SequencesExt

CONSTANTS
    Screen,         \* the screens of the model, of those below
    MaxVersion,     \* bound: how often each table changes
    MaxCached,      \* bound: queries with data or a fetch at a time
    MaxVisits       \* bound: how often somebody signs out

-----------------------------------------------------------------------------
(* The queries: under what key, and which of the server's tables they read. *)
OfApplication(rest) == <<"applications", "an application">> \o rest

UseApplications       == [key |-> <<"applications">>, reads |-> "applications"]
UseApplication        == [key |-> OfApplication(<<>>), reads |-> "applications"]
UseApiKeys            == [key |-> OfApplication(<<"api-keys">>), reads |-> "api keys"]
UseConnections        == [key |-> OfApplication(<<"connections">>), reads |-> "connections"]
UseConnection         == [key |-> OfApplication(<<"connections", "one">>), reads |-> "connections"]
UseQrCode             == [key |-> OfApplication(<<"connections", "one", "qr-code">>),
                          reads |-> "connections"]
UseNotifications      == [key |-> OfApplication(<<"notifications", "list">>),
                          reads |-> "notifications"]
UseNotification       == [key |-> OfApplication(<<"notifications", "one">>),
                          reads |-> "notifications"]
UseNotificationEvents == [key |-> OfApplication(<<"notifications", "one", "events">>),
                          reads |-> "notifications"]
UseReadiness          == [key |-> <<"readiness">>, reads |-> "readiness"]

(* The changes: what of the server's they alter, and the keys under which   *)
(* they invalidate.                                                        *)
UseCreateApplication  == [writes |-> "applications", invalidates |-> <<"applications">>]
UseCreateApiKey       == [writes |-> "api keys", invalidates |-> UseApiKeys.key]
UseRevokeApiKey       == [writes |-> "api keys", invalidates |-> UseApiKeys.key]
UseCreateConnection   == [writes |-> "connections", invalidates |-> UseConnections.key]
UseConnectionAction   == [writes |-> "connections", invalidates |-> UseConnections.key]
UseDeleteConnection   == [writes |-> "connections", invalidates |-> UseConnections.key]
UseSendNotification   == [writes |-> "notifications",
                          invalidates |-> OfApplication(<<"notifications">>)]
UseCancelNotification == [writes |-> "notifications",
                          invalidates |-> OfApplication(<<"notifications">>)]
UseCancelWaitingNotifications == [writes |-> "notifications",
                          invalidates |-> OfApplication(<<"notifications">>)]

(* The screens: the queries each shows, and the changes it offers.         *)
Route(shows, offers) == [shows |-> shows, offers |-> offers]

(* What several pages have in common: the frame around the pages of an     *)
(* application, the code to scan, the button that cancels what waits.       *)
ApplicationLayout(page) == [page EXCEPT !.shows = @ \cup {UseApplication}]

QrPanel(page)     == [page EXCEPT !.shows = @ \cup {UseQrCode}]
CancelWaitingNotifications == {UseCancelWaitingNotifications}

ApplicationsPage  == Route({UseApplications}, {UseCreateApplication})
OverviewPage      == ApplicationLayout(Route({UseConnections, UseNotifications}, {}))
NotificationsPage == ApplicationLayout(Route({UseNotifications}, CancelWaitingNotifications))
NotificationPage  ==
    ApplicationLayout(Route({UseNotification, UseNotificationEvents}, {UseCancelNotification}))
SendPage          == ApplicationLayout(Route({UseConnections}, {UseSendNotification}))
ConnectionsPage   == ApplicationLayout(Route({UseConnections}, {UseCreateConnection}))
ConnectionPage    ==
    ApplicationLayout(QrPanel(Route({UseConnection},
        {UseConnectionAction, UseDeleteConnection} \cup CancelWaitingNotifications)))
ApiKeysPage       == ApplicationLayout(Route({UseApiKeys}, {UseCreateApiKey, UseRevokeApiKey}))
SystemStatusPage  == ApplicationLayout(Route({UseReadiness}, {}))
SignInPage        == Route({}, {})

ASSUME DashboardAssumption ==
    /\ Screen \subseteq {ApplicationsPage, OverviewPage, NotificationsPage, NotificationPage,
                         SendPage, ConnectionsPage, ConnectionPage, ApiKeysPage, SystemStatusPage}
    /\ {MaxVersion, MaxCached, MaxVisits} \subseteq Nat

Query  == UNION {s.shows : s \in Screen}
Change == UNION {s.offers : s \in Screen}
Table  == {q.reads : q \in Query} \cup {m.writes : m \in Change}

VARIABLES
    version,        \* the server's tables: how often each was changed
    session,        \* what the tab knows of it: "pending", "signed out" or "signed in"
    screen,         \* the screen that is open
    cached,         \* the data of each query: NoData, or the version it shows
    fetching,       \* each query's fetch: none, asked, or the version on its way back
    change,         \* the change on its way: NoChange, or with the version it made
    signOuts,       \* how many sign-outs came before
    due             \* the version each query on the screen is bound to show

dashboardVars == <<version, session, screen, cached, fetching, change, signOuts, due>>

NoData   == [version |-> -1, visit |-> 0, invalidated |-> FALSE]
NoFetch  == [version |-> -2, visit |-> 0]
Asked    == [version |-> -1, visit |-> signOuts]
NoChange == [what |-> {}, made |-> -1]

DashboardInit ==
    /\ version = [t \in Table |-> 0]
    /\ session = "pending"
    /\ screen = SignInPage
    /\ cached = [q \in Query |-> NoData]
    /\ fetching = [q \in Query |-> NoFetch]
    /\ change = NoChange
    /\ signOuts = 0
    /\ due = [q \in Query |-> 0]

Shown == screen.shows

InUse == {q \in Query : cached[q] # NoData \/ fetching[q] # NoFetch}

-----------------------------------------------------------------------------
(* The router: without a session there is the page to sign in on, and with  *)
(* one every other.  Leaving a screen ends no fetch.                       *)
Goes(s) ==
    /\ screen' = s
    /\ due' = [q \in Query |-> IF q \in s.shows \cap Shown THEN due[q] ELSE 0]

Open(s) ==
    /\ session = "signed in"
    /\ s # screen
    /\ Goes(s)
    /\ UNCHANGED <<version, session, cached, fetching, change, signOuts>>

(* The session is asked for at first, and later now and then: it may have   *)
(* ended on the server.  What else is cached stays.                        *)
UseSession ==
    /\ \/ session = "pending" /\ session' \in {"signed out", "signed in"}
       \/ session = "signed in" /\ session' = "signed out"
    /\ Goes(SignInPage)
    /\ UNCHANGED <<version, cached, fetching, change, signOuts>>

SignIn ==
    /\ session = "signed out"
    /\ session' = "signed in"
    /\ UNCHANGED <<version, screen, cached, fetching, change, signOuts, due>>
UseLogin    == SignIn
UseRegister == SignIn

Fetch(q) ==
    /\ q \in Shown
    /\ fetching[q] = NoFetch
    /\ Cardinality(InUse \cup {q}) <= MaxCached
    /\ fetching' = [fetching EXCEPT ![q] = Asked]
    /\ UNCHANGED <<version, session, screen, cached, change, signOuts, due>>

Serve(q) ==
    /\ fetching[q].version = -1
    /\ fetching' = [fetching EXCEPT ![q].version = version[q.reads]]
    /\ UNCHANGED <<version, session, screen, cached, change, signOuts, due>>

Receive(q) ==
    /\ fetching[q].version >= 0
    /\ cached' = [cached EXCEPT ![q] =
           [version |-> fetching[q].version, visit |-> fetching[q].visit, invalidated |-> FALSE]]
    /\ fetching' = [fetching EXCEPT ![q] = NoFetch]
    /\ UNCHANGED <<version, session, screen, change, signOuts, due>>

(* The data there is stays, and stays invalidated.                         *)
FailToFetch(q) ==
    /\ fetching[q] # NoFetch
    /\ fetching' = [fetching EXCEPT ![q] = NoFetch]
    /\ UNCHANGED <<version, session, screen, cached, change, signOuts, due>>

Collect(q) ==
    /\ q \notin Shown /\ fetching[q] = NoFetch /\ cached[q] # NoData
    /\ cached' = [cached EXCEPT ![q] = NoData]
    /\ UNCHANGED <<version, session, screen, fetching, change, signOuts, due>>

-----------------------------------------------------------------------------
Alter(t) ==
    /\ version[t] < MaxVersion
    /\ version' = [version EXCEPT ![t] = @ + 1]

(* Somebody else does, or the platform itself.                             *)
AlterElsewhere(t) ==
    /\ Alter(t)
    /\ UNCHANGED <<session, screen, cached, fetching, change, signOuts, due>>

Mutate(m) ==
    /\ change = NoChange
    /\ m \in screen.offers
    /\ change' = [what |-> {m}, made |-> -1]
    /\ UNCHANGED <<version, session, screen, cached, fetching, signOuts, due>>

Perform(m) ==
    /\ change = [what |-> {m}, made |-> -1]
    /\ Alter(m.writes)
    /\ change' = [change EXCEPT !.made = version'[m.writes]]
    /\ UNCHANGED <<session, screen, cached, fetching, signOuts, due>>

Under(prefix) == {q \in Query : IsPrefix(prefix, q.key)}

InvalidateIdle(prefix) ==
    /\ cached' = [q \in Query |->
           IF q \in Under(prefix) /\ cached[q] # NoData
           THEN [cached[q] EXCEPT !.invalidated = TRUE] ELSE cached[q]]
    /\ fetching' = [q \in Query |->
           IF q \in Under(prefix) \cap Shown /\ fetching[q] = NoFetch THEN Asked ELSE fetching[q]]

(* The first fetch of a query, which has no data yet, is on its way.       *)
FirstFetch(q) == cached[q] = NoData /\ fetching[q] # NoFetch

(* What is under the prefix is marked, and fetched anew where it is on the  *)
(* screen; a fetch that was on its way there is forgotten, except that the  *)
(* library joins a first fetch and takes its answer for a new one.          *)
Invalidate(prefix) ==
    /\ cached' = [q \in Query |->
           IF q \in Under(prefix) /\ cached[q] # NoData
           THEN [cached[q] EXCEPT !.invalidated = TRUE] ELSE cached[q]]
    /\ fetching' = [q \in Query |->
           IF q \in Under(prefix) \cap Shown /\ ~FirstFetch(q) THEN Asked ELSE fetching[q]]

(* onSuccess.                                                              *)
Settle(m) ==
    /\ m \in change.what /\ change.made >= 0
    /\ Cardinality(InUse \cup (Under(m.invalidates) \cap Shown)) <= MaxCached
    /\ Invalidate(m.invalidates)
    /\ due' = [q \in Query |->
           IF q \in Shown /\ q.reads = m.writes /\ ~(FirstFetch(q) /\ fetching[q].version >= 0)
           THEN change.made ELSE due[q]]
    /\ change' = NoChange
    /\ UNCHANGED <<version, session, screen, signOuts>>

(* The answer is lost: nothing is invalidated.                             *)
FailToChange ==
    /\ change # NoChange
    /\ change' = NoChange
    /\ UNCHANGED <<version, session, screen, cached, fetching, signOuts, due>>

(* Everything but the session itself goes, the fetches on their way too.    *)
LogoutKeepingFetches ==
    /\ signOuts < MaxVisits /\ signOuts' = signOuts + 1
    /\ session = "signed in" /\ session' = "signed out"
    /\ screen' = SignInPage
    /\ cached' = [q \in Query |-> NoData]
    /\ due' = [q \in Query |-> 0]
    /\ UNCHANGED <<version, change, fetching>>

UseLogout ==
    /\ signOuts < MaxVisits /\ signOuts' = signOuts + 1
    /\ session = "signed in" /\ session' = "signed out"
    /\ screen' = SignInPage
    /\ cached' = [q \in Query |-> NoData]
    /\ fetching' = [q \in Query |-> NoFetch]
    /\ due' = [q \in Query |-> 0]
    /\ UNCHANGED <<version, change>>

DashboardNext ==
    \/ \E s \in Screen : Open(s)
    \/ \E q \in Query : Fetch(q) \/ Serve(q) \/ Receive(q) \/ FailToFetch(q) \/ Collect(q)
    \/ \E t \in Table : AlterElsewhere(t)
    \/ \E m \in Change : Mutate(m) \/ Perform(m) \/ Settle(m)
    \/ FailToChange
    \/ UseSession \/ UseLogin \/ UseRegister \/ UseLogout

DashboardSpec == DashboardInit /\ [][DashboardNext]_dashboardVars

-----------------------------------------------------------------------------
DashboardTypeOK ==
    /\ version \in [Table -> 0 .. MaxVersion]
    /\ session \in {"pending", "signed out", "signed in"}
    /\ screen \in Screen \cup {SignInPage}
    /\ session # "signed in" => screen = SignInPage
    /\ cached \in [Query -> [version : -1 .. MaxVersion, visit : 0 .. MaxVisits,
                             invalidated : BOOLEAN]]
    /\ fetching \in [Query -> [version : -2 .. MaxVersion, visit : 0 .. MaxVisits]]
    /\ change \in [what : {{}} \cup {{m} : m \in Change}, made : -1 .. MaxVersion]
    /\ signOuts \in 0 .. MaxVisits
    /\ due \in [Query -> 0 .. MaxVersion]

(* "One invalidation covers every filtered variant beneath it", and a       *)
(* flat key would leave one out: whatever on the open screen reads what the *)
(* tab changed never settles on data from before the change, an answer that *)
(* was already on its way to it included, unless a fetch failed and the     *)
(* data is marked.  Excepted is a query without data, whose first fetch the *)
(* server had answered when the change settled: that answer lands.         *)
MutationShown ==
    \A q \in Shown :
        cached[q] # NoData /\ fetching[q] = NoFetch =>
            cached[q].version >= due[q] \/ cached[q].invalidated

(* "Everything else was read under an identity that no longer applies":     *)
(* nothing that was asked for before the last sign-out is shown after it.   *)
NothingOfBefore ==
    \A q \in Query : cached[q] # NoData => cached[q].visit = signOuts
=============================================================================
