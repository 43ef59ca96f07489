------------------------------- MODULE Tenancy -------------------------------
(***************************************************************************)
(* Who owns what: the organizations that registration makes, their         *)
(* applications, and the API keys by which programs act for one.           *)
(*                                                                         *)
(* A request of the dashboard acts for the organization its session        *)
(* belongs to, and names an application, and a key, by whatever ids its    *)
(* URL says: first the application is looked up under that organization,   *)
(* then the keys are touched, in another statement.  A request of the API  *)
(* reads its key with the application, then the application once more for  *)
(* its allowance.  Registration looks for the address, makes the           *)
(* organization and makes its owner, in three statements that no           *)
(* transaction holds together.                                             *)
(*                                                                         *)
(* Names, slugs, scopes and an application's settings are left out, and so *)
(* is the status of an application, which is ACTIVE always.                *)
(*                                                                         *)
(* A definition that stands just before the one it resembles, and that     *)
(* nothing uses, is a mistake that one could have.                         *)
(***************************************************************************)
EXTENDS Integers

CONSTANTS
    Clerk,              \* handlers of dashboard requests and registrations
    Visitor,            \* handlers of API requests
    Email,
    MaxOrganizations, MaxApplications, MaxApiKeys   \* bounds

Organization == 1 .. MaxOrganizations
Application  == 1 .. MaxApplications
ApiKey       == 1 .. MaxApiKeys

ASSUME TenancyAssumption == {MaxOrganizations, MaxApplications, MaxApiKeys} \subseteq Nat

VARIABLES
    founded,        \* how many organizations there are
    owner,          \* the organization of the account under each address, 0 for none
    application,    \* NoApplication where there is none yet
    apiKey,         \* NoKey where there is none yet
    desk,           \* what each clerk is doing
    visit           \* what each visitor is doing

tenancyVars == <<founded, owner, application, apiKey, desk, visit>>

NoApplication == [organization |-> 0, archived |-> FALSE]
NoKey         == [application |-> 0, revoked |-> FALSE, expired |-> FALSE]

Task == {"register", "create key", "revoke key"}
Free == [task |-> "none", stage |-> "none", organization |-> 0, application |-> 0, apiKey |-> 0,
         email |-> 0]
Away == [stage |-> "away", apiKey |-> 0]

TenancyInit ==
    /\ founded = 0
    /\ owner = [e \in Email |-> 0]
    /\ application = [a \in Application |-> NoApplication]
    /\ apiKey = [k \in ApiKey |-> NoKey]
    /\ desk = [d \in Clerk |-> Free]
    /\ visit = [v \in Visitor |-> Away]

(* The organizations whose accounts may have a session open.               *)
SignedIn(o) == \E e \in Email : owner[e] = o

AtDesk(d, task, stage) == desk[d].task = task /\ desk[d].stage = stage

Leave(d) == desk' = [desk EXCEPT ![d] = Free]

-----------------------------------------------------------------------------
(* register: the address is free, as far as can be seen.                   *)
Register(d, e) ==
    /\ desk[d] = Free
    /\ owner[e] = 0
    /\ desk' = [desk EXCEPT ![d] = [Free EXCEPT !.task = "register", !.stage = "founding",
                                                !.email = e]]
    /\ UNCHANGED <<founded, owner, application, apiKey, visit>>

InsertOrganization(d) ==
    /\ AtDesk(d, "register", "founding")
    /\ founded < MaxOrganizations /\ founded' = founded + 1
    /\ desk' = [desk EXCEPT ![d].stage = "owning", ![d].organization = founded + 1]
    /\ UNCHANGED <<owner, application, apiKey, visit>>

TakeOver(d) ==
    /\ AtDesk(d, "register", "owning")
    /\ owner' = [owner EXCEPT ![desk[d].email] = desk[d].organization]
    /\ Leave(d)
    /\ UNCHANGED <<founded, application, apiKey, visit>>

(* The unique index turns away an address that was taken meanwhile; the     *)
(* organization made for it stays behind.                                  *)
BecomeOwner(d) ==
    /\ AtDesk(d, "register", "owning")
    /\ owner' = IF owner[desk[d].email] = 0
                THEN [owner EXCEPT ![desk[d].email] = desk[d].organization]
                ELSE owner
    /\ Leave(d)
    /\ UNCHANGED <<founded, application, apiKey, visit>>

-----------------------------------------------------------------------------
(* ApplicationRepository, every method of which takes the organization.     *)
VisibleById(o, a) == application[a] # NoApplication /\ ~application[a].archived

Visible(o, a) == application[a].organization = o /\ ~application[a].archived

CreateApplication(o) ==
    /\ SignedIn(o)
    /\ \E a \in Application :
          /\ application[a] = NoApplication
          /\ \A b \in Application : b < a => application[b] # NoApplication
          /\ application' = [application EXCEPT ![a].organization = o]
    /\ UNCHANGED <<founded, owner, apiKey, desk, visit>>

Archive(o, a) ==
    /\ SignedIn(o) /\ Visible(o, a)
    /\ application' = [application EXCEPT ![a].archived = TRUE]
    /\ UNCHANGED <<founded, owner, apiKey, desk, visit>>

(* getOrFail, before anything is done with the application's keys.         *)
Enter(d, o, task, a, k) ==
    /\ desk[d] = Free
    /\ SignedIn(o)
    /\ Visible(o, a)
    /\ desk' = [desk EXCEPT ![d] =
           [task |-> task, stage |-> "entered", organization |-> o, application |-> a,
            apiKey |-> k, email |-> 0]]
    /\ UNCHANGED <<founded, owner, application, apiKey, visit>>

CreateKey(d) ==
    /\ AtDesk(d, "create key", "entered")
    /\ \E k \in ApiKey :
          /\ apiKey[k] = NoKey
          /\ \A j \in ApiKey : j < k => apiKey[j] # NoKey
          /\ apiKey' = [apiKey EXCEPT ![k].application = desk[d].application]
    /\ Leave(d)
    /\ UNCHANGED <<founded, owner, application, visit>>

RevokeKey(d) ==
    /\ AtDesk(d, "revoke key", "entered")
    /\ LET k == desk[d].apiKey
       IN  apiKey' = IF apiKey[k].application = desk[d].application
                     THEN [apiKey EXCEPT ![k].revoked = TRUE] ELSE apiKey
    /\ Leave(d)
    /\ UNCHANGED <<founded, owner, application, visit>>

Expire(k) ==
    /\ apiKey[k] # NoKey /\ ~apiKey[k].expired
    /\ apiKey' = [apiKey EXCEPT ![k].expired = TRUE]
    /\ UNCHANGED <<founded, owner, application, desk, visit>>

(* A process dies, or a statement fails.                                   *)
Walk(d) ==
    /\ desk[d] # Free
    /\ Leave(d)
    /\ UNCHANGED <<founded, owner, application, apiKey, visit>>

-----------------------------------------------------------------------------
(* findActiveByIdentifier; the secret is the right one, or the request ends *)
(* here.                                                                   *)
Usable(k) ==
    /\ apiKey[k] # NoKey /\ ~apiKey[k].revoked /\ ~apiKey[k].expired
    /\ ~application[apiKey[k].application].archived

Authenticate(v, k) ==
    /\ visit[v] = Away
    /\ Usable(k)
    /\ visit' = [visit EXCEPT ![v] = [stage |-> "authenticated", apiKey |-> k]]
    /\ UNCHANGED <<founded, owner, application, apiKey, desk>>

(* readPolicy looks the application up again.                              *)
ReadPolicy(v) ==
    /\ visit[v].stage = "authenticated"
    /\ LET a == apiKey[visit[v].apiKey].application
       IN  visit' = [visit EXCEPT ![v] =
                         IF Visible(application[a].organization, a)
                         THEN [@ EXCEPT !.stage = "served"] ELSE Away]
    /\ UNCHANGED <<founded, owner, application, apiKey, desk>>

Depart(v) ==
    /\ visit[v].stage = "served"
    /\ visit' = [visit EXCEPT ![v] = Away]
    /\ UNCHANGED <<founded, owner, application, apiKey, desk>>

TenancyNext ==
    \/ \E d \in Clerk :
          \/ \E e \in Email : Register(d, e)
          \/ InsertOrganization(d) \/ BecomeOwner(d) \/ CreateKey(d) \/ RevokeKey(d) \/ Walk(d)
          \/ \E o \in Organization, a \in Application :
                \/ Enter(d, o, "create key", a, 0)
                \/ \E k \in ApiKey : Enter(d, o, "revoke key", a, k)
    \/ \E o \in Organization :
          CreateApplication(o) \/ \E a \in Application : Archive(o, a)
    \/ \E k \in ApiKey : Expire(k)
    \/ \E v \in Visitor : (\E k \in ApiKey : Authenticate(v, k)) \/ ReadPolicy(v) \/ Depart(v)

TenancySpec == TenancyInit /\ [][TenancyNext]_tenancyVars

-----------------------------------------------------------------------------
TenancyTypeOK ==
    /\ founded \in 0 .. MaxOrganizations
    /\ owner \in [Email -> 0 .. MaxOrganizations]
    /\ application \in [Application -> [organization : 0 .. MaxOrganizations, archived : BOOLEAN]]
    /\ apiKey \in [ApiKey -> [application : 0 .. MaxApplications, revoked : BOOLEAN,
                              expired : BOOLEAN]]
    /\ desk \in [Clerk -> [task : Task \cup {"none"},
                           stage : {"none", "founding", "owning", "entered"},
                           organization : 0 .. MaxOrganizations,
                           application : 0 .. MaxApplications,
                           apiKey : 0 .. MaxApiKeys, email : Email \cup {0}]]
    /\ visit \in [Visitor -> [stage : {"away", "authenticated", "served"},
                              apiKey : 0 .. MaxApiKeys]]

(* What a registration that ended half way left behind.                    *)
LeftBehind(o) ==
    /\ o \in 1 .. founded /\ ~SignedIn(o)
    /\ \A d \in Clerk : AtDesk(d, "register", "owning") => desk[d].organization # o

(* "The first account in an organization owns it": of registrations that    *)
(* cross, of one address or of two, the one that comes too late takes over  *)
(* no account there is, whoever becomes an owner does so of an organization *)
(* nobody else has, and one that was left behind is nobody's for good.     *)
OwnOrganization ==
    [][/\ \A e \in Email : owner[e] # 0 => owner'[e] = owner[e]
       /\ \A e, f \in Email : owner'[e] # owner[e] /\ e # f => owner'[e] # owner'[f]
       /\ \A o \in Organization : LeftBehind(o) => LeftBehind(o)'
      ]_tenancyVars

(* "What stops a key list being read across tenants": whatever ids a        *)
(* request puts together, a key is made or revoked only by a request of     *)
(* the organization its application belongs to.                            *)
KeysStayInside ==
    [][\A k \in ApiKey :
          apiKey'[k] # apiKey[k] =>
              \/ \E d \in Clerk :
                    /\ desk[d].stage = "entered" /\ desk'[d] = Free
                    /\ desk[d].organization = application'[apiKey'[k].application].organization
              \/ apiKey'[k] = [apiKey[k] EXCEPT !.expired = TRUE]
      ]_tenancyVars

(* A revoked or expired key is never accepted again, nor any key of an      *)
(* archived application, one that was being made while it was archived      *)
(* included.                                                               *)
DeadKey(k) ==
    apiKey[k] # NoKey /\ (apiKey[k].revoked \/ apiKey[k].expired
                          \/ application[apiKey[k].application].archived)

DeadKeysStayDead ==
    [][\A k \in ApiKey : DeadKey(k) =>
          /\ DeadKey(k)'
          /\ \A v \in Visitor : visit[v] = Away => visit'[v].apiKey # k
      ]_tenancyVars
=============================================================================
