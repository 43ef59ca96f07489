---------------------------- MODULE Authentication ----------------------------
(***************************************************************************)
(* Signing in to the dashboard: one account, the lock that wrong passwords *)
(* put on it, and the sessions that right ones establish.                  *)
(*                                                                         *)
(* A sign-in reads the account, spends the time a password hash takes, and *)
(* writes what it concluded from what it read; a request reads its session *)
(* and slides the idle window with a second statement.  Between the two    *)
(* anything else may happen, and a process may die there.                  *)
(*                                                                         *)
(* A definition that stands just before the one it resembles, and that     *)
(* nothing uses, is a mistake that one could have.                         *)
(***************************************************************************)
EXTENDS Integers, FiniteSets

CONSTANTS
    Guard,              \* handlers of sign-ins and of the dashboard's requests
    MaxFailedLogins,    \* MAXIMUM_FAILED_LOGINS
    Lockout,            \* LOCKOUT_MINUTES
    IdleLifetime, AbsoluteLifetime,
    MaxTokens,          \* bound: sessions ever established
    MaxTries,           \* bound: wrong passwords counted by the model
    Closing             \* bound: the last instant

Token == 1 .. MaxTokens
Time  == 0 .. Closing

ASSUME AuthenticationAssumption ==
    /\ IsFiniteSet(Guard) /\ Guard # {}
    /\ MaxFailedLogins \in Nat \ {0} /\ Lockout \in Nat \ {0}
    /\ IdleLifetime \in Nat \ {0} /\ AbsoluteLifetime \in Nat \ {0}
    /\ MaxTokens \in Nat /\ MaxTries \in Nat /\ Closing \in Nat

VARIABLES
    hour,           \* the clock
    account,        \* failed_login_count and locked_until, 0 for null
    signIn,         \* the sessions: NoSession where none was established
    guard,          \* what each handler has read
    tries           \* wrong passwords checked since the last right one

authVars == <<hour, account, signIn, guard, tries>>

NoSession == [idle |-> 0, absolute |-> 0, revoked |-> FALSE]
Resting   == [doing |-> "nothing", at |-> 0, failed |-> 0, token |-> 0, idle |-> 0]

Doing == {"nothing", "hashing", "establishing", "touching", "revoking"}

AuthInit ==
    /\ hour = 0
    /\ account = [failed |-> 0, lockedUntil |-> 0]
    /\ signIn = [t \in Token |-> NoSession]
    /\ guard = [g \in Guard |-> Resting]
    /\ tries = 0

At(g, doing) == guard[g].doing = doing

Rest(g) == guard' = [guard EXCEPT ![g] = Resting]

-----------------------------------------------------------------------------
Locked == account.lockedUntil > hour

(* login reads the account; a locked one is turned away at once.           *)
ReadAccount(g) ==
    /\ At(g, "nothing")
    /\ ~Locked
    /\ guard' = [guard EXCEPT ![g] =
           [Resting EXCEPT !.doing = "hashing", !.at = hour, !.failed = account.failed]]
    /\ UNCHANGED <<hour, account, signIn, tries>>

(* recordFailedLogin counts in the database, and locks by what was read.    *)
FailureStored(seen) ==
    [failed |-> seen.failed + 1,
     lockedUntil |-> IF seen.failed + 1 >= MaxFailedLogins THEN seen.at + Lockout ELSE 0]

Failure(seen) ==
    [failed |-> account.failed + 1,
     lockedUntil |-> IF seen.failed + 1 >= MaxFailedLogins THEN seen.at + Lockout ELSE 0]

WrongPassword(g) ==
    /\ At(g, "hashing")
    /\ tries < MaxTries /\ tries' = tries + 1
    /\ account' = Failure(guard[g])
    /\ Rest(g)
    /\ UNCHANGED <<hour, signIn>>

(* recordSuccessfulLogin                                                   *)
RightPassword(g) ==
    /\ At(g, "hashing")
    /\ tries' = 0
    /\ account' = [failed |-> 0, lockedUntil |-> 0]
    /\ guard' = [guard EXCEPT ![g].doing = "establishing"]
    /\ UNCHANGED <<hour, signIn>>

Earlier(x, y) == IF x < y THEN x ELSE y

EstablishSession(g) ==
    /\ At(g, "establishing")
    /\ \E t \in Token :
          /\ signIn[t] = NoSession
          /\ \A u \in Token : u < t => signIn[u] # NoSession
          /\ signIn' = [signIn EXCEPT ![t] =
                 [idle |-> Earlier(hour + IdleLifetime, hour + AbsoluteLifetime),
                  absolute |-> hour + AbsoluteLifetime, revoked |-> FALSE]]
    /\ Rest(g)
    /\ UNCHANGED <<hour, account, tries>>

-----------------------------------------------------------------------------
(* findActiveByTokenHash                                                   *)
Active(t) == ~signIn[t].revoked /\ signIn[t].idle > hour /\ signIn[t].absolute > hour

(* resolveSession: the next idle expiry is reckoned from what was read.     *)
NextIdle(t) == Earlier(hour + IdleLifetime, signIn[t].absolute)

ResolveCookie(g, t) ==
    /\ At(g, "nothing")
    /\ Active(t)
    /\ guard' = [guard EXCEPT ![g] =
           [Resting EXCEPT !.doing = "touching", !.token = t, !.idle = NextIdle(t)]]
    /\ UNCHANGED <<hour, account, signIn, tries>>

(* touch, and on to the request, which may be the one that signs out.       *)
TouchAll(g) ==
    /\ At(g, "touching")
    /\ signIn' = [signIn EXCEPT ![guard[g].token].idle = guard[g].idle,
                                ![guard[g].token].revoked = FALSE]
    /\ \/ Rest(g)
       \/ guard' = [guard EXCEPT ![g].doing = "revoking"]
    /\ UNCHANGED <<hour, account, tries>>

Touch(g) ==
    /\ At(g, "touching")
    /\ signIn' = [signIn EXCEPT ![guard[g].token].idle = guard[g].idle]
    /\ \/ Rest(g)
       \/ guard' = [guard EXCEPT ![g].doing = "revoking"]
    /\ UNCHANGED <<hour, account, tries>>

Revoke(g) ==
    /\ At(g, "revoking")
    /\ signIn' = [signIn EXCEPT ![guard[g].token].revoked = TRUE]
    /\ Rest(g)
    /\ UNCHANGED <<hour, account, tries>>

(* The process dies, or the statement fails.                               *)
Abandon(g) ==
    /\ ~At(g, "nothing")
    /\ Rest(g)
    /\ UNCHANGED <<hour, account, signIn, tries>>

Strike ==
    /\ hour < Closing
    /\ hour' = hour + 1
    /\ UNCHANGED <<account, signIn, guard, tries>>

AuthNext ==
    \/ \E g \in Guard :
          \/ ReadAccount(g) \/ WrongPassword(g) \/ RightPassword(g) \/ EstablishSession(g)
          \/ \E t \in Token : ResolveCookie(g, t)
          \/ Touch(g) \/ Revoke(g) \/ Abandon(g)
    \/ Strike

AuthSpec == AuthInit /\ [][AuthNext]_authVars

-----------------------------------------------------------------------------
AuthTypeOK ==
    /\ hour \in Time
    /\ account \in [failed : Nat, lockedUntil : Nat]
    /\ signIn \in [Token -> [idle : Nat, absolute : Nat, revoked : BOOLEAN]]
    /\ guard \in [Guard -> [doing : Doing, at : Time, failed : Nat, token : 0 .. MaxTokens,
                           idle : Nat]]
    /\ \A g \in Guard : guard[g].doing \in {"touching", "revoking"} => guard[g].token \in Token
    /\ tries \in 0 .. MaxTries

(* "Concurrent attempts cannot each read the same count and overwrite one  *)
(* another", although each locks, or unlocks, by a count that is old: with  *)
(* n handlers, so many sign-ins as would lock the account, and n - 1, may   *)
(* have read a count too low to lock it; and in each lockout the first n,   *)
(* then n - 1 that an old count lets through, and so on, are checked.       *)
GuessesBounded ==
    LET n == Cardinality(Guard)
    IN  tries <= (MaxFailedLogins - 1) + (n - 1) + ((n * (n + 1)) \div 2) * (1 + hour \div Lockout)

(* A session that was signed out, or whose absolute lifetime is over, is so *)
(* for good, whatever requests were still on their way through it; and none *)
(* is kept alive past its absolute lifetime.                               *)
Over(t) == signIn[t] # NoSession /\ (signIn[t].revoked \/ signIn[t].absolute <= hour)

OverForGood == [][\A t \in Token : Over(t) => Over(t)']_authVars
=============================================================================
