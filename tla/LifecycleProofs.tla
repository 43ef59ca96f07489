---------------------------- MODULE LifecycleProofs ----------------------------
(***************************************************************************)
(* That a creation request takes effect whole, once, and under its key for *)
(* good; that a repeated one is answered with all of it; and that nothing  *)
(* a notification refers to is deleted: for every number of clients,       *)
(* callers, connections, keys and requests, and whatever is lost.          *)
(***************************************************************************)
EXTENDS Lifecycle, WellFoundedInduction, TLAPS

(***************************************************************************)
(* The inductive invariant, in two halves: what transactions have written, *)
(* which no request on a connection touches, and the connections.          *)
(***************************************************************************)

BooksTypeOK ==
    /\ notification \subseteq Notification
    /\ job \subseteq Identifier
    /\ key \in [Key -> KeyRecord \cup {None}]
    /\ CreationTypeOK

(* How far a transaction has come, and what it has written by then: it has  *)
(* gone through its recipients before it commits, and a key it claims is    *)
(* one that nobody has.                                                    *)
DraftFits(d) ==
    /\ d.number <= requests
    /\ d.stage \in {"resolving", "claiming", "replayed", "refused"} =>
          d.written = 0 /\ d.claim = None
    /\ d.stage \in {"claiming", "writing", "completing", "committing"} =>
          /\ d.session \in Session
          /\ d.payload.session # None => d.session = d.payload.session
    /\ d.stage = "writing" => d.written < d.payload.size
    /\ d.stage \in {"completing", "committing"} => d.written = d.payload.size
    /\ d.stage \in {"writing", "completing", "committing"} => (d.key = None <=> d.claim = None)
    /\ d.stage = "completing" => d.claim # None
    /\ d.stage = "committing" => d.claim \in {None, "COMPLETED"}
    /\ d.claim # None => d.key \in Key /\ key[d.key] = None

DraftsFit == \A c \in Client : draft[c] # None => DraftFits(draft[c])

(* No two open transactions claim one key; no two requests have one number, *)
(* and none has that of a notification already there.                      *)
ClaimsApart ==
    \A c, d \in Client :
        c # d /\ draft[c] # None /\ draft[d] # None
        /\ draft[c].claim # None /\ draft[d].claim # None
        => draft[c].key # draft[d].key

NumbersApart ==
    /\ \A n \in notification : n.id[1] <= requests
    /\ \A c \in Client : draft[c] # None =>
          \A n \in notification : n.id[1] # draft[c].number
    /\ \A c, d \in Client :
          c # d /\ draft[c] # None /\ draft[d] # None => draft[c].number # draft[d].number

(* A key has recorded all that was made under it, by one request for what   *)
(* it was claimed for.                                                     *)
KeyTells(k) ==
    /\ key[k].resource = {n.id : n \in {m \in notification : m.key = k}}
    /\ \E number \in 1 .. MaxRequests :
          /\ key[k].resource = {number} \X (1 .. key[k].payload.size)
          /\ \A n \in Made(number) : n.payload = key[k].payload

KeysTell == \A k \in Key : key[k] # None => KeyTells(k)

(* What is answered to a repeated request is what its key records.          *)
ReplyFits(d) ==
    /\ d.key \in Key /\ key[d.key] # None
    /\ key[d.key].payload = d.payload
    /\ key[d.key].resource = d.result

RepliesFit == \A c \in Client : In(c, "replayed") => ReplyFits(draft[c])

(* A notification is bound to the connection its request named, if any.     *)
AsNamed == \A n \in notification : n.payload.session # None => n.session = n.payload.session

Books ==
    /\ BooksTypeOK /\ AllOrNothing /\ DraftsFit /\ ClaimsApart /\ NumbersApart /\ KeysTell
    /\ RepliesFit /\ AsNamed

(* A connection that a notification refers to, or is about to, is there.    *)
Anchored ==
    /\ \A n \in notification : Listed(n.session)
    /\ \A c \in Client : pin[c] # None => Listed(pin[c])
    /\ \A c \in Client :
          draft[c] # None /\ draft[c].stage \in {"writing", "completing", "committing"}
          /\ draft[c].written > 0 => pin[c] = draft[c].session

(* Whatever a call is to record, or to fall back on, is a record.           *)
CallFits(h) ==
    /\ call[h].stage \in {"rereading", "recording"} => call[h].seen \in Row
    /\ call[h].op \in {"get", "logout"} /\ call[h].stage = "asking" => call[h].seen \in Row
    /\ call[h].stage = "counting notifications" => call[h].op = "delete"
    /\ call[h].old => History(call[h].session) /\ call[h].stage = "counting notifications"

CallsFit == \A h \in Caller : call[h] # None => CallFits(h)

Rows ==
    /\ row \in [Session -> Row \cup {None}]
    /\ created \in 0 .. MaxSessions
    /\ \A s \in Session : s > created => row[s] = None
    /\ pin \in [Client -> Session \cup {None}]
    /\ SessionsTypeOK /\ Anchored /\ CallsFit

LifecycleInv == Books /\ Rows

(***************************************************************************)
(* The oldest of some connections, and the newest, is one of them.         *)
(***************************************************************************)

(* There is no infinite descent below a number. *)
LEMMA LeastOf == ASSUME NEW S, S \subseteq Nat, S # {} PROVE \E x \in S : \A y \in S : x <= y
<1> DEFINE R == OpToRel(<, Nat)
<1>1. \A i, j \in Nat : i < j => <<i, j>> \in R
  BY DEF OpToRel
<1>2. IsWellFoundedOn(R, Nat)
  BY NatLessThanWellFounded
<1> HIDE DEF R
<1>3. PICK x \in S : \A y \in S : ~ (<<y, x>> \in R)
  BY <1>2, WFMin
<1>4. ASSUME NEW y \in S PROVE ~ (y < x)
  BY <1>1, <1>3, Zenon
<1>5. QED
  BY <1>4

LEMMA GreatestOf ==
    ASSUME NEW b \in Nat, NEW S, S \subseteq 0 .. b, S # {}
    PROVE  \E x \in S : \A y \in S : x >= y
<1> DEFINE T == {n \in Nat : \E s \in S : n + s = b}
<1>1. T # {}
  <2>1. PICK s \in S : TRUE
    OBVIOUS
  <2>2. b - s \in Nat /\ (b - s) + s = b
    OBVIOUS
  <2>3. QED
    BY <2>1, <2>2
<1>2. PICK t \in T : \A y \in T : t <= y
  <2>1. T \subseteq Nat
    OBVIOUS
  <2> HIDE DEF T
  <2>2. QED
    BY <2>1, <1>1, LeastOf
<1>3. PICK x \in S : t + x = b
  OBVIOUS
<1>4. \A y \in S : b - y \in T
  OBVIOUS
<1>5. QED
  BY <1>2, <1>3, <1>4

LEMMA MinIsOne == ASSUME NEW S, S \subseteq Session, S # {} PROVE Min(S) \in S
<1>1. S \subseteq Nat
  BY DEF Session
<1>2. \E x \in S : \A y \in S : x <= y
  BY <1>1, LeastOf
<1>3. QED
  BY <1>2 DEF Min

LEMMA MaxIsOne == ASSUME NEW S, S \subseteq Session, S # {} PROVE Max(S) \in S
<1>1. MaxSessions \in Nat /\ S \subseteq 0 .. MaxSessions
  BY TablesAssumption DEF Session
<1>2. \E x \in S : \A y \in S : x >= y
  BY <1>1, GreatestOf
<1>3. QED
  BY <1>2 DEF Max

(* A connection is found that is there, the one asked for if one is, and    *)
(* one is found if there is any to find.                                   *)
LEMMA ResolvedFits ==
    ASSUME NEW requested \in Session \cup {None}
    PROVE  /\ Resolved(requested) # None =>
                /\ Resolved(requested) \in Session /\ Listed(Resolved(requested))
                /\ requested # None => Resolved(requested) = requested
           /\ requested \in Session /\ Listed(requested) => Resolved(requested) # None
           /\ requested = None /\ (\E s \in Session : Listed(s)) => Resolved(requested) # None
<1> DEFINE sessions   == {s \in Session : Listed(s)}
           connected  == {s \in sessions : CanSessionSend(s)}
           connecting == {s \in sessions : IsSessionConnecting(s)}
<1>1. None \notin Session
  BY TablesAssumption
<1>2. /\ sessions # {} => Max(sessions) \in sessions
      /\ connected # {} => Min(connected) \in connected
      /\ connecting # {} => Max(connecting) \in connecting
  <2>1. sessions \subseteq Session /\ connected \subseteq Session /\ connecting \subseteq Session
    OBVIOUS
  <2> HIDE DEF sessions, connected, connecting
  <2>2. QED
    BY <2>1, MinIsOne, MaxIsOne
<1>3. /\ connected \subseteq sessions /\ connecting \subseteq sessions
      /\ sessions \subseteq Session /\ \A s \in sessions : Listed(s)
      /\ \A s \in Session : Listed(s) => s \in sessions
  OBVIOUS
<1>4. Resolved(requested) =
          IF requested # None THEN IF requested \in sessions THEN requested ELSE None
          ELSE IF connected # {} THEN Min(connected)
          ELSE IF connecting # {} THEN Max(connecting)
          ELSE IF sessions # {} THEN Max(sessions)
          ELSE None
  BY DEF Resolved
<1> HIDE DEF sessions, connected, connecting
<1>5. CASE requested # None
  <2>1. Resolved(requested) = IF requested \in sessions THEN requested ELSE None
    BY <1>4, <1>5
  <2>2. QED
    BY <1>1, <1>3, <1>5, <2>1
<1>6. CASE requested = None
  <2>1. CASE connected # {}
    <3>1. Resolved(requested) = Min(connected)
      BY <1>4, <1>6, <2>1
    <3>2. QED
      BY <1>1, <1>2, <1>3, <1>6, <2>1, <3>1
  <2>2. CASE connected = {} /\ connecting # {}
    <3>1. Resolved(requested) = Max(connecting)
      BY <1>4, <1>6, <2>2
    <3>2. QED
      BY <1>1, <1>2, <1>3, <1>6, <2>2, <3>1
  <2>3. CASE connected = {} /\ connecting = {} /\ sessions # {}
    <3>1. Resolved(requested) = Max(sessions)
      BY <1>4, <1>6, <2>3
    <3>2. QED
      BY <1>1, <1>2, <1>3, <1>6, <2>3, <3>1
  <2>4. CASE connected = {} /\ connecting = {} /\ sessions = {}
    <3>1. Resolved(requested) = None
      BY <1>4, <1>6, <2>4
    <3>2. QED
      BY <1>1, <1>3, <1>6, <2>4, <3>1
  <2>5. QED
    BY <2>1, <2>2, <2>3, <2>4
<1>7. QED
  BY <1>5, <1>6

(***************************************************************************)
(* What transactions have written.                                         *)
(***************************************************************************)

LEMMA Apart ==
    /\ None \notin Session /\ None \notin Key /\ None \notin KeyRecord /\ None \notin Row
    /\ None \notin Account /\ None \notin KeyState
    /\ MaxSessions \in Nat /\ MaxRequests \in Nat
    /\ \A p \in Payload : p.size \in {1, 2} /\ p.session \in Session \cup {None}
BY TablesAssumption DEF AnyPayload

LEMMA BooksInit == TablesInit /\ CreationInit => Books
<1> SUFFICES ASSUME TablesInit, CreationInit PROVE Books
  OBVIOUS
<1>1. /\ notification = {} /\ job = {} /\ requests = 0
      /\ key = [k \in Key |-> None] /\ draft = [c \in Client |-> None]
  BY DEF TablesInit, CreationInit
<1>2. BooksTypeOK
  BY <1>1, Apart DEF BooksTypeOK, CreationTypeOK
<1>3. (\A k \in Key : key[k] = None) /\ (\A c \in Client : draft[c] = None)
  BY <1>1
<1>4. AllOrNothing
  BY <1>1, <1>3 DEF AllOrNothing
<1>5. DraftsFit /\ ClaimsApart /\ RepliesFit
  BY <1>3 DEF DraftsFit, ClaimsApart, RepliesFit, In
<1>6. NumbersApart /\ KeysTell /\ AsNamed
  BY <1>1, <1>3 DEF NumbersApart, KeysTell, AsNamed
<1>7. QED
  BY <1>2, <1>4, <1>5, <1>6 DEF Books

(* A request that gets on without a commit, begins or ends: its draft       *)
(* changes, and nobody else's; it takes no number and no key that another   *)
(* has.                                                                    *)
Takes(c, d) ==
    /\ \/ draft[c] # None /\ d.number = draft[c].number
       \/ d.number = requests + 1 /\ requests' = requests + 1
    /\ d.claim # None =>
          \/ draft[c] # None /\ draft[c].claim # None /\ draft[c].key = d.key
          \/ \A e \in Client \ {c} :
                draft[e] # None /\ draft[e].claim # None => draft[e].key # d.key

LEMMA DraftStep ==
    ASSUME Books, NEW c \in Client, NEW d \in Draft \cup {None},
           draft' = [draft EXCEPT ![c] = d],
           UNCHANGED <<notification, job, key>>,
           requests' \in 0 .. MaxRequests, requests <= requests',
           d # None => DraftFits(d)' /\ Takes(c, d),
           d # None /\ d.stage = "replayed" => ReplyFits(d)
    PROVE  Books'
<1> USE DEF Books
<1>1. /\ draft \in [Client -> Draft \cup {None}] /\ requests \in Nat /\ requests' \in Nat
      /\ \A e \in Client : draft[e] # None => draft[e].number \in Nat
  BY Apart DEF BooksTypeOK, CreationTypeOK, Draft
<1>2. draft'[c] = d /\ \A e \in Client : e # c => draft'[e] = draft[e]
  BY <1>1
<1>3. BooksTypeOK'
  <2>1. draft' \in [Client -> Draft \cup {None}]
    BY <1>1
  <2>2. QED
    BY <2>1 DEF BooksTypeOK, CreationTypeOK
<1>4. AllOrNothing' /\ AsNamed' /\ KeysTell'
  <2>1. AllOrNothing'
    BY DEF AllOrNothing, Made
  <2>2. AsNamed' /\ KeysTell'
    BY DEF AsNamed, KeysTell, KeyTells, Made
  <2>3. QED
    BY <2>1, <2>2
<1>5. DraftsFit'
  <2>1. ASSUME NEW e \in Client, e # c, draft[e] # None
        PROVE  DraftFits(draft[e])'
    <3>1. DraftFits(draft[e]) /\ draft[e].number \in Nat
      BY <1>1, <2>1 DEF DraftsFit
    <3>2. draft'[e] = draft[e]
      BY <1>2, <2>1
    <3>3. draft[e].number <= requests'
      BY <1>1, <3>1 DEF DraftFits
    <3>4. QED
      BY <3>1, <3>2, <3>3 DEF DraftFits
  <2>2. ASSUME NEW e \in Client, draft'[e] # None
        PROVE  DraftFits(draft[e])'
    <3>1. CASE e = c
      BY <1>2, <2>2, <3>1 DEF DraftFits
    <3>2. CASE e # c
      BY <1>2, <2>1, <2>2, <3>2
    <3>3. QED
      BY <3>1, <3>2
  <2>3. QED
    BY <2>2 DEF DraftsFit
<1>6. ClaimsApart'
  <2>1. ASSUME NEW e \in Client \ {c}, draft[e] # None, draft[e].claim # None,
               d # None, d.claim # None
        PROVE  draft[e].key # d.key
    BY <2>1 DEF Takes, ClaimsApart
  <2>2. QED
    BY <1>2, <2>1 DEF ClaimsApart
<1>7. NumbersApart'
  <2>1. \A n \in notification : n.id[1] \in Nat /\ n.id[1] <= requests
    BY Apart DEF BooksTypeOK, Notification, Identifier, NumbersApart
  <2>2. \A n \in notification' : n.id[1] <= requests'
    BY <1>1, <2>1
  <2>3. ASSUME d # None
        PROVE  /\ \A n \in notification : n.id[1] # d.number
               /\ \A e \in Client : e # c /\ draft[e] # None => draft[e].number # d.number
    <3>1. CASE draft[c] # None /\ d.number = draft[c].number
      BY <3>1 DEF NumbersApart
    <3>2. CASE d.number = requests + 1
      <4>1. \A n \in notification : n.id[1] # d.number
        BY <1>1, <2>1, <3>2
      <4>2. \A e \in Client : draft[e] # None => draft[e].number <= requests
        BY DEF DraftsFit, DraftFits
      <4>3. QED
        BY <1>1, <3>2, <4>1, <4>2
    <3>3. QED
      BY <2>3, <3>1, <3>2 DEF Takes
  <2>4. \A e \in Client : draft'[e] # None =>
            \A n \in notification' : n.id[1] # draft'[e].number
    BY <1>2, <2>3 DEF NumbersApart
  <2>5. \A e, f \in Client :
            e # f /\ draft'[e] # None /\ draft'[f] # None => draft'[e].number # draft'[f].number
    BY <1>2, <2>3 DEF NumbersApart
  <2>6. QED
    BY <2>2, <2>4, <2>5 DEF NumbersApart
<1>8. RepliesFit'
  <2>1. ASSUME NEW e \in Client, In(e, "replayed")'
        PROVE  ReplyFits(draft'[e])
    <3>1. CASE e = c
      BY <1>2, <2>1, <3>1 DEF In
    <3>2. CASE e # c
      <4>1. In(e, "replayed") /\ draft'[e] = draft[e]
        BY <1>2, <2>1, <3>2 DEF In
      <4>2. QED
        BY <4>1 DEF RepliesFit
    <3>3. QED
      BY <3>1, <3>2
  <2>2. QED
    BY <2>1 DEF RepliesFit, ReplyFits
<1>9. QED
  BY <1>3, <1>4, <1>5, <1>6, <1>7, <1>8

LEMMA PostBooks ==
    ASSUME Books, NEW c \in Client, NEW p \in Payload, NEW k \in Key \cup {None}, Post(c, p, k)
    PROVE  Books'
<1>1. PICK d : d = [payload |-> p, key |-> k, number |-> requests + 1, stage |-> "resolving",
                    session |-> None, written |-> 0, claim |-> None, result |-> {}]
  OBVIOUS
<1>2. /\ draft' = [draft EXCEPT ![c] = d] /\ UNCHANGED <<notification, job, key>>
      /\ requests' = requests + 1 /\ requests < MaxRequests /\ requests \in Nat
  BY <1>1 DEF Post, tables, Books, BooksTypeOK, CreationTypeOK
<1>3. requests' \in 0 .. MaxRequests /\ requests + 1 \in 1 .. MaxRequests /\ requests <= requests'
  BY <1>2, Apart
<1>4. d \in Draft
  BY <1>1, <1>3 DEF Draft, InTransaction
<1>5. d.number = requests + 1 /\ d.stage = "resolving" /\ d.written = 0 /\ d.claim = None
  BY <1>1
<1>6. DraftFits(d)'
  BY <1>2, <1>5 DEF DraftFits
<1>7. Takes(c, d) /\ d.stage # "replayed"
  BY <1>2, <1>5 DEF Takes
<1>8. QED
  BY <1>2, <1>3, <1>4, <1>6, <1>7, DraftStep

(* What is known of a transaction that is about to take a step. *)
LEMMA AtWork ==
    ASSUME Books, NEW c \in Client, draft[c] # None
    PROVE  /\ draft[c] \in Draft /\ DraftFits(draft[c]) /\ requests \in 0 .. MaxRequests
           /\ draft \in [Client -> Draft \cup {None}]
           /\ draft[c].payload \in Payload /\ draft[c].key \in Key \cup {None}
           /\ draft[c].number \in 1 .. MaxRequests
           /\ draft[c].session \in Session \cup {None} /\ draft[c].written \in 0 .. 2
           /\ draft[c].claim \in KeyState \cup {None} /\ draft[c].result \in SUBSET Identifier
<1>1. draft[c] \in Draft /\ DraftFits(draft[c]) /\ requests \in 0 .. MaxRequests
      /\ draft \in [Client -> Draft \cup {None}]
  BY DEF Books, BooksTypeOK, CreationTypeOK, DraftsFit
<1>2. QED
  BY <1>1 DEF Draft

(* A step that changes nothing but how far the draft has come. *)
LEMMA OwnDraftStep ==
    ASSUME Books, NEW c \in Client, draft[c] # None, NEW d \in Draft,
           draft' = [draft EXCEPT ![c] = d], UNCHANGED <<notification, job, key, requests>>,
           DraftFits(d), d.number = draft[c].number, d.key = draft[c].key,
           d.claim # None =>
              draft[c].claim # None \/ \A e \in Client \ {c} :
                draft[e] # None /\ draft[e].claim # None => draft[e].key # d.key,
           d.stage = "replayed" => ReplyFits(d)
    PROVE  Books'
<1>1. requests' \in 0 .. MaxRequests /\ requests <= requests'
  BY AtWork
<1>2. DraftFits(d)'
  BY DEF DraftFits
<1>3. Takes(c, d)
  BY DEF Takes
<1>4. QED
  BY <1>1, <1>2, <1>3, DraftStep

LEMMA GoneBooks ==
    ASSUME Books, NEW c \in Client, draft' = [draft EXCEPT ![c] = None],
           UNCHANGED <<notification, job, key, requests>>
    PROVE  Books'
<1>1. requests' \in 0 .. MaxRequests /\ requests <= requests'
  BY DEF Books, BooksTypeOK, CreationTypeOK
<1>2. QED
  BY <1>1, DraftStep

LEMMA RefuseBooks ==
    ASSUME Books, NEW c \in Client, draft[c] # None, Refuse(c),
           UNCHANGED <<notification, job, key, requests>>
    PROVE  Books'
<1> DEFINE d == [draft[c] EXCEPT !.stage = "refused", !.written = 0, !.claim = None]
<1>1. draft[c] \in Draft /\ DraftFits(draft[c]) /\ draft \in [Client -> Draft \cup {None}]
  BY AtWork
<1>2. d \in Draft
  <2>1. 0 \in 0 .. 2 /\ "refused" \in InTransaction \cup {"replayed", "refused"}
        /\ None \in KeyState \cup {None}
    OBVIOUS
  <2>2. QED
    BY <1>1, <2>1 DEF Draft
<1>3. DraftFits(d) /\ d.number = draft[c].number /\ d.key = draft[c].key /\ d.claim = None
      /\ d.stage = "refused"
  BY <1>1 DEF DraftFits, Draft
<1>4. draft' = [draft EXCEPT ![c] = d]
  BY <1>1 DEF Refuse
<1> HIDE DEF d
<1>5. QED
  BY <1>2, <1>3, <1>4, OwnDraftStep

LEMMA ResolveBooks == ASSUME Books, NEW c \in Client, ResolveSession(c) PROVE Books'
<1> DEFINE s == Resolved(draft[c].payload.session)
           d == [draft[c] EXCEPT !.stage = "claiming", !.session = s]
<1>1. draft[c] # None /\ draft[c].stage = "resolving"
      /\ UNCHANGED <<notification, job, key, requests>>
  BY DEF ResolveSession, In
<1>2. /\ draft[c] \in Draft /\ DraftFits(draft[c]) /\ draft \in [Client -> Draft \cup {None}]
      /\ draft[c].payload.session \in Session \cup {None}
  BY <1>1, AtWork, Apart
<1>3. CASE s = None
  BY <1>1, <1>3, RefuseBooks DEF ResolveSession
<1>4. CASE s # None
  <2>1. s \in Session /\ (draft[c].payload.session # None => s = draft[c].payload.session)
    BY <1>2, <1>4, ResolvedFits
  <2> HIDE DEF s
  <2>2. d \in Draft
    BY <1>2, <2>1 DEF Draft, InTransaction
  <2>3. DraftFits(d) /\ d.number = draft[c].number /\ d.key = draft[c].key /\ d.claim = None
        /\ d.stage = "claiming"
    BY <1>1, <1>2, <2>1 DEF DraftFits, Draft
  <2>4. draft' = [draft EXCEPT ![c] = d]
    BY <1>2, <1>4 DEF ResolveSession, s
  <2> HIDE DEF d
  <2>5. QED
    BY <1>1, <2>2, <2>3, <2>4, OwnDraftStep
<1>5. QED
  BY <1>3, <1>4

LEMMA ClaimBooks == ASSUME Books, NEW c \in Client, ClaimIdempotencyKey(c) PROVE Books'
<1> DEFINE k == draft[c].key
<1>1. draft[c] # None /\ draft[c].stage = "claiming"
      /\ UNCHANGED <<notification, job, key, requests>>
  BY DEF ClaimIdempotencyKey, In
<1>2. /\ draft[c] \in Draft /\ DraftFits(draft[c]) /\ draft \in [Client -> Draft \cup {None}]
      /\ draft[c].written = 0 /\ draft[c].claim = None
      /\ draft[c].payload \in Payload /\ draft[c].payload.size \in {1, 2}
      /\ k \in Key \cup {None} /\ key \in [Key -> KeyRecord \cup {None}]
  <2>1. draft[c] \in Draft /\ DraftFits(draft[c]) /\ draft \in [Client -> Draft \cup {None}]
        /\ draft[c].payload \in Payload /\ k \in Key \cup {None}
    BY <1>1, AtWork
  <2>2. QED
    BY <1>1, <2>1, Apart DEF DraftFits, Books, BooksTypeOK
<1>3. CASE k = None
  <2> DEFINE d == [draft[c] EXCEPT !.stage = "writing"]
  <2>1. d \in Draft
    BY <1>2 DEF Draft, InTransaction
  <2>2. DraftFits(d) /\ d.number = draft[c].number /\ d.key = draft[c].key /\ d.claim = None
        /\ d.stage = "writing"
    BY <1>1, <1>2, <1>3 DEF DraftFits, Draft
  <2>3. draft' = [draft EXCEPT ![c] = d]
    BY <1>2, <1>3 DEF ClaimIdempotencyKey, Advance
  <2> HIDE DEF d
  <2>4. QED
    BY <1>1, <2>1, <2>2, <2>3, OwnDraftStep
<1>4. CASE k # None /\ ~Awaited(c) /\ key[k] = None
  <2> DEFINE d == [draft[c] EXCEPT !.stage = "writing", !.claim = "IN_FLIGHT"]
  <2>1. d \in Draft
    BY <1>2 DEF Draft, InTransaction, KeyState
  <2>2. /\ d.number = draft[c].number /\ d.key = draft[c].key /\ d.stage = "writing"
        /\ d.claim = "IN_FLIGHT" /\ d.written = 0 /\ d.session = draft[c].session
        /\ d.payload = draft[c].payload
    BY <1>2 DEF Draft
  <2>3. d.claim # None
    BY <2>2, Apart DEF KeyState
  <2>4. DraftFits(d)
    BY <1>1, <1>2, <1>4, <2>2, <2>3 DEF DraftFits
  <2>5. ASSUME NEW e \in Client \ {c}, draft[e] # None, draft[e].claim # None
        PROVE  draft[e].key # d.key
    <3>1. draft[e] \in Draft /\ DraftFits(draft[e])
      BY <2>5, AtWork
    <3>2. draft[e].stage \in InTransaction
      BY <2>5, <3>1 DEF Draft, DraftFits
    <3>3. QED
      BY <1>4, <2>2, <2>5, <3>2 DEF Awaited
  <2>6. draft' = [draft EXCEPT ![c] = d]
    BY <1>2, <1>4 DEF ClaimIdempotencyKey
  <2> HIDE DEF d
  <2>7. QED
    BY <1>1, <2>1, <2>2, <2>4, <2>5, <2>6, OwnDraftStep
<1>5. CASE k # None /\ key[k] # None
  <2>1. k \in Key /\ key[k] \in KeyRecord
    BY <1>2, <1>5
  <2>2. CASE Refuse(c)
    BY <1>1, <2>2, RefuseBooks
  <2>3. CASE /\ key[k].payload = draft[c].payload
             /\ draft' = [draft EXCEPT ![c].stage = "replayed", ![c].result = key[k].resource]
    <3> DEFINE d == [draft[c] EXCEPT !.stage = "replayed", !.result = key[k].resource]
    <3>1. key[k].resource \in SUBSET Identifier
      BY <2>1 DEF KeyRecord
    <3>2. d \in Draft
      BY <1>2, <3>1 DEF Draft
    <3>3. /\ d.number = draft[c].number /\ d.key = draft[c].key /\ d.stage = "replayed"
          /\ d.claim = None /\ d.written = 0 /\ d.payload = draft[c].payload
          /\ d.result = key[k].resource
      BY <1>2 DEF Draft
    <3>4. DraftFits(d)
      BY <1>1, <1>2, <3>3 DEF DraftFits
    <3>5. ReplyFits(d)
      BY <1>5, <2>1, <2>3, <3>3 DEF ReplyFits
    <3>6. draft' = [draft EXCEPT ![c] = d]
      BY <1>2, <2>3
    <3> HIDE DEF d
    <3>7. QED
      BY <1>1, <3>2, <3>3, <3>4, <3>5, <3>6, OwnDraftStep
  <2>4. QED
    BY <1>5, <2>1, <2>2, <2>3 DEF ClaimIdempotencyKey
<1>6. QED
  BY <1>3, <1>4, <1>5 DEF ClaimIdempotencyKey

LEMMA WriteBooks == ASSUME Books, NEW c \in Client, WriteNotification(c) PROVE Books'
<1> DEFINE next == IF draft[c].written + 1 < draft[c].payload.size THEN "writing"
                   ELSE IF draft[c].claim = None THEN "committing"
                   ELSE "completing"
           d == [draft[c] EXCEPT !.written = @ + 1, !.stage = next]
<1>1. draft[c] # None /\ draft[c].stage = "writing"
      /\ UNCHANGED <<notification, job, key, requests>>
  BY DEF WriteNotification, In
<1>2. /\ draft[c] \in Draft /\ DraftFits(draft[c]) /\ draft \in [Client -> Draft \cup {None}]
      /\ draft[c].payload.size \in {1, 2} /\ draft[c].written \in 0 .. 2
  <2>1. draft[c] \in Draft /\ DraftFits(draft[c]) /\ draft \in [Client -> Draft \cup {None}]
        /\ draft[c].payload \in Payload /\ draft[c].written \in 0 .. 2
    BY <1>1, AtWork
  <2>2. QED
    BY <2>1, Apart
<1>3. draft[c].written < draft[c].payload.size
  BY <1>1, <1>2 DEF DraftFits
<1>4. CASE ~Listed(draft[c].session)
  BY <1>1, <1>4, RefuseBooks DEF WriteNotification
<1>5. CASE Listed(draft[c].session)
  <2>1. draft[c].written + 1 \in 0 .. 2 /\ next \in InTransaction
    BY <1>2, <1>3 DEF InTransaction
  <2>2. /\ next = "writing" => draft[c].written + 1 < draft[c].payload.size
        /\ next \in {"completing", "committing"} => draft[c].written + 1 = draft[c].payload.size
        /\ next = "completing" => draft[c].claim # None
        /\ next = "committing" => draft[c].claim = None
        /\ next \in {"writing", "completing", "committing"}
    BY <1>2, <1>3
  <2> HIDE DEF next
  <2>3. d \in Draft
    BY <1>2, <2>1 DEF Draft
  <2>4. /\ d.number = draft[c].number /\ d.key = draft[c].key /\ d.stage = next
        /\ d.claim = draft[c].claim /\ d.written = draft[c].written + 1
        /\ d.payload = draft[c].payload /\ d.session = draft[c].session
    BY <1>2 DEF Draft
  <2>5. DraftFits(d)
    BY <1>1, <1>2, <2>2, <2>4 DEF DraftFits
  <2>6. draft' = [draft EXCEPT ![c] = d]
    BY <1>2, <1>5 DEF WriteNotification, next
  <2>7. d.stage # "replayed"
    BY <2>2, <2>4
  <2> HIDE DEF d
  <2>8. QED
    BY <1>1, <2>3, <2>4, <2>5, <2>6, <2>7, OwnDraftStep
<1>6. QED
  BY <1>4, <1>5

LEMMA CompleteBooks == ASSUME Books, NEW c \in Client, Complete(c) PROVE Books'
<1> DEFINE d == [draft[c] EXCEPT !.stage = "committing", !.claim = "COMPLETED"]
<1>1. draft[c] # None /\ draft[c].stage = "completing"
      /\ UNCHANGED <<notification, job, key, requests>>
  BY DEF Complete, In, tables
<1>2. /\ draft[c] \in Draft /\ DraftFits(draft[c]) /\ draft \in [Client -> Draft \cup {None}]
  BY <1>1, AtWork
<1>3. d \in Draft
  BY <1>2 DEF Draft, InTransaction, KeyState
<1>4. /\ d.number = draft[c].number /\ d.key = draft[c].key /\ d.stage = "committing"
      /\ d.claim = "COMPLETED" /\ d.written = draft[c].written
      /\ d.payload = draft[c].payload /\ d.session = draft[c].session
  BY <1>2 DEF Draft
<1>5. draft[c].claim # None /\ d.claim # None
  BY <1>1, <1>2, <1>4, Apart DEF DraftFits, KeyState
<1>6. DraftFits(d)
  BY <1>1, <1>2, <1>4, <1>5 DEF DraftFits
<1>7. draft' = [draft EXCEPT ![c] = d]
  BY <1>2 DEF Complete
<1> HIDE DEF d
<1>8. QED
  BY <1>1, <1>3, <1>4, <1>5, <1>6, <1>7, OwnDraftStep

(* What a commit makes of the books, in terms that the proofs can use: d is *)
(* the draft, own the identifiers of what it made, new the notifications.   *)
CommitsAs(c, d, own, new) ==
    /\ d = draft[c] /\ draft[c] # None /\ DraftFits(d)
    /\ own = {d.number} \X (1 .. d.payload.size)
    /\ own # {} /\ \A i \in own : i[1] = d.number
    /\ \A n \in new : n.id \in own /\ n.session = d.session /\ n.key = d.key
                      /\ n.payload = d.payload
    /\ \A i \in own : \E n \in new : n.id = i
    /\ {n.id : n \in new} = own
    /\ notification' = notification \cup new
    /\ job' = job \cup own
    /\ d.claim = None => d.key = None /\ key' = key
    /\ d.claim # None =>
          /\ d.key \in Key
          /\ key' = [key EXCEPT ![d.key] =
                [payload |-> d.payload, state |-> "COMPLETED", resource |-> own]]
    /\ draft' = [draft EXCEPT ![c] = None]
    /\ requests' = requests

LEMMA CommitWrites ==
    ASSUME Books, NEW c \in Client, Commit(c)
    PROVE  \E d \in Draft : \E own \in SUBSET Identifier : \E new \in SUBSET Notification :
              CommitsAs(c, d, own, new)
<1>1. PICK d : d = draft[c]
  OBVIOUS
<1>2. draft[c] # None /\ draft[c].stage = "committing"
  BY DEF Commit, In
<1>3. /\ d \in Draft /\ DraftFits(d) /\ d.payload \in Payload /\ d.key \in Key \cup {None}
      /\ d.number \in 1 .. MaxRequests /\ d.payload.size \in {1, 2}
  BY <1>1, <1>2, AtWork, Apart
<1>4. /\ d.written = d.payload.size /\ d.session \in Session
      /\ d.claim \in {None, "COMPLETED"} /\ (d.key = None <=> d.claim = None)
  BY <1>1, <1>2, <1>3 DEF DraftFits
<1>5. PICK own : own = {d.number} \X (1 .. d.payload.size)
  OBVIOUS
<1>6. own \in SUBSET Identifier /\ own # {} /\ \A i \in own : i[1] = d.number
  <2>1. \A j \in 1 .. d.payload.size : j \in {1, 2}
    BY <1>3
  <2>2. <<d.number, 1>> \in own
    BY <1>3, <1>5
  <2>3. QED
    BY <1>3, <1>5, <2>1, <2>2 DEF Identifier
<1>7. PICK new : new = [id : own, session : {d.session}, key : {d.key}, payload : {d.payload}]
  OBVIOUS
<1>8. /\ \A n \in new : n.id \in own /\ n.session = d.session /\ n.key = d.key
                        /\ n.payload = d.payload
      /\ \A i \in own : \E n \in new : n.id = i
      /\ {n.id : n \in new} = own
  <2>1. \A n \in new : n.id \in own /\ n.session = d.session /\ n.key = d.key
                       /\ n.payload = d.payload
    BY <1>7
  <2>2. ASSUME NEW i \in own PROVE \E n \in new : n.id = i
    <3>1. [id |-> i, session |-> d.session, key |-> d.key, payload |-> d.payload] \in new
      BY <1>7
    <3>2. QED
      BY <3>1
  <2>3. {n.id : n \in new} = own
    BY <2>1, <2>2
  <2>4. QED
    BY <2>1, <2>2, <2>3
<1>9. new \in SUBSET Notification
  BY <1>3, <1>4, <1>6, <1>7 DEF Notification
<1>10. /\ notification' = notification \cup new /\ job' = job \cup own
       /\ draft' = [draft EXCEPT ![c] = None] /\ requests' = requests
  BY <1>1, <1>4, <1>5, <1>7 DEF Commit
<1>11. d.claim = None => d.key = None /\ key' = key
  BY <1>1, <1>4 DEF Commit
<1>12. d.claim # None =>
          /\ d.key \in Key
          /\ key' = [key EXCEPT ![d.key] = [payload |-> d.payload, state |-> "COMPLETED",
                                           resource |-> own]]
  <2>1. d.claim # None => d.claim = "COMPLETED" /\ d.key \in Key
    BY <1>3, <1>4
  <2>2. Own(c) = own
    BY <1>1, <1>5 DEF Own
  <2>3. QED
    BY <1>1, <2>1, <2>2 DEF Commit
<1>13. CommitsAs(c, d, own, new)
  BY <1>1, <1>2, <1>3, <1>5, <1>6, <1>8, <1>10, <1>11, <1>12 DEF CommitsAs
<1>14. QED
  BY <1>3, <1>6, <1>9, <1>13

LEMMA CommitBooks == ASSUME Books, NEW c \in Client, Commit(c) PROVE Books'
<1> USE DEF Books
<1> USE DEF CommitsAs
<1>1. PICK d \in Draft, own \in SUBSET Identifier, new \in SUBSET Notification :
              CommitsAs(c, d, own, new)
  BY CommitWrites
<1>2. /\ key \in [Key -> KeyRecord \cup {None}] /\ draft \in [Client -> Draft \cup {None}]
      /\ d.payload \in Payload /\ d.number \in 1 .. MaxRequests /\ d.payload.size \in {1, 2}
      /\ requests \in 0 .. MaxRequests /\ d.key \in Key \cup {None} /\ None \notin Key
  BY <1>1, AtWork, Apart DEF BooksTypeOK
<1>3. draft'[c] = None /\ \A e \in Client : e # c => draft'[e] = draft[e]
  BY <1>1, <1>2
(* The keys: one has come, at most, that was not there. *)
<1>4. PICK made : made = [payload |-> d.payload, state |-> "COMPLETED", resource |-> own]
  OBVIOUS
<1>5. made \in KeyRecord /\ made.payload = d.payload /\ made.state = "COMPLETED"
      /\ made.resource = own /\ made # None
  <2>1. made \in KeyRecord
    BY <1>1, <1>2, <1>4 DEF KeyRecord, KeyState
  <2>2. QED
    BY <1>4, <2>1, Apart
<1>6. /\ key' \in [Key -> KeyRecord \cup {None}]
      /\ \A k \in Key : k # d.key => key'[k] = key[k]
      /\ d.key \in Key => key'[d.key] = made /\ key[d.key] = None
  <2>1. d.claim # None => key[d.key] = None
    BY <1>1 DEF DraftFits
  <2>2. CASE d.claim = None
    BY <1>1, <1>2, <2>2
  <2>3. CASE d.claim # None
    BY <1>1, <1>2, <1>4, <1>5, <2>1, <2>3
  <2>4. QED
    BY <2>2, <2>3
<1>7. BooksTypeOK'
  <2>1. draft' \in [Client -> Draft \cup {None}]
    BY <1>1, <1>2
  <2>2. notification' \subseteq Notification /\ job' \subseteq Identifier
    BY <1>1 DEF BooksTypeOK
  <2>3. QED
    BY <1>1, <1>2, <1>6, <2>1, <2>2 DEF BooksTypeOK, CreationTypeOK
(* Nothing that was there has the number or, if there is one, the key. *)
<1>8. \A n \in notification : n.id[1] # d.number
  BY <1>1 DEF NumbersApart
<1>9. \A n \in notification : n.key \in Key \cup {None} /\ (n.key \in Key => n.key # d.key)
  <2>1. \A n \in notification : n.key \in Key \cup {None}
    BY DEF BooksTypeOK, Notification
  <2>2. \A n \in notification : n.key # None => key[n.key] # None
    BY DEF AllOrNothing
  <2>3. QED
    BY <1>2, <1>6, <2>1, <2>2
<1>10. \A number : number # d.number => Made(number)' = Made(number)
  BY <1>1 DEF Made
<1>11. Made(d.number)' = new
  BY <1>1, <1>8 DEF Made
<1>12. AllOrNothing'
  <2>1. job' = {n.id : n \in notification'}
    BY <1>1 DEF AllOrNothing
  <2>2. ASSUME NEW n \in notification
        PROVE  /\ {m.id : m \in Made(n.id[1])'} = {n.id[1]} \X (1 .. n.payload.size)
               /\ n.key # None => key'[n.key] # None /\ n.id \in key'[n.key].resource
    <3>1. /\ {m.id : m \in Made(n.id[1])} = {n.id[1]} \X (1 .. n.payload.size)
          /\ n.key # None => key[n.key] # None /\ n.id \in key[n.key].resource
      BY DEF AllOrNothing
    <3>2. n.key # None => key'[n.key] = key[n.key]
      BY <1>6, <1>9
    <3>3. Made(n.id[1])' = Made(n.id[1])
      BY <1>8, <1>10
    <3>4. QED
      BY <3>1, <3>2, <3>3
  <2>3. ASSUME NEW n \in new
        PROVE  /\ {m.id : m \in Made(n.id[1])'} = {n.id[1]} \X (1 .. n.payload.size)
               /\ n.key # None => key'[n.key] # None /\ n.id \in key'[n.key].resource
    <3>1. n.id[1] = d.number /\ n.payload = d.payload /\ n.key = d.key /\ n.id \in own
      BY <1>1
    <3>2. {m.id : m \in Made(n.id[1])'} = own
      BY <1>1, <1>11, <3>1
    <3>3. QED
      BY <1>1, <1>2, <1>5, <1>6, <3>1, <3>2
  <2>4. ASSUME NEW k \in Key, key'[k] # None
        PROVE  key'[k].state = "COMPLETED" /\ key'[k].resource \subseteq job'
    <3>1. CASE k = d.key
      BY <1>1, <1>5, <1>6, <3>1
    <3>2. CASE k # d.key
      BY <1>1, <1>6, <2>4, <3>2 DEF AllOrNothing
    <3>3. QED
      BY <3>1, <3>2
  <2>5. \A n \in notification' : n \in notification \/ n \in new
    BY <1>1
  <2>6. QED
    BY <2>1, <2>2, <2>3, <2>4, <2>5 DEF AllOrNothing
<1>13. DraftsFit'
  <2>1. ASSUME NEW e \in Client, draft'[e] # None
        PROVE  DraftFits(draft[e])'
    <3>1. e # c /\ draft'[e] = draft[e] /\ DraftFits(draft[e])
      BY <1>3, <2>1 DEF DraftsFit
    <3>2. draft[e].claim # None => draft[e].key # d.key
      <4>1. ASSUME draft[e].claim # None, d.claim # None PROVE draft[e].key # d.key
        BY <1>1, <1>3, <2>1, <3>1, <4>1 DEF ClaimsApart
      <4>2. ASSUME draft[e].claim # None, d.claim = None PROVE draft[e].key # d.key
        BY <1>1, <1>2, <3>1, <4>2 DEF DraftFits
      <4>3. QED
        BY <4>1, <4>2
    <3>3. draft[e].claim # None => draft[e].key \in Key /\ key'[draft[e].key] = None
      BY <1>6, <3>1, <3>2 DEF DraftFits
    <3>4. QED
      BY <1>1, <3>1, <3>3 DEF DraftFits
  <2>2. QED
    BY <2>1 DEF DraftsFit
<1>14. ClaimsApart'
  BY <1>3 DEF ClaimsApart
<1>15. NumbersApart'
  <2>1. \A n \in notification' : n.id[1] <= requests'
    <3>1. d.number <= requests
      BY <1>1 DEF DraftFits
    <3>2. QED
      BY <1>1, <3>1 DEF NumbersApart
  <2>2. \A e \in Client : draft'[e] # None =>
            \A n \in notification' : n.id[1] # draft'[e].number
    BY <1>1, <1>3 DEF NumbersApart
  <2>3. \A e, f \in Client :
            e # f /\ draft'[e] # None /\ draft'[f] # None => draft'[e].number # draft'[f].number
    BY <1>3 DEF NumbersApart
  <2>4. QED
    BY <2>1, <2>2, <2>3 DEF NumbersApart
<1>16. KeysTell'
  <2>1. ASSUME NEW k \in Key, key'[k] # None, k # d.key
        PROVE  KeyTells(k)'
    <3>1. key'[k] = key[k] /\ KeyTells(k)
      BY <1>6, <2>1 DEF KeysTell
    <3>2. {m \in notification' : m.key = k} = {m \in notification : m.key = k}
      BY <1>1, <2>1
    <3>3. PICK number \in 1 .. MaxRequests :
              /\ key[k].resource = {number} \X (1 .. key[k].payload.size)
              /\ \A n \in Made(number) : n.payload = key[k].payload
      BY <3>1 DEF KeyTells
    <3>4. number # d.number
      <4>1. key[k] \in KeyRecord
        BY <1>2, <2>1, <3>1
      <4>2. key[k].payload.size \in {1, 2}
        BY <4>1, Apart DEF KeyRecord
      <4>3. <<number, 1>> \in key[k].resource
        BY <3>3, <4>2
      <4>4. PICK n \in notification : n.id = <<number, 1>>
        BY <2>1, <3>1, <4>3 DEF AllOrNothing
      <4>5. n.id[1] = number
        BY <4>4
      <4>6. QED
        BY <1>8, <4>5
    <3>5. Made(number)' = Made(number)
      BY <1>10, <3>4
    <3>6. key'[k].resource = {n.id : n \in {m \in notification' : m.key = k}}
      BY <3>1, <3>2 DEF KeyTells
    <3>7. QED
      BY <3>1, <3>3, <3>5, <3>6 DEF KeyTells
  <2>2. ASSUME d.key \in Key
        PROVE  KeyTells(d.key)'
    <3>1. {m \in notification' : m.key = d.key} = new
      BY <1>1, <1>9, <2>2
    <3>2. key'[d.key].resource = own /\ key'[d.key].payload = d.payload
      BY <1>5, <1>6, <2>2
    <3>3. {n.id : n \in {m \in notification' : m.key = d.key}} = own
      BY <1>1, <3>1
    <3>4. \A n \in Made(d.number)' : n.payload = d.payload
      BY <1>1, <1>11
    <3>5. QED
      BY <1>1, <1>2, <3>2, <3>3, <3>4 DEF KeyTells
  <2>3. QED
    BY <2>1, <2>2 DEF KeysTell
<1>17. RepliesFit'
  <2>1. ASSUME NEW e \in Client, In(e, "replayed")'
        PROVE  ReplyFits(draft[e])'
    <3>1. In(e, "replayed") /\ draft'[e] = draft[e]
      BY <1>3, <2>1 DEF In
    <3>2. ReplyFits(draft[e])
      BY <3>1 DEF RepliesFit
    <3>3. draft[e].key # d.key
      BY <1>6, <3>2 DEF ReplyFits
    <3>4. QED
      BY <1>6, <3>1, <3>2, <3>3 DEF ReplyFits
  <2>2. QED
    BY <2>1 DEF RepliesFit
<1>18. AsNamed'
  <2>1. In(c, "committing")
    BY DEF Commit
  <2>2. d.payload.session # None => d.session = d.payload.session
    BY <1>1, <2>1 DEF DraftFits, In
  <2>3. QED
    BY <1>1, <2>2 DEF AsNamed
<1>19. QED
  BY <1>7, <1>12, <1>13, <1>14, <1>15, <1>16, <1>17, <1>18

(* No step of a creation request spoils the books. *)
LEMMA CreationBooks == ASSUME Books, CreationNext PROVE Books'
<1>1. PICK c \in Client :
          \/ \E p \in Payload, k \in Key \cup {None} : Post(c, p, k)
          \/ RequestStep(c) \/ RollBack(c)
  BY DEF CreationNext
<1>2. CASE \E p \in Payload, k \in Key \cup {None} : Post(c, p, k)
  BY <1>2, PostBooks
<1>3. CASE RollBack(c)
  BY <1>3, GoneBooks DEF RollBack
<1>4. CASE Respond(c)
  BY <1>4, GoneBooks DEF Respond, tables
<1>5. CASE ResolveSession(c) \/ ClaimIdempotencyKey(c) \/ WriteNotification(c)
           \/ Complete(c) \/ Commit(c)
  BY <1>5, ResolveBooks, ClaimBooks, WriteBooks, CompleteBooks, CommitBooks
<1>6. QED
  BY <1>1, <1>2, <1>3, <1>4, <1>5 DEF RequestStep

(* They are not touched by anything else. *)
LEMMA BooksKept ==
    ASSUME Books, UNCHANGED <<notification, job, key, draft, requests>>
    PROVE  Books'
BY DEF Books, BooksTypeOK, CreationTypeOK, AllOrNothing, Made, DraftsFit, DraftFits, ClaimsApart,
       NumbersApart, KeysTell, KeyTells, RepliesFit, ReplyFits, In, AsNamed

(***************************************************************************)
(* The connections, and the requests on them.                              *)
(***************************************************************************)

(* Rows, in the parts a step may touch. *)
Held ==
    /\ row \in [Session -> Row \cup {None}]
    /\ created \in 0 .. MaxSessions
    /\ \A s \in Session : s > created => row[s] = None
    /\ pin \in [Client -> Session \cup {None}]
    /\ Anchored

Provided == remote \in [Session -> RemoteSession \cup {None}] /\ callbacks \subseteq Callback

Called == call \in [Caller -> Call \cup {None}] /\ CallsFit

Counted == calls \in 0 .. MaxCalls /\ mishaps \in 0 .. MaxMishaps

LEMMA RowsAre == Rows <=> Held /\ Provided /\ Called /\ Counted
BY DEF Rows, Held, Provided, Called, Counted, SessionsTypeOK

LEMMA RowsAreNext == Rows' <=> Held' /\ Provided' /\ Called' /\ Counted'
BY DEF Rows, Held, Provided, Called, Counted, SessionsTypeOK

LEMMA RowsInit == TablesInit /\ SessionsInit /\ CreationInit => Rows
<1> SUFFICES ASSUME TablesInit, SessionsInit, CreationInit PROVE Rows
  OBVIOUS
<1>1. Held
  <2>1. \A c \in Client : pin[c] = None /\ draft[c] = None
    BY DEF TablesInit, CreationInit
  <2>2. Anchored
    BY <2>1 DEF TablesInit, Anchored
  <2>3. QED
    BY <2>2, Apart DEF Held, TablesInit
<1>2. Provided /\ Counted
  BY SessionsAssumption DEF Provided, Counted, SessionsInit
<1>3. Called
  BY DEF Called, SessionsInit, CallsFit
<1>4. QED
  BY <1>1, <1>2, <1>3, RowsAre

LEMMA HeldKept == ASSUME Held, UNCHANGED <<row, created, pin, notification, draft>> PROVE Held'
BY DEF Held, Anchored, Listed

LEMMA ProvidedKept == ASSUME Provided, UNCHANGED <<remote, callbacks>> PROVE Provided'
BY DEF Provided

LEMMA CalledKept ==
    ASSUME Called, UNCHANGED call, notification \subseteq notification'
    PROVE  Called'
<1>1. \A s : History(s) => History(s)'
  BY DEF History
<1>2. \A h \in Caller : call[h] # None => CallFits(h)'
  BY <1>1 DEF Called, CallsFit, CallFits
<1>3. QED
  BY <1>2 DEF Called, CallsFit

LEMMA CountedKept == ASSUME Counted, UNCHANGED <<calls, mishaps>> PROVE Counted'
BY DEF Counted

-----------------------------------------------------------------------------
(* A creation request moves its own reference, to a connection that is      *)
(* there, and notifications are added for such ones only.                  *)
LEMMA AnchorStep ==
    ASSUME Books, Rows, NEW c \in Client, NEW d, NEW p \in Session \cup {None},
           draft' = [draft EXCEPT ![c] = d], pin' = [pin EXCEPT ![c] = p],
           p # None => Listed(p),
           d # None /\ d.stage \in {"writing", "completing", "committing"} /\ d.written > 0
              => p = d.session,
           notification \subseteq notification',
           \A n \in notification' : n \in notification \/ Listed(n.session),
           UNCHANGED <<row, created, sessionVars>>
    PROVE  Rows'
<1>1. Held /\ Provided /\ Called /\ Counted
  BY RowsAre
<1>2. DOMAIN draft = Client
  BY DEF Books, BooksTypeOK, CreationTypeOK
<1>3. /\ draft'[c] = d /\ pin'[c] = p
      /\ \A e \in Client : e # c => draft'[e] = draft[e] /\ pin'[e] = pin[e]
  BY <1>1, <1>2 DEF Held
<1>4. Held'
  <2>1. pin' \in [Client -> Session \cup {None}]
    BY <1>1 DEF Held
  <2>2. \A s : Listed(s)' <=> Listed(s)
    BY DEF Listed
  <2>3. \A n \in notification' : Listed(n.session)'
    BY <1>1, <2>2 DEF Held, Anchored
  <2>4. \A e \in Client : (pin[e] # None => Listed(pin[e]))'
    BY <1>1, <1>3 DEF Held, Anchored, Listed
  <2>5. \A e \in Client :
            draft'[e] # None /\ draft'[e].stage \in {"writing", "completing", "committing"}
            /\ draft'[e].written > 0 => pin'[e] = draft'[e].session
    BY <1>1, <1>3 DEF Held, Anchored
  <2>6. Anchored'
    BY <2>3, <2>4, <2>5 DEF Anchored
  <2>7. QED
    BY <1>1, <2>1, <2>6 DEF Held
<1>5. Provided' /\ Called' /\ Counted'
  BY <1>1, ProvidedKept, CalledKept, CountedKept DEF sessionVars
<1>6. QED
  BY <1>4, <1>5, RowsAreNext

LEMMA UnpinRows ==
    ASSUME Books, Rows, NEW c \in Client, NEW d,
           draft' = [draft EXCEPT ![c] = d], pin' = [pin EXCEPT ![c] = None],
           d # None => d.stage \notin {"writing", "completing", "committing"},
           UNCHANGED <<row, created, notification, sessionVars>>
    PROVE  Rows'
BY AnchorStep

LEMMA StillPinRows ==
    ASSUME Books, Rows, NEW c \in Client, NEW d,
           draft' = [draft EXCEPT ![c] = d], UNCHANGED pin,
           d # None /\ d.stage \in {"writing", "completing", "committing"} /\ d.written > 0
              => pin[c] = d.session,
           UNCHANGED <<row, created, notification, sessionVars>>
    PROVE  Rows'
<1>1. pin[c] \in Session \cup {None} /\ (pin[c] # None => Listed(pin[c]))
      /\ pin' = [pin EXCEPT ![c] = pin[c]]
  BY DEF Rows, Anchored
<1>2. QED
  BY <1>1, AnchorStep

LEMMA RefuseRows ==
    ASSUME Books, Rows, NEW c \in Client, draft[c] # None, Refuse(c),
           UNCHANGED <<row, created, notification, sessionVars>>
    PROVE  Rows'
<1>1. PICK d : d = [draft[c] EXCEPT !.stage = "refused", !.written = 0, !.claim = None]
  OBVIOUS
<1>2. draft[c] \in Draft
  BY AtWork
<1>3. draft' = [draft EXCEPT ![c] = d] /\ pin' = [pin EXCEPT ![c] = None]
  BY <1>1 DEF Refuse
<1>4. d.stage = "refused"
  BY <1>1, <1>2 DEF Draft
<1>5. QED
  BY <1>3, <1>4, UnpinRows

LEMMA CreationRows ==
    ASSUME Books, Rows, CreationNext, UNCHANGED sessionVars
    PROVE  Rows'
<1>1. PICK c \in Client :
          \/ \E p \in Payload, k \in Key \cup {None} : Post(c, p, k)
          \/ RequestStep(c) \/ RollBack(c)
  BY DEF CreationNext
<1>2. CASE \E p \in Payload, k \in Key \cup {None} : Post(c, p, k)
  <2>1. PICK p \in Payload, k \in Key \cup {None} : Post(c, p, k)
    BY <1>2
  <2>2. PICK d : d = [payload |-> p, key |-> k, number |-> requests + 1, stage |-> "resolving",
                      session |-> None, written |-> 0, claim |-> None, result |-> {}]
    OBVIOUS
  <2>3. draft' = [draft EXCEPT ![c] = d] /\ d.stage = "resolving"
        /\ UNCHANGED <<row, created, notification, pin>>
    BY <2>1, <2>2 DEF Post, tables
  <2>4. QED
    BY <2>3, StillPinRows
<1>3. CASE RollBack(c)
  BY <1>3, UnpinRows DEF RollBack
<1>4. CASE Respond(c)
  <2>1. draft' = [draft EXCEPT ![c] = None] /\ UNCHANGED <<row, created, notification, pin>>
    BY <1>4 DEF Respond, tables
  <2>2. QED
    BY <2>1, StillPinRows
<1>5. CASE ResolveSession(c)
  <2>1. draft[c] # None /\ draft[c] \in Draft /\ UNCHANGED <<row, created, notification>>
    BY <1>5, AtWork DEF ResolveSession, In
  <2>2. CASE Refuse(c)
    BY <2>1, <2>2, RefuseRows
  <2>3. CASE ~Refuse(c)
    <3>1. PICK d : d = [draft[c] EXCEPT !.stage = "claiming",
                                        !.session = Resolved(draft[c].payload.session)]
      OBVIOUS
    <3>2. draft' = [draft EXCEPT ![c] = d] /\ UNCHANGED pin
      BY <1>5, <2>3, <3>1 DEF ResolveSession
    <3>3. d.stage = "claiming"
      BY <2>1, <3>1 DEF Draft
    <3>4. QED
      BY <2>1, <3>2, <3>3, StillPinRows
  <2>4. QED
    BY <2>2, <2>3
<1>6. CASE ClaimIdempotencyKey(c)
  <2>1. draft[c] # None /\ draft[c] \in Draft /\ draft[c].written = 0
        /\ UNCHANGED <<row, created, notification>>
    BY <1>6, AtWork DEF ClaimIdempotencyKey, In, DraftFits
  <2>2. CASE Refuse(c)
    BY <2>1, <2>2, RefuseRows
  <2>3. CASE ~Refuse(c)
    <3>1. PICK d \in {[draft[c] EXCEPT !.stage = "writing"],
                      [draft[c] EXCEPT !.stage = "writing", !.claim = "IN_FLIGHT"],
                      [draft[c] EXCEPT !.stage = "replayed",
                                       !.result = key[draft[c].key].resource]} :
              draft' = [draft EXCEPT ![c] = d] /\ UNCHANGED pin
      BY <1>6, <2>3 DEF ClaimIdempotencyKey, Advance
    <3>2. d.written = 0
      <4>1. CASE d = [draft[c] EXCEPT !.stage = "writing"]
        BY <2>1, <4>1 DEF Draft
      <4>2. CASE d = [draft[c] EXCEPT !.stage = "writing", !.claim = "IN_FLIGHT"]
        BY <2>1, <4>2 DEF Draft
      <4>3. CASE d = [draft[c] EXCEPT !.stage = "replayed",
                                      !.result = key[draft[c].key].resource]
        BY <2>1, <4>3 DEF Draft
      <4>4. QED
        BY <3>1, <4>1, <4>2, <4>3
    <3>3. ~(d.written > 0)
      BY <3>2
    <3>4. QED
      BY <2>1, <3>1, <3>3, StillPinRows
  <2>4. QED
    BY <2>2, <2>3
<1>7. CASE WriteNotification(c)
  <2>1. draft[c] # None /\ draft[c] \in Draft /\ draft[c].session \in Session
        /\ UNCHANGED <<row, created, notification>>
    BY <1>7, AtWork DEF WriteNotification, In, DraftFits
  <2>2. CASE Refuse(c)
    BY <2>1, <2>2, RefuseRows
  <2>3. CASE ~Refuse(c)
    <3>1. PICK d : d = [draft[c] EXCEPT
                  !.written = @ + 1,
                  !.stage = IF draft[c].written + 1 < draft[c].payload.size THEN "writing"
                            ELSE IF draft[c].claim = None THEN "committing"
                            ELSE "completing"]
      OBVIOUS
    <3>2. /\ Listed(draft[c].session) /\ draft' = [draft EXCEPT ![c] = d]
          /\ pin' = [pin EXCEPT ![c] = draft[c].session]
      BY <1>7, <2>3, <3>1 DEF WriteNotification
    <3>3. d.session = draft[c].session
      BY <2>1, <3>1 DEF Draft
    <3>4. QED
      BY <2>1, <3>2, <3>3, AnchorStep
  <2>4. QED
    BY <2>2, <2>3
<1>8. CASE Complete(c)
  <2>1. draft[c] # None /\ draft[c] \in Draft /\ draft[c].stage = "completing"
        /\ UNCHANGED <<row, created, notification, pin>>
    BY <1>8, AtWork DEF Complete, In, tables
  <2>2. PICK d : d = [draft[c] EXCEPT !.stage = "committing", !.claim = "COMPLETED"]
    OBVIOUS
  <2>3. draft' = [draft EXCEPT ![c] = d]
    BY <1>8, <2>2 DEF Complete
  <2>4. d.written = draft[c].written /\ d.session = draft[c].session
    BY <2>1, <2>2 DEF Draft
  <2>5. draft[c].written > 0 => pin[c] = draft[c].session
    BY <2>1 DEF Rows, Anchored
  <2>6. QED
    BY <2>1, <2>3, <2>4, <2>5, StillPinRows
<1>9. CASE Commit(c)
  <2> USE DEF CommitsAs
  <2>1. PICK d \in Draft, own \in SUBSET Identifier, new \in SUBSET Notification :
                CommitsAs(c, d, own, new)
    BY <1>9, CommitWrites
  <2>2. d.stage = "committing" /\ pin' = [pin EXCEPT ![c] = None] /\ UNCHANGED <<row, created>>
    BY <1>9, <2>1 DEF Commit, In
  <2>3. d.written > 0 /\ d.session \in Session
    <3>1. d.payload.size \in {1, 2}
      BY <2>1, Apart DEF Draft
    <3>2. QED
      BY <2>1, <2>2, <3>1 DEF DraftFits
  <2>4. Listed(d.session)
    BY <2>1, <2>2, <2>3, Apart DEF Rows, Anchored
  <2>5. QED
    BY <2>1, <2>2, <2>4, AnchorStep
<1>10. QED
  BY <1>1, <1>2, <1>3, <1>4, <1>5, <1>6, <1>7, <1>8, <1>9 DEF RequestStep


-----------------------------------------------------------------------------
(* The provider: whatever a route does to a session, it leaves the others   *)
(* alone; and only the route that creates makes one where there was none.   *)

LEMMA RemotesFit ==
    /\ Started(NewRemote) \in RemoteSession /\ NewRemote \in RemoteSession
    /\ \A r \in RemoteSession :
          /\ Started(r) \in RemoteSession /\ NextCode(r) \in RemoteSession
          /\ [r EXCEPT !.status = "STOPPED", !.shown = FALSE] \in RemoteSession
          /\ [r EXCEPT !.status = "FAILED"] \in RemoteSession
          /\ [r EXCEPT !.shown = TRUE] \in RemoteSession
          /\ \A a \in Account : Scanned(r, a) \in RemoteSession
          /\ View(r) \in Row /\ r.status \in Status /\ r.account \in Account \cup {None}
<1>1. NewRemote \in RemoteSession
  BY SessionsAssumption DEF NewRemote, RemoteSession, Status
<1>2. ASSUME NEW r \in RemoteSession PROVE Started(r) \in RemoteSession
  <2>1. [r EXCEPT !.status = "WORKING"] \in RemoteSession
    BY DEF RemoteSession, Status
  <2>2. 1 \in 0 .. MaxQrAttempts
    BY SessionsAssumption
  <2>3. [r EXCEPT !.status = "SCAN_QR_CODE", !.attempt = 1, !.shown = FALSE] \in RemoteSession
    BY <2>2 DEF RemoteSession, Status
  <2>4. QED
    BY <2>1, <2>3 DEF Started
<1>3. ASSUME NEW r \in RemoteSession PROVE NextCode(r) \in RemoteSession
  <2>1. [r EXCEPT !.status = "FAILED", !.shown = FALSE] \in RemoteSession
    BY DEF RemoteSession, Status
  <2>2. r.attempt \in 0 .. MaxQrAttempts
    BY DEF RemoteSession
  <2>3. r.attempt < MaxQrAttempts => r.attempt + 1 \in 0 .. MaxQrAttempts
    BY <2>2, SessionsAssumption
  <2>4. r.attempt < MaxQrAttempts =>
            [r EXCEPT !.attempt = r.attempt + 1, !.shown = FALSE] \in RemoteSession
    BY <2>3 DEF RemoteSession, Status
  <2>5. QED
    BY <2>1, <2>2, <2>4, SessionsAssumption DEF NextCode
<1>4. \A r \in RemoteSession :
          /\ [r EXCEPT !.status = "STOPPED", !.shown = FALSE] \in RemoteSession
          /\ [r EXCEPT !.status = "FAILED"] \in RemoteSession
          /\ [r EXCEPT !.shown = TRUE] \in RemoteSession
  BY DEF RemoteSession, Status
<1>5. \A r \in RemoteSession : \A a \in Account : Scanned(r, a) \in RemoteSession
  BY DEF Scanned, RemoteSession, Status
<1>6. \A r \in RemoteSession :
          View(r) \in Row /\ r.status \in Status /\ r.account \in Account \cup {None}
  BY DEF View, Row, RemoteSession
<1>7. QED
  BY <1>1, <1>2, <1>3, <1>4, <1>5, <1>6

LEMMA AnnounceFits ==
    ASSUME Provided, NEW s \in Session, NEW r \in RemoteSession, NEW a \in Account \cup {None},
           Announce(s, r, a)
    PROVE  /\ Provided'
           /\ remote'[s] = r
           /\ \A t \in Session : t # s => remote'[t] = remote[t]
<1>1. [session |-> s, status |-> r.status, account |-> a] \in Callback
  BY RemotesFit DEF Callback
<1>2. QED
  BY <1>1 DEF Announce, Provided

(* What a route leaves behind for its session. *)
Leaves(s) ==
    /\ Provided'
    /\ \A t \in Session : t # s => remote'[t] = remote[t]

LEMMA RoutesFit ==
    ASSUME Provided, NEW s \in Session
    PROVE  /\ RouteCreate(s) => Leaves(s) /\ (remote[s] = None => remote'[s] \in RemoteSession)
                                /\ (remote[s] # None => remote'[s] = remote[s])
           /\ RouteStart(s) \/ RouteStop(s) \/ RouteLogout(s) =>
                 /\ Leaves(s)
                 /\ remote[s] # None => remote'[s] \in RemoteSession
                 /\ remote[s] = None => remote'[s] = None
           /\ RouteDelete(s) => Leaves(s) /\ remote'[s] = None
           /\ Unmoved => Leaves(s) /\ remote'[s] = remote[s]
<1>1. remote[s] # None => remote[s] \in RemoteSession
  BY DEF Provided
<1>2. Unmoved => Leaves(s) /\ remote'[s] = remote[s]
  BY ProvidedKept DEF Unmoved, Leaves
<1>3. ASSUME RouteCreate(s)
      PROVE  /\ Leaves(s) /\ (remote[s] = None => remote'[s] \in RemoteSession)
             /\ remote[s] # None => remote'[s] = remote[s]
  <2>1. CASE remote[s] = None
    <3>1. PICK r \in RemoteSession : r = Started(NewRemote)
      BY RemotesFit
    <3>2. Announce(s, r, None)
      BY <1>3, <2>1, <3>1 DEF RouteCreate
    <3>3. QED
      BY <2>1, <3>2, AnnounceFits DEF Leaves
  <2>2. CASE remote[s] # None
    BY <1>2, <1>3, <2>2 DEF RouteCreate
  <2>3. QED
    BY <2>1, <2>2
<1>4. ASSUME RouteStart(s) \/ RouteStop(s) \/ RouteLogout(s), remote[s] = None
      PROVE  Leaves(s) /\ remote'[s] = None
  BY <1>2, <1>4 DEF RouteStart, RouteStop, RouteLogout
<1>5. ASSUME RouteStart(s) \/ RouteStop(s) \/ RouteLogout(s), remote[s] # None
      PROVE  Leaves(s) /\ remote'[s] \in RemoteSession
  <2>1. PICK old \in RemoteSession : old = remote[s]
    BY <1>1, <1>5
  <2>2. \E r \in RemoteSession : Announce(s, r, None)
    <3>1. CASE RouteStart(s)
      <4>1. CASE old.status = "FAILED"
        BY <1>5, <2>1, <3>1, <4>1 DEF RouteStart
      <4>2. CASE old.status # "FAILED"
        <5>1. Started(old) \in RemoteSession /\ Announce(s, Started(old), None)
          BY <1>5, <2>1, <3>1, <4>2, RemotesFit DEF RouteStart
        <5>2. QED
          BY <5>1
      <4>3. QED
        BY <4>1, <4>2
    <3>2. CASE RouteStop(s)
      <4>1. /\ [old EXCEPT !.status = "STOPPED", !.shown = FALSE] \in RemoteSession
            /\ Announce(s, [old EXCEPT !.status = "STOPPED", !.shown = FALSE], None)
        BY <1>5, <2>1, <3>2, RemotesFit DEF RouteStop
      <4>2. QED
        BY <4>1
    <3>3. CASE RouteLogout(s)
      <4>1. Announce(s, NewRemote, None) /\ NewRemote \in RemoteSession
        BY <1>5, <3>3, RemotesFit DEF RouteLogout, LoggedOut
      <4>2. QED
        BY <4>1
    <3>4. QED
      BY <1>5, <3>1, <3>2, <3>3
  <2>3. QED
    BY <2>2, AnnounceFits DEF Leaves
<1>6. RouteDelete(s) => Leaves(s) /\ remote'[s] = None
  BY DEF RouteDelete, Leaves, Provided
<1>7. QED
  BY <1>2, <1>3, <1>4, <1>5, <1>6

(* What a question does, from what it asks for. *)
LEMMA EffectDoes ==
    ASSUME Provided, Called, NEW h \in Caller, call[h] # None, call[h].stage \in AtProvider,
           Effect(h), NEW s \in Session, s = call[h].session
    PROVE  /\ Leaves(s)
           /\ remote[s] # None /\ ~(call[h].stage = "asking" /\ call[h].op = "delete")
              /\ ~(call[h].stage = "asking" /\ call[h].op = "get")
              => remote'[s] \in RemoteSession
           /\ call[h].stage = "recreating" \/ (call[h].stage = "asking" /\ call[h].op = "create")
              => remote'[s] \in RemoteSession
           /\ remote[s] = None /\ call[h].stage # "recreating" /\ call[h].op # "create"
              => remote'[s] = None
           /\ call[h].stage = "asking" /\ call[h].op = "delete" => remote'[s] = None
<1>1. call[h].op \in Operation
  BY DEF Called, Call
<1>2. remote[s] # None => remote[s] \in RemoteSession
  BY DEF Provided
<1>3. CASE call[h].stage = "recreating" \/ (call[h].stage = "asking" /\ call[h].op = "create")
  <2>1. RouteCreate(s)
    BY <1>3 DEF Effect
  <2>2. QED
    BY <1>2, <1>3, <2>1, RoutesFit
<1>4. CASE \/ call[h].stage \in {"stopping first", "starting again"}
           \/ call[h].stage = "asking" /\ call[h].op \in {"start", "stop", "logout"}
  <2>1. RouteStart(s) \/ RouteStop(s) \/ RouteLogout(s)
    BY <1>4 DEF Effect
  <2>2. QED
    BY <1>4, <2>1, RoutesFit
<1>5. CASE call[h].stage = "asking" /\ call[h].op = "delete"
  <2>1. RouteDelete(s)
    BY <1>5 DEF Effect
  <2>2. QED
    BY <1>5, <2>1, RoutesFit
<1>6. CASE call[h].stage = "asking" /\ call[h].op = "get"
  <2>1. Unmoved
    BY <1>6 DEF Effect
  <2>2. QED
    BY <1>6, <2>1, RoutesFit
<1>7. QED
  BY <1>1, <1>3, <1>4, <1>5, <1>6 DEF AtProvider, Operation

-----------------------------------------------------------------------------
(* The calls.                                                              *)

LEMMA BusyFits ==
    ASSUME Called, NEW h \in Caller, call[h] # None
    PROVE  call[h] \in Call /\ call[h].session \in Session /\ CallFits(h)
BY DEF Called, CallsFit, Call

LEMMA FinishFits ==
    ASSUME Called, NEW h \in Caller, Finish(h), UNCHANGED notification
    PROVE  Called'
<1>1. \A g \in Caller : g # h => call'[g] = call[g]
  BY DEF Finish, Called
<1>2. call'[h] = None /\ call' \in [Caller -> Call \cup {None}]
  BY DEF Finish, Called
<1>3. \A g \in Caller : call'[g] # None => CallFits(g)'
  BY <1>1, <1>2 DEF Called, CallsFit, CallFits, History
<1>4. QED
  BY <1>2, <1>3 DEF Called, CallsFit

LEMMA BeginFits ==
    ASSUME Called, NEW h \in Caller, NEW op \in Operation, NEW s \in Session,
           NEW stage \in {"asking", "counting notifications"}, NEW seen \in Row \cup {None},
           Begin(h, op, s, stage, seen), UNCHANGED notification,
           op \in {"get", "logout"} => seen \in Row,
           op = "delete" <=> stage = "counting notifications"
    PROVE  Called'
<1>1. PICK new : new = [op |-> op, session |-> s, stage |-> stage, seen |-> seen,
                        old |-> op = "delete" /\ History(s)]
  OBVIOUS
<1>2. new \in Call /\ new.op = op /\ new.session = s /\ new.stage = stage /\ new.seen = seen
      /\ (new.old => op = "delete" /\ History(s))
  BY <1>1 DEF Call, Stage, AtProvider
<1>3. call' = [call EXCEPT ![h] = new]
  BY <1>1 DEF Begin
<1>4. /\ call' \in [Caller -> Call \cup {None}] /\ call'[h] = new
      /\ \A g \in Caller : g # h => call'[g] = call[g]
  BY <1>2, <1>3 DEF Called
<1>5. CallFits(h)'
  BY <1>2, <1>4 DEF CallFits, History
<1>6. \A g \in Caller : g # h /\ call'[g] # None => CallFits(g)'
  BY <1>4 DEF Called, CallsFit, CallFits, History
<1>7. QED
  BY <1>4, <1>5, <1>6 DEF Called, CallsFit

LEMMA ProceedFits ==
    ASSUME Called, NEW h \in Caller, call[h] # None, NEW stage \in Stage,
           NEW seen \in Row \cup {None}, Proceed(h, stage, seen), UNCHANGED notification,
           stage # "counting notifications",
           stage \in {"rereading", "recording"} => seen \in Row,
           stage = "asking" => call[h].op \notin {"get", "logout"},
           ~call[h].old
    PROVE  Called'
<1>1. PICK was \in Call : was = call[h]
  BY BusyFits
<1>2. PICK new : new = [was EXCEPT !.stage = stage, !.seen = seen]
  OBVIOUS
<1>3. new \in Call /\ new.op = was.op /\ new.session = was.session /\ new.stage = stage
      /\ new.seen = seen /\ new.old = was.old
  BY <1>2 DEF Call
<1>4. /\ call' \in [Caller -> Call \cup {None}] /\ call'[h] = new
      /\ \A g \in Caller : g # h => call'[g] = call[g]
  BY <1>1, <1>2, <1>3 DEF Called, Proceed
<1>5. CallFits(h)'
  BY <1>1, <1>3, <1>4 DEF CallFits
<1>6. \A g \in Caller : g # h /\ call'[g] # None => CallFits(g)'
  BY <1>4 DEF Called, CallsFit, CallFits, History
<1>7. QED
  BY <1>4, <1>5, <1>6 DEF Called, CallsFit

(* Past the count, a call came before anything was queued. *)
LEMMA BusyIsYoung ==
    ASSUME Called, NEW h \in Caller, call[h] # None, call[h].stage # "counting notifications"
    PROVE  ~call[h].old
BY BusyFits DEF CallFits

LEMMA StatusIsRow ==
    \A x \in Status, a \in Account \cup {None} : [status |-> x, account |-> a] \in Row
BY DEF Row

-----------------------------------------------------------------------------
(* The rows.                                                               *)

LEMMA WriteHolds ==
    ASSUME Held, NEW s \in Session, NEW r \in Row, Written(s, r),
           UNCHANGED <<created, pin, notification, draft>>
    PROVE  Held'
<1>1. row' \in [Session -> Row \cup {None}] /\ \A t \in Session : row'[t] = None <=> row[t] = None
  BY Apart DEF Held, Written, Listed
<1>2. \A n \in notification : n.session \in Session \/ row'[n.session] = row[n.session]
  BY DEF Held, Written
<1>3. Anchored'
  BY <1>1, <1>2 DEF Held, Anchored, Listed
<1>4. QED
  BY <1>1, <1>3 DEF Held

LEMMA InsertHolds ==
    ASSUME Held, NEW h \in Caller, Insert(h), UNCHANGED draft
    PROVE  Held' /\ created + 1 \in Session
<1>1. created + 1 \in Session /\ created' = created + 1
  BY Apart DEF Held, Insert, Session
<1>2. PICK r \in Row : r = [status |-> "STOPPED", account |-> None]
  BY StatusIsRow DEF Status
<1>3. row' = [row EXCEPT ![created + 1] = r]
  BY <1>2 DEF Insert
<1>4. row' \in [Session -> Row \cup {None}] /\ \A t \in Session : row[t] # None => row'[t] # None
  BY <1>1, <1>3, Apart DEF Held
<1>5. \A s \in Session : s > created' => row'[s] = None
  <2>1. TAKE s \in Session
  <2>2. s \in Int /\ created \in Int
    BY Apart DEF Held, Session
  <2>3. QED
    BY <1>1, <1>3, <2>2 DEF Held
<1>6. \A s : row[s] # None /\ s # created + 1 => row'[s] = row[s]
  BY <1>3 DEF Held
<1>7. Anchored'
  BY <1>1, <1>3, <1>4, <1>6, Apart DEF Held, Anchored, Listed, Insert
<1>8. created' \in 0 .. MaxSessions
  BY <1>1, Apart DEF Session
<1>9. pin' = pin
  BY DEF Insert
<1>10. QED
  BY <1>1, <1>4, <1>5, <1>7, <1>8, <1>9 DEF Held

LEMMA RemoveHolds ==
    ASSUME Held, NEW s \in Session, ~Pinned(s),
           row' = [row EXCEPT ![s] = IF History(s) THEN @ ELSE None],
           UNCHANGED <<created, pin, notification, draft>>
    PROVE  Held'
<1>1. row' \in [Session -> Row \cup {None}] /\ \A t \in Session : row[t] = None => row'[t] = None
  BY DEF Held
<1>2. \A t : t # s \/ History(s) => row'[t] = row[t]
  BY DEF Held
<1>3. \A n \in notification : row'[n.session] = row[n.session]
  BY <1>2 DEF History
<1>4. \A c \in Client : row'[pin[c]] = row[pin[c]]
  BY <1>2 DEF Pinned
<1>5. Anchored'
  BY <1>3, <1>4 DEF Held, Anchored, Listed
<1>6. QED
  BY <1>1, <1>5 DEF Held

-----------------------------------------------------------------------------
(* The steps of a call.                                                    *)

LEMMA CountNotificationsRows ==
    ASSUME Rows, NEW h \in Caller, CountNotifications(h), UNCHANGED creationVars
    PROVE  Rows'
<1>1. Held /\ Provided /\ Called /\ Counted
  BY RowsAre
<1>2. call[h] # None /\ call[h].stage = "counting notifications"
  BY DEF CountNotifications, Busy
<1>3. Called'
  <2>1. CASE History(call[h].session)
    BY <1>1, <2>1, FinishFits DEF CountNotifications, tables
  <2>2. CASE ~History(call[h].session)
    <3>1. call[h].op = "delete" /\ ~call[h].old
      BY <1>1, <1>2, <2>2, BusyFits DEF CallFits
    <3>2. Proceed(h, "asking", None)
      BY <2>2 DEF CountNotifications
    <3>3. QED
      BY <1>1, <1>2, <3>1, <3>2, ProceedFits DEF Stage, AtProvider, CountNotifications, tables
  <2>3. QED
    BY <2>1, <2>2
<1>4. Held' /\ Provided' /\ Counted'
  BY <1>1, HeldKept, ProvidedKept, CountedKept DEF CountNotifications, tables, creationVars
<1>5. QED
  BY <1>3, <1>4, RowsAreNext

(* A call that asks the provider proceeds with what it makes of the answer, *)
(* or ends.                                                                *)
LEMMA AskRows ==
    ASSUME Rows, NEW h \in Caller, call[h] # None, call[h].stage \in AtProvider, Provided',
           \/ Finish(h)
           \/ \E stage \in {"stopping first", "starting again", "recreating", "removing",
                            "recording", "rereading"} :
                 \E seen \in Row \cup {None} :
                    /\ Proceed(h, stage, seen)
                    /\ stage \in {"rereading", "recording"} => seen \in Row,
           UNCHANGED <<tables, calls, draft>>, mishaps' \in 0 .. MaxMishaps
    PROVE  Rows'
<1>1. Held /\ Called /\ Counted
  BY RowsAre
<1>2. UNCHANGED <<row, created, notification, pin>>
  BY DEF tables
<1>3. ~call[h].old
  BY <1>1, BusyIsYoung DEF AtProvider
<1>4. Called'
  <2>1. CASE Finish(h)
    BY <1>1, <1>2, <2>1, FinishFits
  <2>2. CASE ~Finish(h)
    <3>1. PICK stage \in {"stopping first", "starting again", "recreating", "removing",
                          "recording", "rereading"},
               seen \in Row \cup {None} :
                  /\ Proceed(h, stage, seen)
                  /\ stage \in {"rereading", "recording"} => seen \in Row
      BY <2>2
    <3>2. stage \in Stage /\ stage # "asking" /\ stage # "counting notifications"
      BY DEF Stage, AtProvider
    <3>3. QED
      BY <1>1, <1>2, <1>3, <3>1, <3>2, ProceedFits
  <2>3. QED
    BY <2>1, <2>2
<1>5. Held' /\ Counted'
  BY <1>1, <1>2, HeldKept DEF Counted
<1>6. QED
  BY <1>4, <1>5, RowsAreNext

LEMMA AnswerRecorded ==
    ASSUME NEW h \in Caller, call[h].session \in Session, Answered(h),
           remote'[call[h].session] \in RemoteSession
    PROVE  \E seen \in Row : Proceed(h, "rereading", seen)
<1>1. remote'[call[h].session].status \in Status
  BY RemotesFit
<1>2. [status |-> remote'[call[h].session].status, account |-> None] \in Row
  BY <1>1, StatusIsRow
<1>3. QED
  BY <1>2 DEF Answered

LEMMA RemoteStepRows ==
    ASSUME Rows, NEW h \in Caller, UNCHANGED creationVars,
           \/ AskToCreate(h) \/ AskForStatus(h) \/ AskToStart(h) \/ StopFirst(h) \/ StartAgain(h)
           \/ RecreateAtProvider(h) \/ AskToStop(h) \/ AskToLogOut(h) \/ AskToDelete(h)
    PROVE  Rows'
<1>1. Held /\ Provided /\ Called /\ Counted
  BY RowsAre
<1>2. /\ call[h] # None /\ call[h].stage \in AtProvider /\ Effect(h)
      /\ UNCHANGED <<tables, calls, mishaps, draft>>
  BY DEF AskToCreate, AskForStatus, AskToStart, StopFirst, StartAgain, RecreateAtProvider,
         AskToStop, AskToLogOut, AskToDelete, Asking, Busy, AtProvider, creationVars
<1>3. PICK s \in Session : s = call[h].session
  BY <1>1, <1>2, BusyFits
<1>4. Provided' /\ mishaps' \in 0 .. MaxMishaps
  BY <1>1, <1>2, <1>3, EffectDoes DEF Leaves, Counted
<1>5. remote[s] # None => remote[s] \in RemoteSession
  BY <1>1 DEF Provided
<1> DEFINE Goes ==
      \/ Finish(h)
      \/ \E stage \in {"stopping first", "starting again", "recreating", "removing",
                       "recording", "rereading"} :
            \E seen \in Row \cup {None} :
               /\ Proceed(h, stage, seen)
               /\ stage \in {"rereading", "recording"} => seen \in Row
<1>6. (\E seen \in Row : Proceed(h, "recording", seen)) => Goes
  OBVIOUS
<1>7. (\E seen \in Row : Proceed(h, "rereading", seen)) => Goes
  OBVIOUS
<1>8. \A stage \in {"stopping first", "starting again", "recreating", "removing"} :
          Proceed(h, stage, None) => Goes
  OBVIOUS
<1>9. Finish(h) => Goes
  OBVIOUS
<1> HIDE DEF Goes
<1>10. CASE AskToCreate(h)
  <2>1. remote'[s] \in RemoteSession
    BY <1>1, <1>2, <1>3, <1>10, EffectDoes DEF AskToCreate, Asking, Busy
  <2>2. View(remote'[s]) \in Row
    BY <2>1, RemotesFit
  <2>3. Proceed(h, "recording", View(remote'[s])) \/ Proceed(h, "removing", None)
    BY <1>3, <1>10 DEF AskToCreate
  <2>4. Goes
    BY <1>6, <1>8, <2>2, <2>3
  <2>5. QED
    BY <1>2, <1>4, <2>4, AskRows DEF Goes
<1>11. CASE AskForStatus(h)
  <2>1. call[h].stage = "asking" /\ call[h].op = "get" /\ Refresh(h, remote[s], call[h].seen)
    BY <1>3, <1>11 DEF AskForStatus, Asking, Busy
  <2>2. call[h].seen \in Row
    BY <1>1, <1>2, <2>1, BusyFits DEF CallFits
  <2>3. Forgotten(call[h].seen) \in Row /\ (remote[s] # None => View(remote[s]) \in Row)
    BY <1>5, <2>2, RemotesFit DEF Forgotten, Row, Status
  <2>4. \/ Finish(h)
        \/ remote[s] = None /\ Proceed(h, "recording", Forgotten(call[h].seen))
        \/ remote[s] # None /\ Proceed(h, "recording", View(remote[s]))
    BY <2>1 DEF Refresh
  <2>5. Goes
    BY <1>6, <1>9, <2>3, <2>4
  <2>6. QED
    BY <1>2, <1>4, <2>5, AskRows DEF Goes
<1>12. CASE AskToStart(h)
  <2>1. call[h].stage = "asking" /\ call[h].op = "start"
    BY <1>12 DEF AskToStart, Asking, Busy
  <2>2. remote[s] # None => remote'[s] \in RemoteSession
    BY <1>1, <1>2, <1>3, <2>1, EffectDoes
  <2>3. \/ Proceed(h, "recreating", None) \/ Proceed(h, "stopping first", None)
        \/ remote[s] # None /\ Answered(h)
    BY <1>3, <1>12 DEF AskToStart
  <2>4. Goes
    BY <1>3, <1>7, <1>8, <2>2, <2>3, AnswerRecorded
  <2>5. QED
    BY <1>2, <1>4, <2>4, AskRows DEF Goes
<1>13. CASE StopFirst(h)
  <2>1. Proceed(h, "recreating", None) \/ Proceed(h, "starting again", None)
    BY <1>13 DEF StopFirst
  <2>2. Goes
    BY <1>8, <2>1
  <2>3. QED
    BY <1>2, <1>4, <2>2, AskRows DEF Goes
<1>14. CASE StartAgain(h)
  <2>1. call[h].stage = "starting again"
    BY <1>14 DEF StartAgain, Busy
  <2>2. remote[s] # None => remote'[s] \in RemoteSession
    BY <1>1, <1>2, <1>3, <2>1, EffectDoes
  <2>3. Proceed(h, "recreating", None) \/ (remote[s] # None /\ Answered(h))
    BY <1>3, <1>14 DEF StartAgain
  <2>4. Goes
    BY <1>3, <1>7, <1>8, <2>2, <2>3, AnswerRecorded
  <2>5. QED
    BY <1>2, <1>4, <2>4, AskRows DEF Goes
<1>15. CASE RecreateAtProvider(h)
  <2>1. remote'[s] \in RemoteSession
    BY <1>1, <1>2, <1>3, <1>15, EffectDoes DEF RecreateAtProvider, Busy
  <2>2. View(remote'[s]) \in Row
    BY <2>1, RemotesFit
  <2>3. Proceed(h, "recording", View(remote'[s])) \/ Finish(h)
    BY <1>3, <1>15 DEF RecreateAtProvider
  <2>4. Goes
    BY <1>6, <1>9, <2>2, <2>3
  <2>5. QED
    BY <1>2, <1>4, <2>4, AskRows DEF Goes
<1>16. CASE AskToStop(h)
  <2>1. call[h].stage = "asking" /\ call[h].op = "stop"
    BY <1>16 DEF AskToStop, Asking, Busy
  <2>2. remote[s] # None => remote'[s] \in RemoteSession
    BY <1>1, <1>2, <1>3, <2>1, EffectDoes
  <2>3. Finish(h) \/ (remote[s] # None /\ Answered(h))
    BY <1>3, <1>16 DEF AskToStop
  <2>4. Goes
    BY <1>3, <1>7, <1>9, <2>2, <2>3, AnswerRecorded
  <2>5. QED
    BY <1>2, <1>4, <2>4, AskRows DEF Goes
<1>17. CASE AskToLogOut(h)
  <2>1. call[h].stage = "asking" /\ call[h].op = "logout"
    BY <1>17 DEF AskToLogOut, Asking, Busy
  <2>2. remote[s] # None => remote'[s] \in RemoteSession
    BY <1>1, <1>2, <1>3, <2>1, EffectDoes
  <2>3. call[h].seen \in Row
    BY <1>1, <1>2, <2>1, BusyFits DEF CallFits
  <2>4. Forgotten(call[h].seen) \in Row
    BY <2>3 DEF Forgotten, Row, Status
  <2>5. Proceed(h, "recording", Forgotten(call[h].seen)) \/ (remote[s] # None /\ Answered(h))
    BY <1>3, <1>17 DEF AskToLogOut
  <2>6. Goes
    BY <1>3, <1>6, <1>7, <2>2, <2>4, <2>5, AnswerRecorded
  <2>7. QED
    BY <1>2, <1>4, <2>6, AskRows DEF Goes
<1>18. CASE AskToDelete(h)
  <2>1. Goes
    BY <1>8, <1>18 DEF AskToDelete
  <2>2. QED
    BY <1>2, <1>4, <2>1, AskRows DEF Goes
<1>19. QED
  BY <1>10, <1>11, <1>12, <1>13, <1>14, <1>15, <1>16, <1>17, <1>18

LEMMA UnansweredRows ==
    ASSUME Rows, NEW h \in Caller, Unanswered(h), UNCHANGED creationVars
    PROVE  Rows'
<1>1. Provided /\ Called /\ Counted
  BY RowsAre
<1>2. call[h] # None /\ call[h].stage \in AtProvider /\ UNCHANGED <<tables, calls, draft>>
  BY DEF Unanswered, creationVars
<1>3. PICK s \in Session : s = call[h].session
  BY <1>1, <1>2, BusyFits
<1>4. Provided'
  <2>1. Effect(h) => Provided'
    BY <1>1, <1>2, <1>3, EffectDoes DEF Leaves
  <2>2. Unmoved => Provided'
    BY <1>1, ProvidedKept DEF Unmoved
  <2>3. QED
    BY <2>1, <2>2 DEF Unanswered
<1>5. mishaps' \in 0 .. MaxMishaps
  BY <1>1, SessionsAssumption DEF Unanswered, Mishap, Counted
<1>6. Finish(h) \/ Proceed(h, "removing", None)
  BY DEF Unanswered, GiveUp
<1>7. QED
  BY <1>2, <1>4, <1>5, <1>6, AskRows

LEMMA RereadRows ==
    ASSUME Rows, NEW h \in Caller, Reread(h), UNCHANGED creationVars
    PROVE  Rows'
<1>1. Held /\ Provided /\ Called /\ Counted
  BY RowsAre
<1>2. call[h] # None /\ call[h].stage = "rereading"
  BY DEF Reread, Busy
<1>3. PICK s \in Session : s = call[h].session
  BY <1>1, <1>2, BusyFits
<1>4. Called'
  <2>1. CASE Listed(s)
    <3>1. call[h].seen \in Row /\ row[s] \in Row
      BY <1>1, <1>2, <2>1, BusyFits DEF CallFits, Held, Listed
    <3>2. [call[h].seen EXCEPT !.account = row[s].account] \in Row
      BY <3>1 DEF Row
    <3>3. Proceed(h, "recording", [call[h].seen EXCEPT !.account = row[s].account])
      BY <1>3, <2>1 DEF Reread
    <3>4. ~call[h].old /\ "recording" \in Stage /\ notification' = notification
      BY <1>1, <1>2, BusyIsYoung DEF Stage, Reread, tables
    <3>5. QED
      BY <1>1, <1>2, <3>2, <3>3, <3>4, ProceedFits
  <2>2. CASE ~Listed(s)
    BY <1>1, <1>3, <2>2, FinishFits DEF Reread, tables
  <2>3. QED
    BY <2>1, <2>2
<1>5. Held' /\ Provided' /\ Counted'
  BY <1>1, HeldKept, ProvidedKept, CountedKept DEF Reread, tables, creationVars
<1>6. QED
  BY <1>4, <1>5, RowsAreNext

LEMMA RecordRows ==
    ASSUME Rows, NEW h \in Caller, Record(h), UNCHANGED creationVars
    PROVE  Rows'
<1>1. Held /\ Provided /\ Called /\ Counted
  BY RowsAre
<1>2. call[h] # None /\ call[h].session \in Session /\ call[h].seen \in Row
  BY <1>1, BusyFits DEF Record, Busy, CallFits
<1>3. Held'
  BY <1>1, <1>2, WriteHolds DEF Record, creationVars
<1>4. Called'
  BY <1>1, FinishFits DEF Record
<1>5. Provided' /\ Counted'
  BY <1>1, ProvidedKept, CountedKept DEF Record
<1>6. QED
  BY <1>3, <1>4, <1>5, RowsAreNext

LEMMA RemoveRowRows ==
    ASSUME Rows, NEW h \in Caller, RemoveRow(h), UNCHANGED creationVars
    PROVE  Rows'
<1>1. Held /\ Provided /\ Called /\ Counted
  BY RowsAre
<1>2. PICK s \in Session : s = call[h].session
  BY <1>1, BusyFits DEF RemoveRow, Busy
<1>3. Held'
  BY <1>1, <1>2, RemoveHolds DEF RemoveRow, creationVars
<1>4. Called'
  BY <1>1, FinishFits DEF RemoveRow
<1>5. Provided' /\ Counted'
  BY <1>1, ProvidedKept, CountedKept DEF RemoveRow
<1>6. QED
  BY <1>3, <1>4, <1>5, RowsAreNext

LEMMA CallStepRows ==
    ASSUME Rows, NEW h \in Caller, CallStep(h), UNCHANGED creationVars
    PROVE  Rows'
BY CountNotificationsRows, RemoteStepRows, RereadRows, RecordRows, RemoveRowRows DEF CallStep

LEMMA DieRows ==
    ASSUME Rows, NEW h \in Caller, Die(h), UNCHANGED creationVars
    PROVE  Rows'
<1>1. Held /\ Provided /\ Called /\ Counted
  BY RowsAre
<1>2. Called'
  BY <1>1, FinishFits DEF Die, tables
<1>3. Held' /\ Provided'
  BY <1>1, HeldKept, ProvidedKept DEF Die, tables, creationVars
<1>4. Counted'
  BY <1>1, SessionsAssumption DEF Counted, Die, Mishap
<1>5. QED
  BY <1>2, <1>3, <1>4, RowsAreNext

-----------------------------------------------------------------------------
(* A call begins.                                                          *)

LEMMA RowsInserted ==
    ASSUME Rows, NEW h \in Caller, Insert(h), UNCHANGED creationVars
    PROVE  Rows'
<1>1. Held /\ Provided /\ Called /\ Counted
  BY RowsAre
<1>2. Held' /\ created + 1 \in Session
  BY <1>1, InsertHolds DEF creationVars
<1>3. Begin(h, "create", created + 1, "asking", None) /\ notification' = notification
  BY DEF Insert
<1>4. Called'
  BY <1>1, <1>2, <1>3, BeginFits DEF Operation
<1>5. Provided'
  BY <1>1, ProvidedKept DEF Insert
<1>6. Counted'
  BY <1>1, SessionsAssumption DEF Counted, Insert
<1>7. QED
  BY <1>2, <1>4, <1>5, <1>6, RowsAreNext

LEMMA RequestRows ==
    ASSUME Rows, NEW h \in Caller, NEW s \in Session, UNCHANGED creationVars,
           Look(h, s) \/ Start(h, s) \/ Stop(h, s) \/ LogOut(h, s) \/ Delete(h, s)
    PROVE  Rows'
<1>1. Held /\ Provided /\ Called /\ Counted
  BY RowsAre
<1>2. Listed(s) /\ UNCHANGED <<tables, remote, callbacks, mishaps>>
  BY DEF Look, Start, Stop, LogOut, Delete, Request
<1>3. row[s] \in Row
  BY <1>1, <1>2 DEF Held, Listed
<1>4. notification' = notification
  BY <1>2 DEF tables
<1>5. Called'
  <2>1. CASE Begin(h, "get", s, "asking", row[s])
    BY <1>1, <1>3, <1>4, <2>1, BeginFits DEF Operation
  <2>2. CASE Begin(h, "start", s, "asking", None)
    BY <1>1, <1>4, <2>2, BeginFits DEF Operation
  <2>3. CASE Begin(h, "stop", s, "asking", None)
    BY <1>1, <1>4, <2>3, BeginFits DEF Operation
  <2>4. CASE Begin(h, "logout", s, "asking", row[s])
    BY <1>1, <1>3, <1>4, <2>4, BeginFits DEF Operation
  <2>5. CASE Begin(h, "delete", s, "counting notifications", None)
    BY <1>1, <1>4, <2>5, BeginFits DEF Operation
  <2>6. QED
    BY <2>1, <2>2, <2>3, <2>4, <2>5 DEF Look, Start, Stop, LogOut, Delete, Request
<1>6. Held' /\ Provided'
  BY <1>1, <1>2, HeldKept, ProvidedKept DEF tables, creationVars
<1>7. calls' = calls \/ (calls < MaxCalls /\ calls' = calls + 1)
  BY DEF Look, Start, Stop, LogOut, Delete, Request
<1>8. Counted'
  BY <1>1, <1>2, <1>7, SessionsAssumption DEF Counted
<1>9. QED
  BY <1>5, <1>6, <1>8, RowsAreNext

-----------------------------------------------------------------------------
(* What happens at the provider, and its callbacks.                        *)

LEMMA ProviderRows ==
    ASSUME Rows, NEW s \in Session, UNCHANGED creationVars,
           ShowCode(s) \/ Scan(s) \/ ExpireCode(s) \/ Drop(s) \/ Forget(s)
    PROVE  Rows'
<1>1. Held /\ Provided /\ Called /\ Counted
  BY RowsAre
<1>2. remote[s] # None /\ UNCHANGED <<tables, call, calls>>
  BY DEF ShowCode, Scan, ExpireCode, Drop, Forget, Scannable
<1>3. PICK r \in RemoteSession : r = remote[s]
  BY <1>1, <1>2 DEF Provided
<1>4. Provided'
  <2>1. CASE ShowCode(s)
    <3>1. [r EXCEPT !.shown = TRUE] \in RemoteSession
          /\ remote' = [remote EXCEPT ![s] = [r EXCEPT !.shown = TRUE]]
      BY <1>1, <1>3, <2>1, RemotesFit DEF ShowCode, Provided
    <3>2. QED
      BY <1>1, <2>1, <3>1 DEF Provided, ShowCode
  <2>2. CASE Scan(s)
    <3>1. PICK a \in Account : Announce(s, Scanned(r, a), a)
      BY <1>3, <2>2 DEF Scan
    <3>2. Scanned(r, a) \in RemoteSession
      BY RemotesFit
    <3>3. QED
      BY <1>1, <3>1, <3>2, AnnounceFits
  <2>3. CASE ExpireCode(s)
    <3>1. NextCode(r) \in RemoteSession /\ Announce(s, NextCode(r), None)
      BY <1>3, <2>3, RemotesFit DEF ExpireCode
    <3>2. QED
      BY <1>1, <3>1, AnnounceFits
  <2>4. CASE Drop(s)
    <3>1. /\ [r EXCEPT !.status = "FAILED"] \in RemoteSession /\ r.account \in Account \cup {None}
          /\ Announce(s, [r EXCEPT !.status = "FAILED"], r.account)
      BY <1>3, <2>4, RemotesFit DEF Drop
    <3>2. QED
      BY <1>1, <3>1, AnnounceFits
  <2>5. CASE Forget(s)
    BY <1>1, <2>5 DEF Forget, Provided
  <2>6. QED
    BY <2>1, <2>2, <2>3, <2>4, <2>5
<1>5. Counted'
  BY <1>1, SessionsAssumption DEF Counted, ShowCode, Scan, ExpireCode, Drop, Forget, Mishap
<1>6. Held' /\ Called'
  BY <1>1, <1>2, HeldKept, CalledKept DEF tables, creationVars
<1>7. QED
  BY <1>4, <1>5, <1>6, RowsAreNext

LEMMA CallbackRows ==
    ASSUME Rows, NEW c \in callbacks, UNCHANGED creationVars,
           ApplySessionStatus(c) \/ LoseCallback(c)
    PROVE  Rows'
<1>1. Held /\ Provided /\ Called /\ Counted
  BY RowsAre
<1>2. c.session \in Session /\ [status |-> c.status, account |-> c.account] \in Row
  BY <1>1, StatusIsRow DEF Provided, Callback
<1>3. Held'
  <2>1. ApplySessionStatus(c) => Held'
    BY <1>1, <1>2, WriteHolds DEF ApplySessionStatus, creationVars
  <2>2. LoseCallback(c) => Held'
    BY <1>1, HeldKept DEF LoseCallback, tables, creationVars
  <2>3. QED
    BY <2>1, <2>2
<1>4. notification' = notification /\ call' = call
  BY DEF ApplySessionStatus, LoseCallback, tables
<1>5. Called'
  BY <1>1, <1>4, CalledKept
<1>6. Provided'
  BY <1>1 DEF Provided, ApplySessionStatus, LoseCallback
<1>7. Counted'
  BY <1>1, SessionsAssumption DEF Counted, ApplySessionStatus, LoseCallback, Mishap
<1>8. QED
  BY <1>3, <1>5, <1>6, <1>7, RowsAreNext

LEMMA SessionsRows ==
    ASSUME Rows, SessionsNext, UNCHANGED creationVars
    PROVE  Rows'
BY RowsInserted, CallStepRows, UnansweredRows, DieRows, RequestRows, ProviderRows, CallbackRows
   DEF SessionsNext

(* None of them touches what transactions write. *)
LEMMA SessionsSpareBooks ==
    ASSUME SessionsNext PROVE UNCHANGED <<notification, job, key>>
<1>1. ASSUME NEW h \in Caller, CallStep(h) PROVE UNCHANGED <<notification, job, key>>
  BY <1>1 DEF CallStep, CountNotifications, AskToCreate, AskForStatus, AskToStart, StopFirst,
     StartAgain, RecreateAtProvider, AskToStop, AskToLogOut, AskToDelete, Reread, Record,
     RemoveRow, Asking, tables
<1>2. ASSUME NEW h \in Caller, Insert(h) \/ Unanswered(h) \/ Die(h)
      PROVE  UNCHANGED <<notification, job, key>>
  BY <1>2 DEF Insert, Unanswered, Die, tables
<1>3. ASSUME NEW h \in Caller, NEW s \in Session,
             Look(h, s) \/ Start(h, s) \/ Stop(h, s) \/ LogOut(h, s) \/ Delete(h, s)
      PROVE  UNCHANGED <<notification, job, key>>
  BY <1>3 DEF Look, Start, Stop, LogOut, Delete, Request, tables
<1>4. ASSUME NEW s \in Session, ShowCode(s) \/ Scan(s) \/ ExpireCode(s) \/ Drop(s) \/ Forget(s)
      PROVE  UNCHANGED <<notification, job, key>>
  BY <1>4 DEF ShowCode, Scan, ExpireCode, Drop, Forget, tables
<1>5. ASSUME NEW c \in callbacks, ApplySessionStatus(c) \/ LoseCallback(c)
      PROVE  UNCHANGED <<notification, job, key>>
  BY <1>5 DEF ApplySessionStatus, LoseCallback, tables
<1>6. QED
  BY <1>1, <1>2, <1>3, <1>4, <1>5 DEF SessionsNext

-----------------------------------------------------------------------------
(* The theorems.                                                           *)

LEMMA LifecycleInit == Init => LifecycleInv
BY BooksInit, RowsInit DEF Init, LifecycleInv

LEMMA LifecycleStep == LifecycleInv /\ [Next]_lifecycleVars => LifecycleInv'
<1> SUFFICES ASSUME Books, Rows, [Next]_lifecycleVars PROVE Books' /\ Rows'
  BY DEF LifecycleInv
<1>1. CASE SessionsNext /\ UNCHANGED creationVars
  <2>1. UNCHANGED <<notification, job, key, draft, requests>>
    BY <1>1, SessionsSpareBooks DEF creationVars
  <2>2. QED
    BY <1>1, <2>1, BooksKept, SessionsRows
<1>2. CASE CreationNext /\ UNCHANGED sessionVars
  BY <1>2, CreationBooks, CreationRows
<1>3. CASE UNCHANGED lifecycleVars
  <2>1. UNCHANGED <<tables, sessionVars, creationVars>>
    BY <1>3 DEF lifecycleVars
  <2>2. UNCHANGED <<row, created, notification, job, key, pin, draft, requests, remote, callbacks,
                    call, calls, mishaps>>
    BY <2>1 DEF tables, sessionVars, creationVars
  <2>3. Held /\ Provided /\ Called /\ Counted
    BY RowsAre
  <2>4. QED
    BY <2>2, <2>3, BooksKept, HeldKept, ProvidedKept, CalledKept, CountedKept, RowsAreNext
<1>4. QED
  BY <1>1, <1>2, <1>3 DEF Next

(* Whatever clients, callers, the provider and its callbacks do, in any     *)
(* order, every account of what was made under which key holds, and every   *)
(* connection that is referred to is there.                                *)
THEOREM LifecycleInvariance == Spec => []LifecycleInv
<1>1. Init => LifecycleInv
  BY LifecycleInit
<1>2. LifecycleInv /\ [Next]_lifecycleVars => LifecycleInv'
  BY LifecycleStep
<1>3. QED
  BY <1>1, <1>2, PTL DEF Spec

(* Rows, keys, calls and transactions keep to what the code's types say.    *)
THEOREM LifecycleTypes == Spec => []LifecycleTypeOK
<1>1. LifecycleInv => LifecycleTypeOK
  BY DEF LifecycleInv, Books, BooksTypeOK, Rows, LifecycleTypeOK, TablesTypeOK
<1>2. QED
  BY <1>1, LifecycleInvariance, PTL

(* A request's notifications, their jobs and its key's completion come      *)
(* together or not at all, wherever its transaction fails.                 *)
THEOREM CreationIsAtomic == Spec => []AllOrNothing
<1>1. LifecycleInv => AllOrNothing
  BY DEF LifecycleInv, Books
<1>2. QED
  BY <1>1, LifecycleInvariance, PTL

(* A repeated request is answered with all that was made under its key, by  *)
(* one request for the same.                                               *)
THEOREM ReplaysAreWhole == Spec => []ReplayIsWhole
<1>1. ASSUME LifecycleInv PROVE ReplayIsWhole
  <2>1. SUFFICES ASSUME NEW c \in Client, In(c, "replayed")
                 PROVE  /\ draft[c].result =
                              {n.id : n \in {m \in notification : m.key = draft[c].key}}
                        /\ \E number \in 1 .. MaxRequests :
                              /\ draft[c].result = {number} \X (1 .. draft[c].payload.size)
                              /\ \A n \in Made(number) : n.payload = draft[c].payload
    BY DEF ReplayIsWhole
  <2>2. PICK k \in Key : k = draft[c].key /\ key[k] # None
    BY <1>1, <2>1 DEF LifecycleInv, Books, RepliesFit, ReplyFits
  <2>3. key[k].payload = draft[c].payload /\ key[k].resource = draft[c].result
    BY <1>1, <2>1, <2>2 DEF LifecycleInv, Books, RepliesFit, ReplyFits
  <2>4. /\ key[k].resource = {n.id : n \in {m \in notification : m.key = k}}
        /\ \E number \in 1 .. MaxRequests :
              /\ key[k].resource = {number} \X (1 .. key[k].payload.size)
              /\ \A n \in Made(number) : n.payload = key[k].payload
    BY <1>1, <2>2 DEF LifecycleInv, Books, KeysTell, KeyTells
  <2>5. QED
    BY <2>2, <2>3, <2>4
<1>2. QED
  BY <1>1, LifecycleInvariance, PTL

(* A deletion that came after a notification was queued against the         *)
(* connection never reaches the provider.                                  *)
THEOREM HistoryIsSpared == Spec => []DeletionSparesHistory
<1>1. LifecycleInv => DeletionSparesHistory
  BY DEF LifecycleInv, Rows, CallsFit, CallFits, DeletionSparesHistory
<1>2. QED
  BY <1>1, LifecycleInvariance, PTL

-----------------------------------------------------------------------------
(* Under a key a notification is found, and its connection is there, the    *)
(* one a request for the same names if it names one.                       *)
LEMMA KeyHasConnection ==
    ASSUME Books, Rows, NEW k \in Key, key[k] # None
    PROVE  /\ \E s \in Session : Listed(s)
           /\ key[k].payload.session # None =>
                 key[k].payload.session \in Session /\ Listed(key[k].payload.session)
<1>1. /\ key[k].resource = {n.id : n \in {m \in notification : m.key = k}}
      /\ \E number \in 1 .. MaxRequests :
            /\ key[k].resource = {number} \X (1 .. key[k].payload.size)
            /\ \A n \in Made(number) : n.payload = key[k].payload
  BY DEF Books, KeysTell, KeyTells
<1>2. key[k].payload.size \in {1, 2}
  BY Apart DEF Books, BooksTypeOK, KeyRecord
<1>3. PICK number \in 1 .. MaxRequests :
            /\ key[k].resource = {number} \X (1 .. key[k].payload.size)
            /\ \A n \in Made(number) : n.payload = key[k].payload
  BY <1>1
<1>4. <<number, 1>> \in key[k].resource
  BY <1>2, <1>3
<1>5. PICK n \in notification : n.id = <<number, 1>>
  BY <1>1, <1>4
<1>6. n.payload = key[k].payload
  BY <1>3, <1>5 DEF Made
<1>7. n \in Notification /\ Listed(n.session)
  BY DEF Books, BooksTypeOK, Rows, Anchored
<1>8. n.session \in Session
  BY <1>7 DEF Notification
<1>9. n.payload.session # None => n.session = n.payload.session
  BY DEF Books, AsNamed
<1>10. QED
  BY <1>6, <1>7, <1>8, <1>9

(* A request whose key is completed is not turned away for want of a        *)
(* connection, whatever has been deleted since.                            *)
THEOREM ReplaysFindConnections == Spec => ReplayFindsConnection
<1>1. ASSUME LifecycleInv, [Next]_lifecycleVars, NEW c \in Client,
             In(c, "resolving"), Repeats(c), draft'[c] # None, draft'[c].stage = "refused"
      PROVE  FALSE
  <2>1. Books /\ Rows /\ draft[c] # None /\ draft[c].stage = "resolving"
    BY <1>1 DEF LifecycleInv, In
  <2>2. draft[c] \in Draft /\ draft \in [Client -> Draft \cup {None}]
    BY <2>1 DEF Books, BooksTypeOK, CreationTypeOK
  <2>3. PICK k \in Key : k = draft[c].key /\ key[k] # None /\ key[k].payload = draft[c].payload
    BY <1>1, <2>2 DEF Repeats, Draft
  <2>4. draft'[c] # draft[c]
    BY <1>1, <2>1
  <2>5. CreationNext
    BY <1>1, <2>4 DEF Next, lifecycleVars, creationVars
  <2>6. PICK e \in Client :
            \/ \E p \in Payload, q \in Key \cup {None} : Post(e, p, q)
            \/ RequestStep(e) \/ RollBack(e)
    BY <2>5 DEF CreationNext
  <2>7. e = c
    BY <2>2, <2>4, <2>6 DEF RequestStep, Post, RollBack, ResolveSession, ClaimIdempotencyKey,
       WriteNotification, Complete, Commit, Respond, Refuse, Advance
  <2>8. ResolveSession(c)
    <3>1. ~RollBack(c) /\ ~Respond(c) /\ ~Commit(c)
      BY <1>1, <2>2 DEF RollBack, Respond, Commit
    <3>2. ~ClaimIdempotencyKey(c) /\ ~WriteNotification(c) /\ ~Complete(c)
      BY <2>1 DEF ClaimIdempotencyKey, WriteNotification, Complete, In
    <3>3. \A p, q : ~Post(c, p, q)
      BY <2>1 DEF Post
    <3>4. QED
      BY <2>6, <2>7, <3>1, <3>2, <3>3 DEF RequestStep
  <2>9. PICK asked \in Session \cup {None} : asked = draft[c].payload.session
    BY <2>2, Apart DEF Draft
  <2>10. Resolved(asked) # None
    BY <2>1, <2>3, <2>9, KeyHasConnection, ResolvedFits
  <2>11. draft' = [draft EXCEPT ![c].stage = "claiming", ![c].session = Resolved(asked)]
    BY <2>8, <2>9, <2>10 DEF ResolveSession
  <2>12. draft'[c].stage = "claiming"
    BY <2>2, <2>11 DEF Draft
  <2>13. QED
    BY <1>1, <2>12
<1>2. LifecycleInv /\ [Next]_lifecycleVars =>
          [\A c \in Client :
              In(c, "resolving") /\ Repeats(c) => ~(draft'[c] # None /\ draft'[c].stage = "refused")
          ]_<<tables, creationVars>>
  BY <1>1
<1>3. QED
  BY <1>2, LifecycleInvariance, PTL DEF Spec, ReplayFindsConnection

-----------------------------------------------------------------------------
(* The contract of an idempotency key, under the mapping Outcome.           *)

LEMMA ContractInitially == Init => Contract!ContractInit
<1> SUFFICES ASSUME Init PROVE Outcome = [k \in Key |-> {}]
  BY DEF Contract!ContractInit
<1>1. notification = {}
  BY DEF Init, TablesInit
<1>2. \A k \in Key : {n.id : n \in {m \in notification : m.key = k}} = {}
  BY <1>1
<1>3. QED
  BY <1>2 DEF Outcome

LEMMA CommitSettles ==
    ASSUME Books, NEW c \in Client, Commit(c)
    PROVE  Contract!ContractNext \/ Outcome' = Outcome
<1> USE DEF CommitsAs
<1>1. PICK d \in Draft, own \in SUBSET Identifier, new \in SUBSET Notification :
              CommitsAs(c, d, own, new)
  BY CommitWrites
<1>2. \A k \in Key : k # d.key =>
          {n.id : n \in {m \in notification' : m.key = k}}
          = {n.id : n \in {m \in notification : m.key = k}}
  BY <1>1
<1>3. CASE d.claim = None
  <2>1. \A k \in Key : k # d.key
    BY <1>1, <1>3, Apart
  <2>2. QED
    BY <1>2, <2>1 DEF Outcome
<1>4. CASE d.claim # None
  <2>1. d.key \in Key /\ key[d.key] = None
    BY <1>1, <1>4 DEF DraftFits
  <2>2. \A n \in notification : n.key # d.key
    BY <2>1, Apart DEF Books, AllOrNothing
  <2>3. Outcome[d.key] = {}
    BY <2>1, <2>2 DEF Outcome
  <2>4. {n.id : n \in {m \in notification' : m.key = d.key}} = own
    BY <1>1, <2>2
  <2>5. Outcome' = [Outcome EXCEPT ![d.key] = own]
    <3>1. \A k \in Key : Outcome'[k] = IF k = d.key THEN own ELSE Outcome[k]
      BY <1>2, <2>4 DEF Outcome
    <3>2. DOMAIN Outcome' = Key /\ DOMAIN Outcome = Key
      BY DEF Outcome
    <3>3. Outcome' = [k \in Key |-> Outcome'[k]]
      BY DEF Outcome
    <3>4. QED
      BY <3>1, <3>2, <3>3
  <2>6. Contract!Settle(d.key)
    BY <1>1, <2>3, <2>5 DEF Contract!Settle
  <2>7. QED
    BY <2>1, <2>6 DEF Contract!ContractNext
<1>5. QED
  BY <1>3, <1>4

(* Under a key notifications appear in one step, once: the transactions     *)
(* that claim it implement its contract.                                   *)
THEOREM KeysKeepContract == Spec => KeepsContract
<1>1. Init => Contract!ContractInit
  BY ContractInitially
<1>2. LifecycleInv /\ [Next]_lifecycleVars => [Contract!ContractNext]_Outcome
  <2> SUFFICES ASSUME Books, [Next]_lifecycleVars PROVE [Contract!ContractNext]_Outcome
    BY DEF LifecycleInv
  <2>1. notification' = notification => Outcome' = Outcome
    BY DEF Outcome
  <2>2. notification' = notification \/ \E c \in Client : Commit(c)
    <3>1. ASSUME CreationNext PROVE notification' = notification \/ \E c \in Client : Commit(c)
      <4>1. PICK c \in Client :
                \/ \E p \in Payload, k \in Key \cup {None} : Post(c, p, k)
                \/ RequestStep(c) \/ RollBack(c)
        BY <3>1 DEF CreationNext
      <4>2. Commit(c) \/ notification' = notification
        BY <4>1 DEF RequestStep, Post, RollBack, ResolveSession, ClaimIdempotencyKey,
           WriteNotification, Complete, Respond, tables
      <4>3. QED
        BY <4>2
    <3>2. QED
      BY <3>1, SessionsSpareBooks DEF Next, lifecycleVars, tables
  <2>3. QED
    BY <2>1, <2>2, CommitSettles
<1>3. QED
  BY <1>1, <1>2, LifecycleInvariance, PTL DEF Spec, KeepsContract, Contract!ContractSpec

-----------------------------------------------------------------------------
(* Which steps may make an orphan.                                         *)

Creating(h, s) ==
    call[h] # None /\ call[h].session = s /\ (call[h].stage = "recreating" \/ call[h].op = "create")

Removing(h, s) == Busy(h, "removing") /\ call[h].session = s

(* A row goes by a call that has come to remove it. *)
LEMMA RowsGo ==
    ASSUME Rows, NEW s \in Session, Listed(s), ~Listed(s)', SessionsNext
    PROVE  \E h \in Caller : Removing(h, s)
<1>1. row \in [Session -> Row \cup {None}]
  BY DEF Rows
<1>2. row' # row
  BY DEF Listed
<1>3. ASSUME NEW t, NEW r, r # None, Written(t, r) PROVE FALSE
  BY <1>1, <1>3 DEF Written, Listed
<1>4. ASSUME NEW c \in callbacks, ApplySessionStatus(c) PROVE FALSE
  <2>1. c.status \in Status /\ c.account \in Account \cup {None}
    BY DEF Rows, SessionsTypeOK, Callback
  <2>2. [status |-> c.status, account |-> c.account] # None
    BY <2>1, StatusIsRow, Apart
  <2>3. QED
    BY <1>3, <1>4, <2>2 DEF ApplySessionStatus
<1>5. ASSUME NEW h \in Caller, Record(h) PROVE FALSE
  <2>1. call[h].seen \in Row
    BY <1>5 DEF Rows, CallsFit, CallFits, Record, Busy
  <2>2. QED
    BY <1>3, <1>5, <2>1, Apart DEF Record
<1>6. ASSUME NEW h \in Caller, Insert(h) PROVE FALSE
  <2>1. [status |-> "STOPPED", account |-> None] # None
    BY StatusIsRow, Apart DEF Status
  <2>2. QED
    BY <1>1, <1>6, <2>1 DEF Insert, Listed
<1>7. ASSUME NEW h \in Caller, RemoveRow(h) PROVE Removing(h, s)
  BY <1>1, <1>7 DEF RemoveRow, Removing, Listed
<1>8. \E h \in Caller : RemoveRow(h)
  BY <1>2, <1>4, <1>5, <1>6
     DEF SessionsNext, CallStep, Unanswered, Die, Look, Start, Stop, LogOut, Delete, Request,
         ShowCode, Scan, ExpireCode, Drop, Forget, LoseCallback, CountNotifications, AskToCreate,
         AskForStatus, AskToStart, StopFirst, StartAgain, RecreateAtProvider, AskToStop,
         AskToLogOut, AskToDelete, Reread, Asking, tables
<1>9. QED
  BY <1>7, <1>8

(* The provider comes to have a session by a call that creates it. *)
LEMMA RemotesCome ==
    ASSUME Rows, NEW s \in Session, remote[s] = None, remote'[s] # None, SessionsNext
    PROVE  \E h \in Caller : Creating(h, s)
<1>1. Held /\ Provided /\ Called
  BY RowsAre
<1>2. remote' # remote
  OBVIOUS
<1>3. ASSUME NEW h \in Caller, call[h] # None, call[h].stage \in AtProvider, Effect(h)
      PROVE  Creating(h, s)
  <2>1. PICK t \in Session : t = call[h].session
    BY <1>1, <1>3, BusyFits
  <2>2. t = s
    BY <1>1, <1>3, <2>1, EffectDoes DEF Leaves
  <2>3. QED
    BY <1>1, <1>3, <2>1, <2>2, EffectDoes DEF Creating
<1>4. ASSUME NEW t \in Session, ShowCode(t) \/ Scan(t) \/ ExpireCode(t) \/ Drop(t) \/ Forget(t)
      PROVE  FALSE
  <2>1. remote[t] # None /\ t # s
    BY <1>4 DEF ShowCode, Scan, ExpireCode, Drop, Forget, Scannable
  <2>2. remote'[s] = remote[s]
    BY <1>1, <1>4, <2>1 DEF ShowCode, Scan, ExpireCode, Drop, Forget, Announce, Provided
  <2>3. QED
    BY <2>2
<1>5. \E h \in Caller : call[h] # None /\ call[h].stage \in AtProvider /\ Effect(h)
  BY <1>2, <1>4
     DEF SessionsNext, CallStep, Unanswered, Die, Look, Start, Stop, LogOut, Delete, Request,
         Insert, ApplySessionStatus, LoseCallback, CountNotifications, AskToCreate, AskForStatus,
         AskToStart, StopFirst, StartAgain, RecreateAtProvider, AskToStop, AskToLogOut, AskToDelete,
         Reread, Record, RemoveRow, Asking, Busy, AtProvider, Unmoved
<1>6. QED
  BY <1>3, <1>5

(* A call comes to remove a row once the provider has nothing under its     *)
(* name, or after it tried to create it.                                   *)
LEMMA NoneRemoves ==
    ASSUME Called, NEW h \in Caller,
           \/ Finish(h)
           \/ \E stage, seen : stage # "removing" /\ call[h] # None /\ Proceed(h, stage, seen)
           \/ \E op, t, stage, seen : stage # "removing" /\ Begin(h, op, t, stage, seen)
    PROVE  \A g \in Caller, s \in Session : Removing(g, s)' => Removing(g, s)
<1>1. \A g \in Caller : g # h => call'[g] = call[g]
  BY DEF Called, Finish, Proceed, Begin
<1>2. call'[h] # None => call'[h].stage # "removing"
  <2>1. CASE Finish(h)
    BY <2>1 DEF Called, Finish
  <2>2. ASSUME NEW stage, NEW seen, stage # "removing", call[h] # None, Proceed(h, stage, seen)
        PROVE  call'[h].stage # "removing"
    <3>1. call[h] \in Call /\ call \in [Caller -> Call \cup {None}]
      BY <2>2, BusyFits DEF Called
    <3>2. QED
      BY <2>2, <3>1 DEF Proceed, Call
  <2>3. ASSUME NEW op, NEW t, NEW stage, NEW seen, stage # "removing", Begin(h, op, t, stage, seen)
        PROVE  call'[h].stage # "removing"
    BY <2>3 DEF Called, Begin
  <2>4. QED
    BY <2>1, <2>2, <2>3
<1>3. QED
  BY <1>1, <1>2 DEF Removing, Busy

LEMMA OneRemoves ==
    ASSUME Called, NEW h \in Caller, call[h] # None, Proceed(h, "removing", None),
           NEW g \in Caller, NEW s \in Session, Removing(g, s)'
    PROVE  Removing(g, s) \/ call[h].session = s
<1>1. g # h => call'[g] = call[g]
  BY DEF Called, Proceed
<1>2. call[h] \in Call /\ call \in [Caller -> Call \cup {None}]
  BY BusyFits DEF Called
<1>3. call'[h].session = call[h].session
  BY <1>2 DEF Proceed, Call
<1>4. QED
  BY <1>1, <1>3 DEF Removing, Busy

LEMMA RemovalsFollow ==
    ASSUME Rows, SessionsNext, NEW g \in Caller, NEW s \in Session, Removing(g, s)', ~Removing(g, s)
    PROVE  remote'[s] = None \/ \E h \in Caller : Creating(h, s)
<1>1. Held /\ Provided /\ Called
  BY RowsAre
<1>2. call' # call
  BY DEF Removing, Busy
<1>3. PICK h \in Caller :
          \/ Insert(h) \/ CallStep(h) \/ Unanswered(h) \/ Die(h)
          \/ \E t \in Session :
                Look(h, t) \/ Start(h, t) \/ Stop(h, t) \/ LogOut(h, t) \/ Delete(h, t)
  BY <1>2 DEF SessionsNext, ShowCode, Scan, ExpireCode, Drop, Forget, ApplySessionStatus,
         LoseCallback
<1> DEFINE Ends == Finish(h)
           Goes == \E stage, seen : stage # "removing" /\ call[h] # None /\ Proceed(h, stage, seen)
           Begun == \E op, t, stage, seen : stage # "removing" /\ Begin(h, op, t, stage, seen)
           Tries == call[h] # None /\ call[h].op = "create" /\ Proceed(h, "removing", None)
<1>4. ~Ends /\ ~Goes /\ ~Begun
  BY <1>1, NoneRemoves
<1>5. CASE Tries
  BY <1>1, <1>5, OneRemoves DEF Creating
<1>6. CASE AskToDelete(h)
  <2>1. /\ call[h] # None /\ call[h].stage = "asking" /\ call[h].op = "delete" /\ Effect(h)
        /\ Proceed(h, "removing", None)
    BY <1>6 DEF AskToDelete, Asking, Busy
  <2>2. call[h].session = s
    BY <1>1, <2>1, OneRemoves
  <2>3. QED
    BY <1>1, <2>1, <2>2, EffectDoes DEF AtProvider
<1>7. ~Insert(h) /\ ~Die(h)
  BY <1>4 DEF Insert, Die
<1>8. \A t \in Session :
          ~Look(h, t) /\ ~Start(h, t) /\ ~Stop(h, t) /\ ~LogOut(h, t) /\ ~Delete(h, t)
  BY <1>4 DEF Look, Start, Stop, LogOut, Delete, Request
<1>9. Unanswered(h) => Tries
  BY <1>4 DEF Unanswered, GiveUp
<1>10. ~CountNotifications(h) /\ ~AskForStatus(h) /\ ~Reread(h) /\ ~Record(h) /\ ~RemoveRow(h)
  BY <1>4 DEF CountNotifications, AskForStatus, Reread, Record, RemoveRow, Refresh, Asking, Busy
<1>11. ~AskToStart(h) /\ ~StopFirst(h) /\ ~StartAgain(h)
  BY <1>4 DEF AskToStart, StopFirst, StartAgain, Answered, Asking, Busy
<1>12. ~RecreateAtProvider(h) /\ ~AskToStop(h) /\ ~AskToLogOut(h)
  BY <1>4 DEF RecreateAtProvider, AskToStop, AskToLogOut, Answered, Asking, Busy
<1>13. AskToCreate(h) => Tries
  BY <1>4 DEF AskToCreate, Asking, Busy
<1>14. QED
  BY <1>3, <1>5, <1>6, <1>7, <1>8, <1>9, <1>10, <1>11, <1>12, <1>13 DEF CallStep

(* No deletion, and nothing else, leaves the provider a session that the    *)
(* platform does not know, but for a step that asks it to create one.      *)
THEOREM OnlyCreationsOrphan == Spec => OnlyCreationOrphans
<1>1. ASSUME LifecycleInv, [Next]_lifecycleVars, NEW s \in Session, ~Orphan(s), Orphan(s)'
      PROVE  \E h \in Caller : Creating(h, s)
  <2>1. Rows
    BY <1>1 DEF LifecycleInv
  <2>2. SessionsNext
    BY <1>1 DEF Next, lifecycleVars, CreationNext, RequestStep, Post, RollBack, ResolveSession,
       ClaimIdempotencyKey, WriteNotification, Complete, Commit, Respond, Orphan, Doomed, Listed,
       Busy, sessionVars, tables
  <2>3. CASE remote[s] = None
    BY <1>1, <2>1, <2>2, <2>3, RemotesCome DEF Orphan
  <2>4. CASE remote[s] # None
    <3>1. Listed(s) /\ \A h \in Caller : ~Removing(h, s)
      BY <1>1, <2>4 DEF Orphan, Doomed, Removing
    <3>2. Listed(s)'
      BY <2>1, <2>2, <3>1, RowsGo
    <3>3. remote'[s] # None /\ \E g \in Caller : Removing(g, s)'
      BY <1>1, <3>2 DEF Orphan, Doomed, Removing
    <3>4. QED
      BY <2>1, <2>2, <3>1, <3>3, RemovalsFollow
  <2>5. QED
    BY <2>3, <2>4
<1>2. LifecycleInv /\ [Next]_lifecycleVars =>
          [\A s \in Session : ~Orphan(s) /\ Orphan(s)' =>
              \E h \in Caller :
                  /\ call[h] # None /\ call[h].session = s
                  /\ call[h].stage = "recreating" \/ call[h].op = "create"
          ]_lifecycleVars
  BY <1>1 DEF Creating
<1>3. QED
  BY <1>2, LifecycleInvariance, PTL DEF Spec, OnlyCreationOrphans
=============================================================================
