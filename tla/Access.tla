------------------------------- MODULE Access -------------------------------
(***************************************************************************)
(* What a request passes before a route does its work: the counter of the  *)
(* edge middleware, which each instance keeps for itself, the role and the *)
(* workspace in the caller's session, and the windows that all instances   *)
(* count in Redis.  A session is a signed copy of the user's row that      *)
(* nothing takes back, so it goes on when the row changes, and a logout    *)
(* only drops the browser's copy.                                          *)
(*                                                                         *)
(* All requests are same-origin and come from one address: every counter   *)
(* is kept by address.  The instances share one secret and one clock, and  *)
(* an answer of the database is used at most ReadTime after it was true.   *)
(***************************************************************************)
EXTENDS Integers, Sequences, FiniteSets

CONSTANTS Instances,   \* the web servers
          Calls,       \* requests that may be in flight together
          Requested,   \* the routes that are called
          Users,
          UserRows,    \* what the administrator makes of a user
          Owners,      \* the workspaces that own the campaigns that are called for
          HeaderRoles, \* the roles that the proxy may name in x-clipper-role
          Limit,       \* LIMITS
          EdgeLimit,   \* RATE_LIMIT_PER_MINUTE
          Window,      \* windowSec and WINDOW_MS
          MaxAge,      \* MAX_AGE_SEC
          ReadTime,    \* from a query's reading of a row to the use of its answer, at most
          MaxTime,     \* bound on the clock
          MaxRequests, \* bound on the requests
          MaxChanges   \* bound on the changes of user rows

Null == -1

-----------------------------------------------------------------------------
(* Roles and routes.                                                        *)

Policy ==
  [ADMIN |-> {"campaign.create", "campaign.reparse", "rule.review", "rights.verify",
              "resource.download", "clip.generate", "clip.approve", "clip.reject",
              "publish.draft", "publish.now", "submission.submit", "job.retry", "killswitch"},
   OPERATOR |-> {"campaign.create", "campaign.reparse", "rule.review", "rights.verify",
                 "resource.download", "clip.generate", "clip.approve", "clip.reject",
                 "publish.draft", "job.retry"},
   VIEWER |-> {}]

Can(role, action) == action \in Policy[role]

\* What a route checks, in its order, and which of the LIMITS it counts.
Checks(action, limit, order) == [action |-> action, limit |-> limit, order |-> order]

Login      == Checks("login", "login", <<"limit">>)
PublishNow == Checks("publish.now", "publish", <<"access", "role", "limit">>)
PublishDraft == Checks("publish.draft", "publish", <<"access", "role", "limit">>)
Review     == Checks("publish.now", "none", <<"role", "access">>)
Video      == Checks("watch", "none", <<"access">>)
Thumbnail  == Checks("watch", "none", <<"access">>)
Reparse    == Checks("campaign.reparse", "reparse", <<"role", "limit", "access">>)
Download   == Checks("resource.download", "download", <<"role", "limit", "access">>)
GenerateClips == Checks("clip.generate", "clipGen", <<"role", "limit", "access">>)
Rules      == Checks("rule.review", "none", <<"role", "access">>)
Approve    == Checks("clip.approve", "none", <<"role", "access">>)
Reject     == Checks("clip.reject", "none", <<"role", "access">>)
Create     == Checks("campaign.create", "campaignCreate", <<"role", "limit">>)
Upload     == Checks("campaign.create", "none", <<"role">>)
Confirm    == Checks("submission.submit", "submit", <<"role", "limit">>)
Regenerate == Checks("clip.generate", "none", <<"role">>)
VerifyPermission == Checks("rights.verify", "none", <<"role">>)
Retry      == Checks("job.retry", "none", <<"role">>)
Replay     == Checks("job.retry", "none", <<"role">>)
KillSwitch == Checks("killswitch", "none", <<"role">>)
Discover   == Checks("campaign.reparse", "none", <<"role">>)

Routes ==
  {Login, PublishNow, PublishDraft, Review, Video, Thumbnail, Reparse, Download, GenerateClips,
   Rules, Approve, Reject, Create, Upload, Confirm, Regenerate, VerifyPermission, Retry, Replay,
   KillSwitch, Discover}

-----------------------------------------------------------------------------
(* State.                                                                   *)

ASSUME AccessAssumption ==
  /\ Requested \subseteq Routes
  /\ {Limit, EdgeLimit, Window, MaxAge} \subseteq Nat \ {0}
  /\ {ReadTime, MaxTime, MaxRequests, MaxChanges} \subseteq Nat

VARIABLES
  time,
  users,    \* the User rows
  sessions, \* the cookies in the browsers
  buckets,  \* the middleware's counter of each instance
  counters, \* the keys rl:<name>:<address>:<bucket> in Redis
  call,     \* the requests in flight
  held,     \* ghost: when a user's row last said what it no longer says
  seen,     \* ghost: the requests each instance received, by time
  admitted, \* ghost: the calls that Redis counted and that were let through, by time
  late,     \* ghost: calls let through by the window before the current one
  bounds    \* requests and changes so far

ghosts == <<held, seen, admitted, late>>
vars == <<time, users, sessions, buckets, counters, call, ghosts, bounds>>

Times == 0..MaxTime
Names == {r.limit : r \in Requested} \ {"none"}
Windows == 0..(MaxTime \div Window)
Authority(row) == [role |-> row.role, workspace |-> row.workspace]
Authorities == {Authority(row) : row \in UserRows}

Session == [user : Users, authority : Authorities, exp : 0..(MaxTime + MaxAge)]
NoSession == [user |-> "nobody"]
\* The row of an active user, as the login route has read it.
Row == [user : Users, authority : Authorities, at : Times]
Unread == [at |-> Null]
Idle == [at |-> Null]
None == [n |-> 0, until |-> Null]

Roles == {a.role : a \in Authorities} \cup HeaderRoles
Call ==
  [at : Times, route : Requested, owner : Owners \cup {"pool"}, role : Roles,
   cookie : Session \cup {NoSession}, by : Session \cup {NoSession},
   todo : Seq({"role", "access", "limit"}), window : Windows \cup {Null},
   row : Row \cup {Unread}]
Counter == [n : Nat, until : -1..(MaxTime + Window)]

TypeOK ==
  /\ time \in Times
  /\ users \in [Users -> UserRows]
  /\ sessions \subseteq Session
  /\ buckets \in [Instances -> Counter]
  /\ counters \in [Names \X Windows -> Counter]
  /\ call \in [Calls -> Call \cup {Idle}]
  /\ \A c \in Calls :
       call[c] # Idle =>
         \E i \in 0..Len(call[c].route.order) :
           call[c].todo = SubSeq(call[c].route.order, i + 1, Len(call[c].route.order))
  /\ held \in [Users -> [Authorities -> -1..MaxTime]]
  /\ seen \in [Instances -> [Times -> Nat]]
  /\ admitted \in [Names -> [Times -> Nat]]
  /\ late \in [Names -> Nat]
  /\ bounds \in [requests : 0..MaxRequests, changes : 0..MaxChanges]

Zero == [t \in Times |-> 0]

Init ==
  /\ time = 0
  /\ users \in [Users -> UserRows]
  /\ sessions = {}
  /\ buckets = [i \in Instances |-> None]
  /\ counters = [k \in Names \X Windows |-> None]
  /\ call = [c \in Calls |-> Idle]
  /\ held = [u \in Users |-> [a \in Authorities |-> Null]]
  /\ seen = [i \in Instances |-> Zero]
  /\ admitted = [name \in Names |-> Zero]
  /\ late = [name \in Names |-> 0]
  /\ bounds = [requests |-> 0, changes |-> 0]

-----------------------------------------------------------------------------
(* The middleware.                                                          *)

\* Mutant of Counted: every request moves the end of the window.
CountedMoving(b) ==
  IF b = None \/ b.until < time
  THEN [n |-> 1, until |-> time + Window]
  ELSE [n |-> b.n + 1, until |-> time + Window]

\* A fixed window that starts with the first request after the last one has ended.
Counted(b) ==
  IF b = None \/ b.until < time
  THEN [n |-> 1, until |-> time + Window]
  ELSE [b EXCEPT !.n = @ + 1]

RateLimited(b) == Counted(b).n > EdgeLimit

\* Mutant of VerifySession: the expiry is not looked at.
VerifySignature(cookie) == cookie # NoSession

VerifySession(cookie) == cookie # NoSession /\ cookie.exp >= time

\* The role in a valid session, or else in the header of the proxy.
CurrentRole(cookie, header) == IF VerifySession(cookie) THEN cookie.authority.role ELSE header

\* A request that the middleware lets through; its route determines the role at once.
Arrive(c, i) ==
  /\ call[c] = Idle
  /\ bounds.requests < MaxRequests
  /\ buckets' = [buckets EXCEPT ![i] = Counted(@)]
  /\ seen' = [seen EXCEPT ![i][time] = @ + 1]
  /\ bounds' = [bounds EXCEPT !.requests = @ + 1]
  /\ ~ RateLimited(buckets[i])
  /\ \E r \in Requested, cookie \in sessions \cup {NoSession}, header \in HeaderRoles :
       call' = [call EXCEPT ![c] =
                  [at |-> time, route |-> r, owner |-> "pool", cookie |-> cookie,
                   role |-> CurrentRole(cookie, header),
                   by |-> IF VerifySession(cookie) THEN cookie ELSE NoSession,
                   todo |-> r.order, window |-> Null, row |-> Unread]]
  /\ UNCHANGED <<time, users, sessions, counters, held, admitted, late>>

\* 429 from the middleware.
TurnAway(i) ==
  /\ bounds.requests < MaxRequests
  /\ RateLimited(buckets[i])
  /\ buckets' = [buckets EXCEPT ![i] = Counted(@)]
  /\ seen' = [seen EXCEPT ![i][time] = @ + 1]
  /\ bounds' = [bounds EXCEPT !.requests = @ + 1]
  /\ UNCHANGED <<time, users, sessions, counters, call, held, admitted, late>>

-----------------------------------------------------------------------------
(* The checks of a route.                                                   *)

Checking(c, check) == call[c] # Idle /\ call[c].todo # <<>> /\ Head(call[c].todo) = check
Passed(c) == [call EXCEPT ![c].todo = Tail(@), ![c].window = Null]
Refused(c) == [call EXCEPT ![c] = Idle]

CheckRole(c) ==
  /\ Checking(c, "role")
  /\ call' = IF Can(call[c].role, call[c].route.action) THEN Passed(c) ELSE Refused(c)
  /\ UNCHANGED <<time, users, sessions, buckets, counters, ghosts, bounds>>

\* The pool that nobody has claimed, and what the workspace of the session owns.
Visible(cookie) ==
  IF VerifySession(cookie) THEN {"pool", cookie.authority.workspace} ELSE {"pool"}

\* assertCampaignAccess and its variants, which look the session up once more: the
\* campaign is found to have some owner.
CheckAccess(c) ==
  /\ Checking(c, "access")
  /\ \E owner \in Owners :
       call' = IF owner \in Visible(call[c].cookie)
               THEN [Passed(c) EXCEPT ![c].owner = owner] ELSE Refused(c)
  /\ UNCHANGED <<time, users, sessions, buckets, counters, ghosts, bounds>>

WindowOf(t) == t \div Window

\* rateLimit names its key; the command reaches Redis later.
NameWindow(c) ==
  /\ Checking(c, "limit") /\ call[c].window = Null
  /\ call' = [call EXCEPT ![c].window = WindowOf(time)]
  /\ UNCHANGED <<time, users, sessions, buckets, counters, ghosts, bounds>>

\* The script: INCR, and EXPIRE where the key is new.
Incremented(k) ==
  IF k = None THEN [n |-> 1, until |-> time + Window] ELSE [k EXCEPT !.n = @ + 1]

\* Mutant of Allowed: the count before the call is compared.
AllowedBefore(n) == n - 1 <= Limit

Allowed(n) == n <= Limit

CountWindow(c) ==
  LET name == call[c].route.limit
      key == <<name, call[c].window>>
      next == Incremented(counters[key])
  IN /\ Checking(c, "limit") /\ call[c].window # Null
     /\ counters' = [counters EXCEPT ![key] = next]
     /\ IF Allowed(next.n)
        THEN /\ call' = Passed(c)
             /\ admitted' = [admitted EXCEPT ![name][time] = @ + 1]
             /\ late' = [late EXCEPT ![name] = @ + IF call[c].window < WindowOf(time) THEN 1 ELSE 0]
        ELSE /\ call' = Refused(c)
             /\ UNCHANGED <<admitted, late>>
     /\ UNCHANGED <<time, users, sessions, buckets, held, seen, bounds>>

\* An answer that is an error lets the call pass.  While Redis cannot be reached there
\* is none, and the call waits: the connection retries a command without end
\* (maxRetriesPerRequest: null).
FailOpen(c) ==
  /\ Checking(c, "limit") /\ call[c].window # Null
  /\ call' = Passed(c)
  /\ UNCHANGED <<time, users, sessions, buckets, counters, ghosts, bounds>>

\* The route does its work, which other modules model.
Act(c) ==
  /\ call[c] # Idle /\ call[c].todo = <<>> /\ call[c].route # Login
  /\ call' = Refused(c)
  /\ UNCHANGED <<time, users, sessions, buckets, counters, ghosts, bounds>>

LoggingIn(c) == call[c] # Idle /\ call[c].todo = <<>> /\ call[c].route = Login

\* The query for the user's row; who is not active, or has another password, is refused.
ReadUser(c) ==
  /\ LoggingIn(c) /\ call[c].row = Unread
  /\ \/ \E u \in Users :
          /\ users[u].active
          /\ call' = [call EXCEPT ![c].row =
                        [user |-> u, authority |-> Authority(users[u]), at |-> time]]
     \/ call' = Refused(c)
  /\ UNCHANGED <<time, users, sessions, buckets, counters, ghosts, bounds>>

CreateSession(row) == [user |-> row.user, authority |-> row.authority, exp |-> time + MaxAge]

\* The session is signed for the row as it was read, whatever it says by now.
LogIn(c) ==
  /\ LoggingIn(c) /\ call[c].row # Unread
  /\ sessions' = sessions \cup {CreateSession(call[c].row)}
  /\ call' = Refused(c)
  /\ UNCHANGED <<time, users, buckets, counters, ghosts, bounds>>

-----------------------------------------------------------------------------
(* The environment.                                                         *)

ChangeUser(u) ==
  /\ bounds.changes < MaxChanges
  /\ \E row \in UserRows \ {users[u]} : users' = [users EXCEPT ![u] = row]
  /\ held' = IF users[u].active
             THEN [held EXCEPT ![u][Authority(users[u])] = time] ELSE held
  /\ bounds' = [bounds EXCEPT !.changes = @ + 1]
  /\ UNCHANGED <<time, sessions, buckets, counters, call, seen, admitted, late>>

\* Redis drops the keys that expire, and no row is used later than it may be.
Tick ==
  /\ time < MaxTime
  /\ \A c \in Calls :
       call[c] # Idle => call[c].row = Unread \/ time < call[c].row.at + ReadTime
  /\ time' = time + 1
  /\ counters' = [k \in DOMAIN counters |->
                   IF counters[k].until <= time' THEN None ELSE counters[k]]
  /\ UNCHANGED <<users, sessions, buckets, call, ghosts, bounds>>

Next ==
  \/ \E c \in Calls :
       \/ \E i \in Instances : Arrive(c, i)
       \/ CheckRole(c) \/ CheckAccess(c) \/ NameWindow(c) \/ CountWindow(c) \/ FailOpen(c)
       \/ Act(c) \/ ReadUser(c) \/ LogIn(c)
  \/ \E i \in Instances : TurnAway(i)
  \/ \E u \in Users : ChangeUser(u)
  \/ Tick

Spec == Init /\ [][Next]_vars

-----------------------------------------------------------------------------
(* Properties.                                                              *)

\* Whether the row of a user has said so since a time.
HeldSince(u, authority, t) ==
  \/ users[u].active /\ Authority(users[u]) = authority
  \/ held[u][authority] >= t

\* For how long a row may be used at all: its session, and the login that signed it.
Lifetime == MaxAge + ReadTime

Checked(c, check) ==
  /\ \E i \in DOMAIN call[c].route.order : call[c].route.order[i] = check
  /\ ~ \E i \in DOMAIN call[c].todo : call[c].todo[i] = check

\* A change of a user's row takes effect within MaxAge and the time of a query, although
\* no session is taken back and the login route signs a row that may have changed since
\* it was read: a request that has passed the check of its role on a session, or that
\* of its workspace for a campaign that is owned, comes from a user whose row still gave
\* that role in that workspace at most so long before the request arrived, or gives it
\* now.  A role out of the proxy's header, which also stands in for a session that has
\* expired, is the proxy's to answer for.
\* login's POST, createSession, verifySession, currentRole, assertCampaignAccess.
AuthorityBounded ==
  \A c \in {x \in Calls : call[x] # Idle} :
    /\ Checked(c, "role") /\ call[c].by # NoSession =>
         HeldSince(call[c].by.user, call[c].by.authority, call[c].at - Lifetime)
    /\ Checked(c, "access") /\ call[c].owner # "pool" =>
         /\ call[c].owner = call[c].cookie.authority.workspace
         /\ HeldSince(call[c].cookie.user, call[c].cookie.authority, call[c].at - Lifetime)

\* The calls that were counted at the times T, each known by its time and number.
CallsAt(count, T) == UNION {{t} \X (1..count[t]) : t \in T}
Total(count, T) == Cardinality(CallsAt(count, T))
During(count, from, to) == Total(count, (from..to) \cap Times)

\* Across all instances, no period of the length of a window admits more than twice the
\* limit of the calls that Redis counts, and the calls so far that were sent to Redis in
\* one window and counted in another: neither the expiry of the keys nor a delayed
\* command opens a window again.  A call that passes because its command failed is not
\* counted by Redis, nor here: nothing bounds those.  rateLimit.
BurstBounded ==
  \A name \in Names, t \in Times :
    During(admitted[name], t, t + Window - 1) <= 2 * Limit + late[name]

\* Nobody is locked out: an instance refuses a request only where more than the limit
\* reached it within one window's length, itself included, however often a client that
\* was refused comes back.  rateLimited.
RefusedForCause ==
  \A i \in Instances :
    RateLimited(buckets[i]) => During(seen[i], time - Window, time) >= EdgeLimit
-----------------------------------------------------------------------------
(* The inductive invariant behind the safety properties.                    *)

\* What a session says was so when its user's row was read, at most ReadTime before it was
\* signed, MaxAge before it expires.
SessionInv ==
  /\ \A u \in Users, a \in Authorities : held[u][a] <= time
  /\ \A s \in sessions :
       s.exp <= time + MaxAge /\ HeldSince(s.user, s.authority, s.exp - Lifetime)

\* A row that was read said so then, and will be used in time.
RowInv ==
  \A c \in {x \in Calls : call[x] # Idle /\ call[x].row # Unread} :
    /\ call[c].row.at <= time /\ time <= call[c].row.at + ReadTime
    /\ HeldSince(call[c].row.user, call[c].row.authority, call[c].row.at)

\* A request keeps a cookie that was in a browser; the one that it was let through by had
\* not expired when it arrived.
CallInv ==
  \A c \in {x \in Calls : call[x] # Idle} :
    /\ call[c].at <= time /\ call[c].window <= WindowOf(time)
    /\ call[c].cookie \in sessions \cup {NoSession}
    /\ call[c].by # NoSession => call[c].by \in sessions /\ call[c].by.exp >= call[c].at
    /\ call[c].owner # "pool" =>
         /\ call[c].cookie \in sessions /\ call[c].cookie.exp >= call[c].at
         /\ call[c].owner = call[c].cookie.authority.workspace

\* The ghosts know nothing of times to come.
NoFuture ==
  \A t \in Times : t > time =>
    (\A i \in Instances : seen[i][t] = 0) /\ (\A name \in Names : admitted[name][t] = 0)

\* An instance has counted no more than it received since its window began.
BucketInv ==
  \A i \in Instances : buckets[i] # None =>
    /\ buckets[i].until - Window \in 0..time
    /\ buckets[i].n <= During(seen[i], buckets[i].until - Window, time)

\* A key is not dropped before the window it is named for is over.
KeyInv ==
  \A name \in Names, w \in Windows : counters[<<name, w>>] # None =>
    w <= WindowOf(time) /\ counters[<<name, w>>].until >= (w + 1) * Window

InWindow(w) == {t \in Times : WindowOf(t) = w}
In(name, w) == Total(admitted[name], InWindow(w))
Now(name) == counters[<<name, WindowOf(time)>>].n

\* But for the late ones, a window has let through no more than the limit, and the current
\* one no more than it has counted; the late ones are the same for any two windows.
BurstInv ==
  \A name \in Names :
    /\ In(name, WindowOf(time)) <= Now(name) + late[name]
    /\ \A v \in Windows :
         /\ In(name, v) <= Limit + late[name]
         /\ v # WindowOf(time) => In(name, v) + In(name, WindowOf(time)) <= Limit + Now(name) + late[name]
    /\ \A v, w \in Windows : v # w => In(name, v) + In(name, w) <= 2 * Limit + late[name]

IInv == SessionInv /\ RowInv /\ CallInv /\ NoFuture /\ BucketInv /\ KeyInv /\ BurstInv
=============================================================================
