--------------------------- MODULE Security_proofs ---------------------------
(***************************************************************************)
(* Proofs about src/lib/security: rate limits and sessions, for any web    *)
(* servers, users, workspaces, routes and limits (Access), and the         *)
(* rotation of the encryption key, for any processes and accounts, and any *)
(* number of keys, tokens, runs and faults (Credentials).                  *)
(***************************************************************************)
EXTENDS Access, Credentials, FiniteSetTheorems, SequenceTheorems, TLAPS

-----------------------------------------------------------------------------
(* Counting calls.                                                          *)

LEMMA CallsAtMembers ==
  ASSUME NEW count, NEW T
  PROVE  \A x : x \in CallsAt(count, T) <=> \E t \in T : \E n \in 1..count[t] : x = <<t, n>>
BY DEF CallsAt

\* A finite number of times have a finite number of calls.
LEMMA TotalIsNat ==
  ASSUME NEW count \in [Times -> Nat], NEW T \in SUBSET Times
  PROVE  IsFiniteSet(CallsAt(count, T)) /\ Total(count, T) \in Nat
<1> DEFINE at == [t \in T |-> {t} \X (1..count[t])]
           all == {at[t] : t \in T}
<1>1. IsFiniteSet(T)
  <2>1. IsFiniteSet(0..MaxTime)
    BY AccessAssumption, FS_Interval DEF AccessAssumption
  <2> QED
    BY <2>1, FS_Subset DEF Times
<1>2. IsFiniteSet(all)
  <2>1. at \in Surjection(T, all)
    BY DEF Surjection
  <2> QED
    BY <1>1, <2>1, FS_Surjection
<1>3. \A S \in all : IsFiniteSet(S)
  <2> SUFFICES ASSUME NEW t \in T
               PROVE  IsFiniteSet({t} \X (1..count[t]))
    OBVIOUS
  <2>1. count[t] \in Int
    OBVIOUS
  <2>2. IsFiniteSet({t})
    BY FS_Singleton
  <2>3. IsFiniteSet(1..count[t])
    BY <2>1, FS_Interval
  <2> QED
    BY <2>2, <2>3, FS_Product
<1>4. CallsAt(count, T) = UNION all
  BY DEF CallsAt
<1>5. IsFiniteSet(UNION all)
  <2> HIDE DEF all
  <2> QED
    BY <1>2, <1>3, FS_UNION
<1> QED
  BY <1>4, <1>5, FS_CardinalityType DEF Total

LEMMA TotalOfNone ==
  ASSUME NEW count, NEW T, \A t \in T : count[t] = 0
  PROVE  Total(count, T) = 0
<1>1. CallsAt(count, T) = {}
  BY CallsAtMembers
<1> QED
  BY <1>1, FS_EmptySet DEF Total

\* The calls of more times are more.
LEMMA TotalGrows ==
  ASSUME NEW count \in [Times -> Nat], NEW U \in SUBSET Times,
         NEW T, \A t \in T : t \in U \/ (t \in Times /\ count[t] = 0)
  PROVE  Total(count, T) <= Total(count, U)
<1>1. T \in SUBSET Times
  OBVIOUS
<1>2. CallsAt(count, T) \subseteq CallsAt(count, U)
  BY CallsAtMembers
<1> QED
  BY <1>1, <1>2, TotalIsNat, FS_Subset DEF Total

LEMMA TotalOfUnion ==
  ASSUME NEW count \in [Times -> Nat],
         NEW T \in SUBSET Times, NEW U \in SUBSET Times
  PROVE  Total(count, T \cup U) <= Total(count, T) + Total(count, U)
<1>1. CallsAt(count, T \cup U) = CallsAt(count, T) \cup CallsAt(count, U)
  BY CallsAtMembers
<1>2. IsFiniteSet(CallsAt(count, T)) /\ IsFiniteSet(CallsAt(count, U))
  BY TotalIsNat
<1>3. /\ Total(count, T) \in Nat /\ Total(count, U) \in Nat
      /\ Cardinality(CallsAt(count, T) \cap CallsAt(count, U)) \in Nat
  BY <1>2, TotalIsNat, FS_Intersection, FS_CardinalityType
<1>4. Total(count, T \cup U)
        = Total(count, T) + Total(count, U) - Cardinality(CallsAt(count, T) \cap CallsAt(count, U))
  BY <1>1, <1>2, FS_Union DEF Total
<1> QED
  BY <1>3, <1>4

\* One more call at a time is one more in every period with that time.
LEMMA TotalOfMore ==
  ASSUME NEW count \in [Times -> Nat], NEW t \in Times, NEW T \in SUBSET Times
  PROVE  LET more == [count EXCEPT ![t] = @ + 1]
         IN  /\ more \in [Times -> Nat]
             /\ t \in T => Total(more, T) = Total(count, T) + 1
             /\ t \notin T => Total(more, T) = Total(count, T)
<1> DEFINE more == [count EXCEPT ![t] = @ + 1]
<1>1. more \in [Times -> Nat] /\ more[t] = count[t] + 1 /\ \A u \in Times \ {t} : more[u] = count[u]
  OBVIOUS
<1> HIDE DEF more
<1>2. ASSUME t \in T
      PROVE  Total(more, T) = Total(count, T) + 1
  <2>1. CallsAt(more, T) = CallsAt(count, T) \cup {<<t, count[t] + 1>>}
    <3>1. ASSUME NEW u \in T, NEW n \in 1..more[u]
          PROVE  <<u, n>> \in CallsAt(count, T) \cup {<<t, count[t] + 1>>}
      BY <1>1, <3>1, CallsAtMembers
    <3>2. ASSUME NEW u \in T, NEW n \in 1..count[u]
          PROVE  <<u, n>> \in CallsAt(more, T)
      BY <1>1, <3>2, CallsAtMembers
    <3>3. <<t, count[t] + 1>> \in CallsAt(more, T)
      <4>1. count[t] + 1 \in 1..more[t]
        BY <1>1
      <4> QED
        BY <1>2, <4>1, CallsAtMembers
    <3> QED
      BY <3>1, <3>2, <3>3, CallsAtMembers
  <2>2. <<t, count[t] + 1>> \notin CallsAt(count, T)
    <3> SUFFICES ASSUME NEW u \in T, NEW n \in 1..count[u], <<u, n>> = <<t, count[t] + 1>>
                 PROVE  FALSE
      BY CallsAtMembers
    <3> QED
      OBVIOUS
  <2>3. IsFiniteSet(CallsAt(count, T))
    BY TotalIsNat
  <2> QED
    BY <2>1, <2>2, <2>3, FS_AddElement DEF Total
<1>3. ASSUME t \notin T
      PROVE  Total(more, T) = Total(count, T)
  <2>1. CallsAt(more, T) = CallsAt(count, T)
    <3>1. \A u \in T : more[u] = count[u]
      BY <1>1, <1>3
    <3> QED
      BY <3>1 DEF CallsAt
  <2> QED
    BY <2>1 DEF Total
<1> QED
  BY <1>1, <1>2, <1>3 DEF more
-----------------------------------------------------------------------------
(* Types.                                                                   *)

\* The order of a route's checks, and which of them are limited.
LEMMA RouteOrders ==
  ASSUME NEW r \in Requested
  PROVE  /\ r.order \in Seq({"role", "access", "limit"})
         /\ (\E i \in 1..Len(r.order) : r.order[i] = "limit") => r.limit \in Names
<1>1. /\ r.order \in {<<"limit">>, <<"role">>, <<"access">>, <<"role", "access">>, <<"role", "limit">>,
                      <<"access", "role", "limit">>, <<"role", "limit", "access">>}
      /\ r.order \in {<<"role">>, <<"access">>, <<"role", "access">>} \/ r.limit # "none"
  <2>1. r \in Routes
    BY AccessAssumption DEF AccessAssumption
  <2> QED
    BY <2>1 DEF Routes, Checks, Login, PublishNow, PublishDraft, Review, Video, Thumbnail, Reparse,
                Download, GenerateClips, Rules, Approve, Reject, Create, Upload, Confirm, Regenerate,
                VerifyPermission, Retry, Replay, KillSwitch, Discover
<1>2. r.order \in Seq({"role", "access", "limit"})
  <2> DEFINE S == {"role", "access", "limit"}
  <2>1. "role" \in S /\ "access" \in S /\ "limit" \in S
    OBVIOUS
  <2> HIDE DEF S
  <2>2. <<"limit">> \in Seq(S) /\ <<"role">> \in Seq(S) /\ <<"access">> \in Seq(S)
    BY <2>1
  <2>3. <<"role", "access">> \in Seq(S) /\ <<"role", "limit">> \in Seq(S)
    BY <2>1
  <2>4. <<"access", "role", "limit">> \in Seq(S) /\ <<"role", "limit", "access">> \in Seq(S)
    BY <2>1
  <2>5. r.order \in Seq(S)
    BY <1>1, <2>2, <2>3, <2>4
  <2> QED
    BY <2>5 DEF S
<1>3. r.limit # "none" => r.limit \in Names
  BY DEF Names
<1> QED
  BY <1>1, <1>2, <1>3

LEMMA Constants ==
  /\ Limit \in Nat \ {0} /\ EdgeLimit \in Nat \ {0} /\ Window \in Nat \ {0} /\ MaxAge \in Nat \ {0}
  /\ ReadTime \in Nat /\ MaxTime \in Nat /\ MaxRequests \in Nat /\ MaxChanges \in Nat
BY AccessAssumption DEF AccessAssumption

\* What is left to do is the end of the route's order, and what is checked is in it.
LEMMA Unchecked ==
  ASSUME TypeOK, NEW c \in Calls, call[c] # Idle
  PROVE  /\ call[c] \in Call
         /\ \A check : Checking(c, check) =>
              /\ Tail(call[c].todo) \in Seq({"role", "access", "limit"})
              /\ \E i \in 0..Len(call[c].route.order) :
                   Tail(call[c].todo) = SubSeq(call[c].route.order, i + 1, Len(call[c].route.order))
         /\ Checking(c, "limit") => call[c].route.limit \in Names
<1> DEFINE order == call[c].route.order
           todo == call[c].todo
<1>1. call[c] \in Call
  BY DEF TypeOK
<1>2. order \in Seq({"role", "access", "limit"}) /\ todo \in Seq({"role", "access", "limit"})
  BY <1>1, RouteOrders DEF Call
<1>3. PICK i \in 0..Len(order) : todo = SubSeq(order, i + 1, Len(order))
  BY DEF TypeOK
<1> HIDE DEF order, todo
<1>4. ASSUME todo # <<>>
      PROVE  /\ i + 1 \in 1..Len(order)
             /\ Head(todo) = order[i + 1]
             /\ Tail(todo) = SubSeq(order, (i + 1) + 1, Len(order))
  <2>1. Len(order) \in Nat
    BY <1>2, LenProperties
  <2>2. i # Len(order)
    BY <1>3, <1>4, <2>1, SubSeqEmpty
  <2>3. i + 1 \in 1..Len(order) /\ Len(order) \in (i + 1)..Len(order)
    BY <2>1, <2>2
  <2>4. /\ Head(SubSeq(order, i + 1, Len(order))) = order[i + 1]
        /\ Tail(SubSeq(order, i + 1, Len(order))) = SubSeq(order, (i + 1) + 1, Len(order))
    BY <1>2, <2>3, HeadTailOfSubSeq
  <2> QED
    BY <1>3, <2>1, <2>3, <2>4
<1>5. ASSUME NEW check, Checking(c, check)
      PROVE  /\ Tail(todo) \in Seq({"role", "access", "limit"})
             /\ \E j \in 0..Len(order) : Tail(todo) = SubSeq(order, j + 1, Len(order))
             /\ \E j \in 1..Len(order) : order[j] = check
  <2>1. todo # <<>> /\ Head(todo) = check
    BY <1>5 DEF Checking, todo
  <2>2. Tail(todo) \in Seq({"role", "access", "limit"})
    BY <1>2, <2>1, HeadTailProperties
  <2>3. Len(order) \in Nat
    BY <1>2, LenProperties
  <2>4. i + 1 \in 0..Len(order) /\ Tail(todo) = SubSeq(order, (i + 1) + 1, Len(order))
    BY <1>4, <2>1, <2>3
  <2> QED
    BY <1>4, <2>1, <2>2, <2>4
<1>6. Checking(c, "limit") => call[c].route.limit \in Names
  BY <1>1, <1>5, RouteOrders DEF Call, order
<1> QED
  BY <1>1, <1>5, <1>6 DEF order, todo

\* What a request may become.
CallOK(x) ==
  x # Idle => \E i \in 0..Len(x.route.order) : x.todo = SubSeq(x.route.order, i + 1, Len(x.route.order))

LEMMA CallSteps ==
  ASSUME TypeOK, NEW c \in Calls
  PROVE  /\ Refused(c) \in [Calls -> Call \cup {Idle}]
         /\ \A d \in Calls : CallOK(Refused(c)[d])
         /\ \A check : Checking(c, check) =>
              /\ Passed(c) \in [Calls -> Call \cup {Idle}]
              /\ \A d \in Calls : CallOK(Passed(c)[d])
<1>1. call \in [Calls -> Call \cup {Idle}] /\ \A d \in Calls : CallOK(call[d])
  BY DEF TypeOK, CallOK
<1>2. Refused(c) \in [Calls -> Call \cup {Idle}] /\ \A d \in Calls : CallOK(Refused(c)[d])
  BY <1>1 DEF Refused, CallOK
<1>3. ASSUME NEW check, Checking(c, check)
      PROVE  Passed(c) \in [Calls -> Call \cup {Idle}] /\ \A d \in Calls : CallOK(Passed(c)[d])
  <2> DEFINE x == [call[c] EXCEPT !.todo = Tail(@), !.window = Null]
  <2>1. Passed(c) = [call EXCEPT ![c] = x]
    BY <1>1 DEF Passed
  <2>2. call[c] # Idle
    BY <1>3 DEF Checking
  <2>3. x \in Call
    BY <1>3, <2>2, Unchecked DEF Call
  <2>4. CallOK(x)
    <3>1. x.route = call[c].route /\ x.todo = Tail(call[c].todo)
      BY <2>2, Unchecked DEF Call
    <3> QED
      BY <1>3, <2>2, <3>1, Unchecked DEF CallOK
  <2> HIDE DEF x
  <2> QED
    BY <1>1, <2>1, <2>3, <2>4
<1> QED
  BY <1>2, <1>3
-----------------------------------------------------------------------------
(* Windows.                                                                 *)

LEMMA Products ==
  ASSUME NEW p \in Nat, NEW q \in Nat, NEW n \in Nat \ {0}
  PROVE  n * (p + 1) = n * p + n /\ (p < q => n * p + n <= n * q)
<1>1. n * (p + 1) = n * p + n
  BY SMTT(30)
<1>2. ASSUME p < q
      PROVE  n * (p + 1) <= n * q
  <2>1. p + 1 <= q
    BY <1>2
  <2> QED
    BY <2>1, SMTT(30)
<1> QED
  BY <1>1, <1>2

LEMMA Windowing ==
  ASSUME NEW t \in Nat
  PROVE  WindowOf(t) \in Nat /\ Window * WindowOf(t) <= t /\ t < Window * WindowOf(t) + Window
BY Constants, SMTT(30) DEF WindowOf

\* Later times are in later windows, and a period of one window's length is in two.
LEMMA WindowsInOrder ==
  ASSUME NEW t \in Nat, NEW u \in Nat, t <= u
  PROVE  WindowOf(t) <= WindowOf(u) /\ (u < t + Window => WindowOf(u) \in {WindowOf(t), WindowOf(t) + 1})
<1> DEFINE v == WindowOf(t)
           w == WindowOf(u)
<1>1. /\ v \in Nat /\ Window * v <= t /\ t < Window * v + Window
      /\ w \in Nat /\ Window * w <= u /\ u < Window * w + Window
  BY Windowing
<1> HIDE DEF v, w
<1>2. Window \in Nat \ {0} /\ Window * v \in Int /\ Window * w \in Int
  BY <1>1, Constants
<1>3. v <= w
  <2>1. ~ w < v
    BY <1>1, <1>2, Products
  <2> QED
    BY <1>1, <2>1
<1>4. ASSUME u < t + Window
      PROVE  ~ v + 1 < w
  <2> SUFFICES ASSUME v + 1 < w
               PROVE  FALSE
    OBVIOUS
  <2>1. Window * (v + 1) + Window <= Window * w /\ Window * (v + 1) = Window * v + Window
    BY <1>1, <1>2, Products
  <2> QED
    BY <1>1, <1>2, <1>4, <2>1
<1> QED
  BY <1>1, <1>3, <1>4 DEF v, w

LEMMA WindowsOfTimes ==
  ASSUME NEW t \in Times
  PROVE  t \in Nat /\ WindowOf(t) \in Windows
<1>1. t \in Nat /\ MaxTime \in Nat /\ t <= MaxTime
  BY Constants DEF Times
<1>2. WindowOf(t) \in Nat /\ WindowOf(MaxTime) \in Nat /\ WindowOf(t) <= WindowOf(MaxTime)
  BY <1>1, Windowing, WindowsInOrder
<1> QED
  BY <1>1, <1>2 DEF Windows, WindowOf

-----------------------------------------------------------------------------
\* A request or a change is one of those that may still be made.
LEMMA BoundsType ==
  ASSUME TypeOK,
         \/ bounds.requests < MaxRequests /\ bounds' = [bounds EXCEPT !.requests = @ + 1]
         \/ bounds.changes < MaxChanges /\ bounds' = [bounds EXCEPT !.changes = @ + 1]
  PROVE  bounds' \in [requests : 0..MaxRequests, changes : 0..MaxChanges]
<1>1. /\ bounds \in [requests : 0..MaxRequests, changes : 0..MaxChanges]
      /\ bounds.requests \in 0..MaxRequests /\ bounds.changes \in 0..MaxChanges
  BY DEF TypeOK
<1>2. CASE bounds.requests < MaxRequests /\ bounds' = [bounds EXCEPT !.requests = @ + 1]
  <2>1. bounds.requests + 1 \in 0..MaxRequests
    BY <1>1, <1>2, Constants
  <2> QED
    BY <1>1, <1>2, <2>1
<1>3. CASE bounds.changes < MaxChanges /\ bounds' = [bounds EXCEPT !.changes = @ + 1]
  <2>1. bounds.changes + 1 \in 0..MaxChanges
    BY <1>1, <1>3, Constants
  <2> QED
    BY <1>1, <1>3, <2>1
<1> QED
  BY <1>2, <1>3

LEMMA CountedType ==
  ASSUME time \in Times, NEW b \in Counter
  PROVE  Counted(b) \in Counter
BY Constants DEF Counted, Counter, Times

LEMMA TypeInit ==
  ASSUME Init
  PROVE  TypeOK
<1>1. Zero \in [Times -> Nat] /\ None \in Counter /\ 0 \in Times
  BY Constants DEF Zero, None, Counter, Times, Null
<1>2. time \in Times /\ users \in [Users -> UserRows] /\ sessions \subseteq Session
  BY <1>1 DEF Init
<1>3. buckets \in [Instances -> Counter] /\ counters \in [Names \X Windows -> Counter]
  BY <1>1 DEF Init
<1>4. call \in [Calls -> Call \cup {Idle}] /\ \A c \in Calls : call[c] = Idle
  BY DEF Init
<1>5. held \in [Users -> [Authorities -> -1..MaxTime]]
  BY Constants DEF Init, Null
<1>6. seen \in [Instances -> [Times -> Nat]] /\ admitted \in [Names -> [Times -> Nat]]
  BY <1>1 DEF Init
<1>7. late \in [Names -> Nat] /\ bounds \in [requests : 0..MaxRequests, changes : 0..MaxChanges]
  BY Constants DEF Init
<1> QED
  BY <1>2, <1>3, <1>4, <1>5, <1>6, <1>7 DEF TypeOK

\* The routes' checks change nothing but the request, and what they count.
LEMMA ArrivalType ==
  ASSUME TypeOK, NEW c \in Calls, NEW i \in Instances, Arrive(c, i)
  PROVE  TypeOK'
<1>1. buckets' \in [Instances -> Counter]
  BY CountedType DEF TypeOK, Arrive
<1>2. seen' \in [Instances -> [Times -> Nat]]
  BY TotalOfMore DEF TypeOK, Arrive
<1>3. bounds' \in [requests : 0..MaxRequests, changes : 0..MaxChanges]
  BY BoundsType DEF Arrive
<1>4. PICK r \in Requested, cookie \in sessions \cup {NoSession}, header \in HeaderRoles :
        call' = [call EXCEPT ![c] =
                   [at |-> time, route |-> r, owner |-> "pool", cookie |-> cookie,
                    role |-> CurrentRole(cookie, header),
                    by |-> IF VerifySession(cookie) THEN cookie ELSE NoSession,
                    todo |-> r.order, window |-> Null, row |-> Unread]]
  BY DEF Arrive
<1> DEFINE x == [at |-> time, route |-> r, owner |-> "pool", cookie |-> cookie,
                 role |-> CurrentRole(cookie, header),
                 by |-> IF VerifySession(cookie) THEN cookie ELSE NoSession,
                 todo |-> r.order, window |-> Null, row |-> Unread]
<1>5. x \in Call
  <2>1. cookie \in Session \cup {NoSession}
    BY DEF TypeOK
  <2>2. CurrentRole(cookie, header) \in Roles
    BY <2>1 DEF CurrentRole, VerifySession, Roles, Session
  <2>3. r.order \in Seq({"role", "access", "limit"}) /\ time \in Times
    BY RouteOrders DEF TypeOK
  <2> QED
    BY <2>1, <2>2, <2>3 DEF Call
<1>6. CallOK(x)
  <2>1. r.order \in Seq({"role", "access", "limit"}) /\ Len(r.order) \in Nat
    BY RouteOrders, LenProperties
  <2>2. r.order = SubSeq(r.order, 0 + 1, Len(r.order))
    BY <2>1, SubSeqFull
  <2>3. x.route = r /\ x.todo = r.order /\ 0 \in 0..Len(r.order)
    BY <2>1
  <2> QED
    BY <2>2, <2>3 DEF CallOK
<1> HIDE DEF x
<1>7. call' = [call EXCEPT ![c] = x]
  BY <1>4 DEF x
<1>8. call' \in [Calls -> Call \cup {Idle}] /\ \A d \in Calls : CallOK(call'[d])
  BY <1>5, <1>6, <1>7 DEF TypeOK, CallOK
<1> QED
  BY <1>1, <1>2, <1>3, <1>8 DEF TypeOK, CallOK, Arrive

LEMMA CountType ==
  ASSUME TypeOK, NEW c \in Calls, CountWindow(c)
  PROVE  TypeOK'
<1> DEFINE name == call[c].route.limit
           key == <<name, call[c].window>>
           next == Incremented(counters[key])
<1>1. call[c] \in Call /\ name \in Names /\ call[c].window \in Windows
  BY Unchecked DEF CountWindow, Checking, Call
<1>2. time \in Times
  BY DEF TypeOK
<1>3. next \in Counter
  <2>1. counters[key] \in Counter /\ None \in Counter
    BY <1>1, Constants DEF TypeOK, Counter, None, Null
  <2> HIDE DEF key
  <2> QED
    BY <1>2, <2>1, Constants DEF Counter, Incremented, Times
<1>4. counters' \in [Names \X Windows -> Counter]
  BY <1>1, <1>3 DEF TypeOK, CountWindow
<1>5. call' \in [Calls -> Call \cup {Idle}] /\ \A d \in Calls : CallOK(call'[d])
  BY CallSteps DEF CountWindow
<1>6. admitted' \in [Names -> [Times -> Nat]]
  <2>1. admitted' = admitted \/ admitted' = [admitted EXCEPT ![name][time] = @ + 1]
    BY DEF CountWindow
  <2>2. admitted[name] \in [Times -> Nat]
    BY <1>1 DEF TypeOK
  <2> DEFINE more == [admitted[name] EXCEPT ![time] = @ + 1]
  <2>3. more \in [Times -> Nat]
    BY <1>2, <2>2, TotalOfMore
  <2>4. admitted' = admitted \/ admitted' = [admitted EXCEPT ![name] = more]
    BY <2>1
  <2> HIDE DEF name, more
  <2> QED
    BY <1>1, <2>3, <2>4 DEF TypeOK
<1>7. late' \in [Names -> Nat]
  <2>1. late' = late \/ \E n \in {0, 1} : late' = [late EXCEPT ![name] = late[name] + n]
    BY DEF CountWindow
  <2>2. late \in [Names -> Nat] /\ late[name] \in Nat
    BY <1>1 DEF TypeOK
  <2> HIDE DEF name
  <2> QED
    BY <1>1, <2>1, <2>2
<1> QED
  BY <1>4, <1>5, <1>6, <1>7 DEF TypeOK, CallOK, CountWindow

\* What the login route reads of a user.
RowOf(u) == [user |-> u, authority |-> Authority(users[u]), at |-> time]

LEMMA CheckType ==
  ASSUME TypeOK, NEW c \in Calls,
         \/ CheckRole(c) \/ CheckAccess(c) \/ NameWindow(c) \/ FailOpen(c) \/ Act(c)
         \/ ReadUser(c) \/ LogIn(c)
  PROVE  TypeOK'
<1>1. UNCHANGED <<time, users, buckets, counters, ghosts, bounds>>
  BY DEF CheckRole, CheckAccess, NameWindow, FailOpen, Act, ReadUser, LogIn
<1>2. sessions' \subseteq Session
  <2>1. CASE LogIn(c)
    <3>1. call[c].row \in Row
      BY <2>1, Unchecked DEF LogIn, LoggingIn, Call
    <3>2. CreateSession(call[c].row) \in Session
      BY <3>1, Constants DEF TypeOK, CreateSession, Row, Session, Times
    <3> QED
      BY <2>1, <3>2 DEF TypeOK, LogIn
  <2>2. CASE ~ LogIn(c)
    BY <2>2 DEF TypeOK, CheckRole, CheckAccess, NameWindow, FailOpen, Act, ReadUser
  <2> QED
    BY <2>1, <2>2
<1>3. call' \in [Calls -> Call \cup {Idle}] /\ \A d \in Calls : CallOK(call'[d])
  <2>1. CASE CheckRole(c) \/ FailOpen(c) \/ Act(c) \/ LogIn(c)
    BY <2>1, CallSteps DEF CheckRole, FailOpen, Act, LogIn
  <2>2. CASE CheckAccess(c)
    <3>1. PICK owner \in Owners :
            call' = IF owner \in Visible(call[c].cookie)
                    THEN [Passed(c) EXCEPT ![c].owner = owner] ELSE Refused(c)
      BY <2>2 DEF CheckAccess
    <3>2. Checking(c, "access")
      BY <2>2 DEF CheckAccess
    <3>3. Passed(c) \in [Calls -> Call \cup {Idle}] /\ \A d \in Calls : CallOK(Passed(c)[d])
      BY <3>2, CallSteps
    <3>4. Passed(c)[c] \in Call
      <4>1. call[c] \in Call /\ Tail(call[c].todo) \in Seq({"role", "access", "limit"})
        BY <3>2, Unchecked DEF Checking
      <4>2. Passed(c)[c] = [call[c] EXCEPT !.todo = Tail(@), !.window = Null]
        BY DEF Passed, TypeOK
      <4> QED
        BY <4>1, <4>2 DEF Call
    <3> DEFINE x == [Passed(c)[c] EXCEPT !.owner = owner]
    <3>5. x \in Call /\ x.route = Passed(c)[c].route /\ x.todo = Passed(c)[c].todo
      BY <3>4 DEF Call
    <3>6. CallOK(x)
      <4>1. Passed(c)[c] # Idle
        <5>1. \A r \in Call : DOMAIN r # DOMAIN Idle
          BY DEF Call, Idle
        <5> QED
          BY <3>4, <5>1
      <4> QED
        BY <3>3, <3>5, <4>1 DEF CallOK
    <3> DEFINE passed == Passed(c)
    <3>7. [passed EXCEPT ![c].owner = owner] = [passed EXCEPT ![c] = x]
      OBVIOUS
    <3> HIDE DEF x, passed
    <3>8. [passed EXCEPT ![c] = x] \in [Calls -> Call \cup {Idle}]
          /\ \A d \in Calls : CallOK([passed EXCEPT ![c] = x][d])
      BY <3>3, <3>5, <3>6 DEF passed
    <3> QED
      BY <3>1, <3>7, <3>8, CallSteps DEF passed
  <2>3. CASE NameWindow(c)
    <3> DEFINE x == [call[c] EXCEPT !.window = WindowOf(time)]
    <3>1. call[c] \in Call /\ call[c] # Idle
      BY <2>3, Unchecked DEF NameWindow, Checking
    <3>2. x \in Call /\ x.route = call[c].route /\ x.todo = call[c].todo
      BY <3>1, WindowsOfTimes DEF Call, TypeOK
    <3>3. CallOK(x)
      BY <3>1, <3>2 DEF TypeOK, CallOK
    <3>4. call' = [call EXCEPT ![c] = x]
      BY <2>3 DEF NameWindow, TypeOK
    <3> HIDE DEF x
    <3> QED
      BY <3>2, <3>3, <3>4 DEF TypeOK, CallOK
  <2>4. CASE ReadUser(c)
    <3>1. CASE call' = Refused(c)
      BY <3>1, CallSteps
    <3>2. CASE \E u \in Users : call' = [call EXCEPT ![c].row = RowOf(u)]
      <4>1. PICK u \in Users : call' = [call EXCEPT ![c].row = RowOf(u)]
        BY <3>2
      <4> DEFINE x == [call[c] EXCEPT !.row = RowOf(u)]
      <4>2. RowOf(u) \in Row
        BY DEF RowOf, Row, TypeOK, Authorities
      <4>3. call[c] \in Call /\ call[c] # Idle
        BY <2>4, Unchecked DEF ReadUser, LoggingIn
      <4>4. x \in Call /\ x.route = call[c].route /\ x.todo = call[c].todo
        BY <4>2, <4>3 DEF Call
      <4>5. CallOK(x)
        BY <4>3, <4>4 DEF TypeOK, CallOK
      <4>6. call' = [call EXCEPT ![c] = x]
        BY <4>1 DEF TypeOK
      <4> HIDE DEF x
      <4> QED
        BY <4>4, <4>5, <4>6 DEF TypeOK, CallOK
    <3> QED
      BY <2>4, <3>1, <3>2 DEF ReadUser, RowOf
  <2> QED
    BY <2>1, <2>2, <2>3, <2>4
<1> QED
  BY <1>1, <1>2, <1>3 DEF TypeOK, CallOK, ghosts

LEMMA EnvironmentType ==
  ASSUME TypeOK,
         \/ \E i \in Instances : TurnAway(i)
         \/ \E u \in Users : ChangeUser(u)
         \/ Tick
  PROVE  TypeOK'
<1>1. ASSUME NEW i \in Instances, TurnAway(i)
      PROVE  TypeOK'
  <2>1. buckets' \in [Instances -> Counter]
    BY <1>1, CountedType DEF TypeOK, TurnAway
  <2>2. seen' \in [Instances -> [Times -> Nat]]
    BY <1>1, TotalOfMore DEF TypeOK, TurnAway
  <2>3. bounds' \in [requests : 0..MaxRequests, changes : 0..MaxChanges]
    BY <1>1, BoundsType DEF TurnAway
  <2> QED
    BY <1>1, <2>1, <2>2, <2>3 DEF TypeOK, TurnAway
<1>2. ASSUME NEW u \in Users, ChangeUser(u)
      PROVE  TypeOK'
  <2>1. held' \in [Users -> [Authorities -> -1..MaxTime]]
    <3> DEFINE a == Authority(users[u])
    <3>1. a \in Authorities /\ time \in -1..MaxTime
      BY Constants DEF TypeOK, Authorities, Times
    <3> DEFINE of == [held[u] EXCEPT ![a] = time]
    <3>2. held' = held \/ held' = [held EXCEPT ![u] = of]
      BY <1>2 DEF ChangeUser
    <3>3. of \in [Authorities -> -1..MaxTime]
      BY <3>1 DEF TypeOK
    <3> HIDE DEF a, of
    <3> QED
      BY <3>2, <3>3 DEF TypeOK
  <2>2. users' \in [Users -> UserRows]
    BY <1>2 DEF TypeOK, ChangeUser
  <2>3. bounds' \in [requests : 0..MaxRequests, changes : 0..MaxChanges]
    BY <1>2, BoundsType DEF ChangeUser
  <2> QED
    BY <1>2, <2>1, <2>2, <2>3 DEF TypeOK, ChangeUser
<1>3. ASSUME Tick
      PROVE  TypeOK'
  <2>1. None \in Counter
    BY Constants DEF None, Counter, Null
  <2>2. counters' \in [Names \X Windows -> Counter]
    BY <1>3, <2>1 DEF TypeOK, Tick
  <2>3. time' \in Times
    BY <1>3, Constants DEF TypeOK, Tick, Times
  <2> QED
    BY <1>3, <2>2, <2>3 DEF TypeOK, Tick, ghosts
<1> QED
  BY <1>1, <1>2, <1>3

LEMMA TypeStep == TypeOK /\ [Next]_vars => TypeOK'
<1>1. TypeOK /\ UNCHANGED vars => TypeOK'
  BY DEF TypeOK, vars, ghosts
<1> QED
  BY <1>1, ArrivalType, CountType, CheckType, EnvironmentType DEF Next

\* Types: every counter and clock is a natural, and a request has the end of its route's
\* checks before it.
THEOREM AccessTypes == Spec => []TypeOK
<1>1. Init => TypeOK
  BY TypeInit
<1>2. TypeOK /\ [Next]_vars => TypeOK'
  BY TypeStep
<1> QED
  BY <1>1, <1>2, PTL DEF Spec
-----------------------------------------------------------------------------
(* Sessions and requests.                                                   *)

\* Time goes on by one or stands still, and browsers keep their cookies.
LEMMA TimeStep ==
  ASSUME TypeOK, [Next]_vars
  PROVE  time \in Nat /\ time' \in {time, time + 1} /\ sessions \subseteq sessions'
<1>1. time \in Nat
  BY WindowsOfTimes DEF TypeOK
<1>2. CASE UNCHANGED vars
  BY <1>1, <1>2 DEF vars
<1>3. CASE Tick
  BY <1>1, <1>3 DEF Tick
<1>4. ASSUME NEW c \in Calls,
             \/ \E i \in Instances : Arrive(c, i)
             \/ CheckRole(c) \/ CheckAccess(c) \/ NameWindow(c) \/ CountWindow(c) \/ FailOpen(c)
             \/ Act(c) \/ ReadUser(c) \/ LogIn(c)
      PROVE  time' = time /\ sessions \subseteq sessions'
  BY <1>4 DEF Arrive, CheckRole, CheckAccess, NameWindow, CountWindow, FailOpen, Act, ReadUser, LogIn
<1>5. ASSUME \/ \E i \in Instances : TurnAway(i)
             \/ \E u \in Users : ChangeUser(u)
      PROVE  time' = time /\ sessions \subseteq sessions'
  BY <1>5 DEF TurnAway, ChangeUser
<1> QED
  BY <1>1, <1>2, <1>3, <1>4, <1>5 DEF Next

\* What a user's row has said since some time, it has said since that time later on.
LEMMA HeldStep ==
  ASSUME TypeOK, TypeOK', SessionInv, [Next]_vars,
         NEW u \in Users, NEW a \in Authorities, NEW t \in Int, t <= time, HeldSince(u, a, t)
  PROVE  HeldSince(u, a, t)' /\ held'[u][a] <= time'
<1>1. /\ time \in Nat /\ time' \in {time, time + 1}
      /\ held[u][a] \in Int /\ held'[u][a] \in Int /\ held[u][a] <= time
  <2>1. /\ held \in [Users -> [Authorities -> -1..MaxTime]] /\ held' \in [Users -> [Authorities -> -1..MaxTime]]
        /\ held[u][a] <= time /\ MaxTime \in Nat
    BY Constants DEF TypeOK, SessionInv
  <2>2. held[u][a] \in -1..MaxTime /\ held'[u][a] \in -1..MaxTime
    BY <2>1
  <2> QED
    BY <2>1, <2>2, TimeStep
<1>2. ASSUME UNCHANGED <<users, held>>
      PROVE  HeldSince(u, a, t)' /\ held'[u][a] <= time'
  BY <1>1, <1>2 DEF HeldSince
<1>3. ASSUME NEW v \in Users, ChangeUser(v)
      PROVE  HeldSince(u, a, t)' /\ held'[u][a] <= time'
  <2>1. time' = time /\ (u # v => users'[u] = users[u])
    BY <1>3 DEF ChangeUser, TypeOK
  <2>2. /\ held'[u][a] \in {held[u][a], time}
        /\ u = v /\ users[u].active /\ a = Authority(users[u]) => held'[u][a] = time
    BY <1>3 DEF ChangeUser, TypeOK
  <2>3. HeldSince(u, a, t)'
    <3>1. CASE held[u][a] >= t
      BY <1>1, <2>2, <3>1 DEF HeldSince
    <3>2. CASE users[u].active /\ Authority(users[u]) = a
      <4>1. CASE u # v
        BY <2>1, <3>2, <4>1 DEF HeldSince
      <4>2. CASE u = v
        BY <1>1, <2>2, <3>2, <4>2 DEF HeldSince
      <4> QED
        BY <4>1, <4>2
    <3> QED
      BY <3>1, <3>2 DEF HeldSince
  <2> QED
    BY <1>1, <2>1, <2>2, <2>3
<1>4. ASSUME NEW c \in Calls,
             \/ \E i \in Instances : Arrive(c, i)
             \/ CheckRole(c) \/ CheckAccess(c) \/ NameWindow(c) \/ CountWindow(c) \/ FailOpen(c)
             \/ Act(c) \/ ReadUser(c) \/ LogIn(c)
      PROVE  UNCHANGED <<users, held>>
  BY <1>4 DEF Arrive, CheckRole, CheckAccess, NameWindow, CountWindow, FailOpen, Act, ReadUser,
              LogIn, ghosts
<1>5. ASSUME Tick \/ (\E i \in Instances : TurnAway(i)) \/ UNCHANGED vars
      PROVE  UNCHANGED <<users, held>>
  BY <1>5 DEF Tick, TurnAway, vars, ghosts
<1> QED
  BY <1>2, <1>3, <1>4, <1>5 DEF Next

\* A row that has been read is of a user and a time, and was read at most ReadTime ago.
LEMMA RowsRead ==
  ASSUME TypeOK, NEW c \in Calls, call[c] # Idle, call[c].row # Unread
  PROVE  call[c].row.user \in Users /\ call[c].row.authority \in Authorities /\ call[c].row.at \in Nat
BY Constants DEF TypeOK, Call, Row, Times

LEMMA SessionStep ==
  ASSUME TypeOK, TypeOK', SessionInv, RowInv, [Next]_vars
  PROVE  SessionInv'
<1>1. /\ time \in Nat /\ time' \in {time, time + 1} /\ Lifetime \in Nat
      /\ MaxAge \in Nat /\ ReadTime \in Nat
  BY TimeStep, Constants DEF Lifetime
<1>2. \A s \in sessions' : s.user \in Users /\ s.authority \in Authorities /\ s.exp \in Nat
  BY Constants DEF TypeOK, Session
<1>3. ASSUME NEW u \in Users, NEW a \in Authorities
      PROVE  held'[u][a] <= time'
  <2>1. held[u][a] \in Int /\ held[u][a] <= time
    BY Constants DEF TypeOK, SessionInv
  <2>2. HeldSince(u, a, held[u][a])
    BY <2>1 DEF HeldSince
  <2> QED
    BY <2>1, <2>2, HeldStep
<1>4. ASSUME NEW s \in sessions
      PROVE  s.exp <= time' + MaxAge /\ HeldSince(s.user, s.authority, s.exp - Lifetime)'
  <2>1. /\ s.user \in Users /\ s.authority \in Authorities /\ s.exp \in Nat
        /\ s.exp <= time + MaxAge /\ HeldSince(s.user, s.authority, s.exp - Lifetime)
    BY <1>2, TimeStep DEF SessionInv
  <2>2. s.exp - Lifetime \in Int /\ s.exp - Lifetime <= time
    BY <1>1, <2>1 DEF Lifetime
  <2> DEFINE t == s.exp - Lifetime
  <2> HIDE DEF t
  <2>3. HeldSince(s.user, s.authority, t)'
    BY <2>1, <2>2, HeldStep DEF t
  <2>4. s.exp <= time' + MaxAge
    BY <1>1, <2>1
  <2> QED
    BY <2>3, <2>4 DEF HeldSince, t
<1>5. ASSUME NEW s \in sessions' \ sessions
      PROVE  s.exp <= time' + MaxAge /\ HeldSince(s.user, s.authority, s.exp - Lifetime)'
  <2>1. ASSUME NEW c \in Calls, LogIn(c)
        PROVE  s.exp <= time' + MaxAge /\ HeldSince(s.user, s.authority, s.exp - Lifetime)'
    <3> DEFINE row == call[c].row
    <3>1. UNCHANGED <<time, users, held>> /\ s = CreateSession(row)
      BY <2>1 DEF LogIn, ghosts
    <3>2. /\ row.user \in Users /\ row.authority \in Authorities /\ row.at \in Nat
          /\ time <= row.at + ReadTime /\ HeldSince(row.user, row.authority, row.at)
      BY <2>1, RowsRead DEF LogIn, LoggingIn, RowInv
    <3>3. s.user = row.user /\ s.authority = row.authority /\ s.exp = time + MaxAge
      BY <3>1 DEF CreateSession
    <3>4. held[row.user][row.authority] \in Int
      BY <3>2, Constants DEF TypeOK
    <3> HIDE DEF row
    <3>5. s.exp - Lifetime <= row.at
      BY <1>1, <3>2, <3>3 DEF Lifetime
    <3>6. HeldSince(row.user, row.authority, s.exp - Lifetime)
      BY <1>1, <3>2, <3>3, <3>4, <3>5 DEF HeldSince
    <3> QED
      BY <1>1, <3>1, <3>3, <3>6 DEF HeldSince
  <2>2. ASSUME NEW c \in Calls,
               \/ \E i \in Instances : Arrive(c, i)
               \/ CheckRole(c) \/ CheckAccess(c) \/ NameWindow(c) \/ CountWindow(c) \/ FailOpen(c)
               \/ Act(c) \/ ReadUser(c)
        PROVE  UNCHANGED sessions
    BY <2>2 DEF Arrive, CheckRole, CheckAccess, NameWindow, CountWindow, FailOpen, Act, ReadUser
  <2>3. ASSUME \/ \E i \in Instances : TurnAway(i)
               \/ \E u \in Users : ChangeUser(u)
               \/ Tick \/ UNCHANGED vars
        PROVE  UNCHANGED sessions
    BY <2>3 DEF TurnAway, ChangeUser, Tick, vars
  <2> QED
    BY <2>1, <2>2, <2>3 DEF Next
<1> QED
  BY <1>3, <1>4, <1>5 DEF SessionInv

\* A request keeps the row that it has read, and only reads it to log in.
LEMMA RowMoves ==
  ASSUME TypeOK, NEW c \in Calls,
         \/ \E i \in Instances : Arrive(c, i)
         \/ CheckRole(c) \/ CheckAccess(c) \/ NameWindow(c) \/ CountWindow(c) \/ FailOpen(c)
         \/ Act(c) \/ ReadUser(c) \/ LogIn(c),
         NEW d \in Calls, call'[d] # Idle, call'[d].row # Unread
  PROVE  \/ call[d] # Idle /\ call'[d].row = call[d].row
         \/ ReadUser(c) /\ \E u \in Users : users[u].active /\ call'[d].row = RowOf(u)
<1>1. /\ \A e \in Calls \ {c} : Passed(c)[e] = call[e] /\ Refused(c)[e] = call[e]
      /\ Refused(c)[c] = Idle
      /\ Passed(c)[c] = [call[c] EXCEPT !.todo = Tail(@), !.window = Null]
  BY DEF TypeOK, Passed, Refused
<1>2. call[c] # Idle => Passed(c)[c].row = call[c].row
  BY <1>1 DEF TypeOK, Call
<1>3. CASE d # c
  <2>1. call'[d] = call[d]
    <3>1. CASE call' = Passed(c) \/ call' = Refused(c)
      BY <1>1, <1>3, <3>1
    <3>2. CASE CheckAccess(c)
      <4>1. PICK owner \in Owners :
              call' = IF owner \in Visible(call[c].cookie)
                      THEN [Passed(c) EXCEPT ![c].owner = owner] ELSE Refused(c)
        BY <3>2 DEF CheckAccess
      <4> QED
        BY <1>1, <1>3, <4>1
    <3>3. CASE NameWindow(c) \/ \E i \in Instances : Arrive(c, i)
      <4>1. PICK f : call' = [call EXCEPT ![c] = f]
        <5>1. CASE NameWindow(c)
          <6> call' = [call EXCEPT ![c] = [call[c] EXCEPT !.window = WindowOf(time)]]
            BY <5>1 DEF NameWindow
          <6> QED
            OBVIOUS
        <5> QED
          BY <3>3, <5>1 DEF Arrive
      <4> QED
        BY <1>3, <4>1 DEF TypeOK
    <3>4. CASE ReadUser(c)
      <4>1. CASE call' = Refused(c)
        BY <1>1, <1>3, <4>1
      <4>2. CASE \E u \in Users :
                   call' = [call EXCEPT ![c].row =
                              [user |-> u, authority |-> Authority(users[u]), at |-> time]]
        BY <1>3, <4>2 DEF TypeOK
      <4> QED
        BY <3>4, <4>1, <4>2 DEF ReadUser
    <3>5. CheckRole(c) \/ CountWindow(c) \/ FailOpen(c) \/ Act(c) \/ LogIn(c) =>
            call' = Passed(c) \/ call' = Refused(c)
      BY DEF CheckRole, CountWindow, FailOpen, Act, LogIn
    <3> QED
      BY <3>1, <3>2, <3>3, <3>4, <3>5
  <2> QED
    BY <2>1
<1>4. ASSUME d = c, CheckRole(c) \/ CountWindow(c) \/ FailOpen(c) \/ Act(c) \/ LogIn(c)
      PROVE  call[d] # Idle /\ call'[d].row = call[d].row
  BY <1>1, <1>2, <1>4 DEF CheckRole, CountWindow, FailOpen, Act, LogIn, LoggingIn, Checking
<1>5. ASSUME d = c, NEW i \in Instances, Arrive(c, i)
      PROVE  FALSE
  BY <1>5 DEF Arrive, TypeOK
<1>6. ASSUME d = c, NameWindow(c)
      PROVE  call[d] # Idle /\ call'[d].row = call[d].row
  BY <1>6 DEF NameWindow, Checking, TypeOK, Call
<1>7. ASSUME d = c, CheckAccess(c)
      PROVE  call[d] # Idle /\ call'[d].row = call[d].row
  <2>1. call[c] # Idle
    BY <1>7 DEF CheckAccess, Checking
  <2>2. PICK owner \in Owners :
          call' = IF owner \in Visible(call[c].cookie)
                  THEN [Passed(c) EXCEPT ![c].owner = owner] ELSE Refused(c)
    BY <1>7 DEF CheckAccess
  <2> DEFINE passed == Passed(c)
  <2>3. passed \in [Calls -> Call \cup {Idle}] /\ passed[c].row = call[c].row /\ passed[c] \in Call
    BY <1>1, <1>2, <1>7, <2>1, CallSteps, Unchecked DEF CheckAccess, Call
  <2>4. call' = [passed EXCEPT ![c].owner = owner]
    BY <1>1, <1>7, <2>2
  <2> HIDE DEF passed
  <2>5. call'[c] = [passed[c] EXCEPT !.owner = owner]
    BY <2>3, <2>4
  <2>6. call'[c].row = passed[c].row
    BY <2>3, <2>5 DEF Call
  <2> QED
    BY <1>7, <2>1, <2>3, <2>6
<1>8. ASSUME d = c, ReadUser(c)
      PROVE  \E u \in Users : users[u].active /\ call'[d].row = RowOf(u)
  <2>1. call' # Refused(c)
    BY <1>1, <1>8
  <2>2. PICK u \in Users : users[u].active /\ call' = [call EXCEPT ![c].row = RowOf(u)]
    BY <1>8, <2>1 DEF ReadUser, RowOf
  <2>3. call'[c].row = RowOf(u)
    BY <1>8, <2>2 DEF TypeOK, Call, ReadUser, LoggingIn
  <2> QED
    BY <1>8, <2>2, <2>3
<1> QED
  BY <1>3, <1>4, <1>5, <1>6, <1>7, <1>8

LEMMA RowStep ==
  ASSUME TypeOK, TypeOK', SessionInv, RowInv, [Next]_vars
  PROVE  RowInv'
<1>1. /\ time \in Nat /\ time' \in {time, time + 1} /\ ReadTime \in Nat
  BY TimeStep, Constants
<1> SUFFICES ASSUME NEW d \in Calls, (call[d] # Idle /\ call[d].row # Unread)'
             PROVE  /\ (call[d].row.at <= time /\ time <= call[d].row.at + ReadTime)'
                    /\ HeldSince(call[d].row.user, call[d].row.authority, call[d].row.at)'
  BY DEF RowInv
<1>0. PICK row : row = call'[d].row
  OBVIOUS
<1>2. row.user \in Users /\ row.authority \in Authorities /\ row.at \in Nat
  BY <1>0, Constants DEF TypeOK, Call, Row, Times
<1>3. \/ call[d] # Idle /\ row = call[d].row
      \/ UNCHANGED <<users, time>> /\ \E u \in Users : users[u].active /\ row = RowOf(u)
  <2>1. ASSUME NEW c \in Calls,
               \/ \E i \in Instances : Arrive(c, i)
               \/ CheckRole(c) \/ CheckAccess(c) \/ NameWindow(c) \/ CountWindow(c) \/ FailOpen(c)
               \/ Act(c) \/ ReadUser(c) \/ LogIn(c)
        PROVE  \/ call[d] # Idle /\ row = call[d].row
               \/ UNCHANGED <<users, time>> /\ \E u \in Users : users[u].active /\ row = RowOf(u)
    BY <1>0, <2>1, RowMoves DEF ReadUser
  <2>2. ASSUME \/ \E i \in Instances : TurnAway(i)
               \/ \E u \in Users : ChangeUser(u)
               \/ Tick \/ UNCHANGED vars
        PROVE  call' = call
    BY <2>2 DEF TurnAway, ChangeUser, Tick, vars
  <2> QED
    BY <1>0, <2>1, <2>2 DEF Next
<1> DEFINE Goal == /\ row.at <= time' /\ time' <= row.at + ReadTime
                   /\ HeldSince(row.user, row.authority, row.at)'
<1>4. ASSUME UNCHANGED <<users, time>>, \E u \in Users : users[u].active /\ row = RowOf(u)
      PROVE  Goal
  <2>1. PICK u \in Users : users[u].active /\ row = RowOf(u)
    BY <1>4
  <2>2. row.user = u /\ row.authority = Authority(users[u]) /\ row.at = time
    BY <2>1 DEF RowOf
  <2>3. HeldSince(row.user, row.authority, row.at)'
    BY <1>4, <2>1, <2>2, Zenon DEF HeldSince, Authority
  <2>4. row.at <= time' /\ time' <= row.at + ReadTime
    BY <1>1, <1>4, <2>2
  <2> QED
    BY <2>3, <2>4
<1>5. ASSUME call[d] # Idle, row = call[d].row
      PROVE  Goal
  <2>1. row.at <= time /\ time <= row.at + ReadTime /\ HeldSince(row.user, row.authority, row.at)
    BY <1>0, <1>5 DEF RowInv
  <2>2. time' <= row.at + ReadTime
    <3>1. CASE time' = time
      BY <2>1, <3>1
    <3>2. CASE time' # time
      <4>1. Tick
        BY <3>2 DEF Next, vars, Arrive, CheckRole, CheckAccess, NameWindow, CountWindow, FailOpen, Act,
                    ReadUser, LogIn, TurnAway, ChangeUser
      <4>2. time < row.at + ReadTime
        BY <1>5, <4>1 DEF Tick
      <4> QED
        BY <1>1, <1>2, <4>2
    <3> QED
      BY <3>1, <3>2
  <2>3. HeldSince(row.user, row.authority, row.at)'
    BY <1>2, <2>1, HeldStep
  <2>4. row.at <= time'
    BY <1>1, <1>2, <2>1
  <2> QED
    BY <2>2, <2>3, <2>4
<1>6. Goal
  BY <1>3, <1>4, <1>5
<1> QED
  BY <1>0, <1>6 DEF HeldSince

\* What is kept of one request.
RequestInv(x) ==
  x # Idle =>
    /\ x.at <= time /\ x.window <= WindowOf(time)
    /\ x.cookie \in sessions \cup {NoSession}
    /\ x.by # NoSession => x.by \in sessions /\ x.by.exp >= x.at
    /\ x.owner # "pool" =>
         /\ x.cookie \in sessions /\ x.cookie.exp >= x.at
         /\ x.owner = x.cookie.authority.workspace

LEMMA Requests == CallInv <=> \A c \in Calls : RequestInv(call[c])
BY DEF CallInv, RequestInv

\* Nobody takes a place but by arriving, an owner but by the check of access, nor a
\* window but by naming it.
LEMMA RequestMoves ==
  ASSUME TypeOK, CallInv, NEW c \in Calls,
         \/ \E i \in Instances : Arrive(c, i)
         \/ CheckRole(c) \/ CheckAccess(c) \/ NameWindow(c) \/ CountWindow(c) \/ FailOpen(c)
         \/ Act(c) \/ ReadUser(c) \/ LogIn(c)
  PROVE  /\ \A d \in Calls \ {c} : call'[d] = call[d]
         /\ RequestInv(call'[c])
<1>1. call[c] \in Call \cup {Idle} /\ RequestInv(call[c]) /\ RequestInv(Idle)
  BY Requests DEF TypeOK, RequestInv
<1>2. /\ \A d \in Calls \ {c} : Passed(c)[d] = call[d] /\ Refused(c)[d] = call[d]
      /\ Refused(c)[c] = Idle
      /\ Passed(c)[c] = [call[c] EXCEPT !.todo = Tail(@), !.window = Null]
  BY DEF TypeOK, Passed, Refused
<1>3. time \in Nat /\ WindowOf(time) \in Nat
  BY WindowsOfTimes, Windowing DEF TypeOK
<1>4. call[c] # Idle => RequestInv([call[c] EXCEPT !.todo = Tail(@), !.window = Null])
  <2> SUFFICES ASSUME call[c] # Idle
               PROVE  RequestInv([call[c] EXCEPT !.todo = Tail(@), !.window = Null])
    OBVIOUS
  <2> DEFINE x == [call[c] EXCEPT !.todo = Tail(@), !.window = Null]
  <2>1. /\ x.at = call[c].at /\ x.cookie = call[c].cookie /\ x.by = call[c].by
        /\ x.owner = call[c].owner /\ x.window = Null
    BY <1>1 DEF Call
  <2>2. Null <= WindowOf(time)
    BY <1>3 DEF Null
  <2> HIDE DEF x
  <2>3. RequestInv(x)
    BY <1>1, <2>1, <2>2 DEF RequestInv
  <2> QED
    BY <2>3 DEF x
<1>5. ASSUME NEW i \in Instances, Arrive(c, i)
      PROVE  (\A d \in Calls \ {c} : call'[d] = call[d]) /\ RequestInv(call'[c])
  <2>1. PICK r \in Requested, cookie \in sessions \cup {NoSession}, header \in HeaderRoles :
          call' = [call EXCEPT ![c] =
                     [at |-> time, route |-> r, owner |-> "pool", cookie |-> cookie,
                      role |-> CurrentRole(cookie, header),
                      by |-> IF VerifySession(cookie) THEN cookie ELSE NoSession,
                      todo |-> r.order, window |-> Null, row |-> Unread]]
    BY <1>5 DEF Arrive
  <2>2. /\ \A d \in Calls \ {c} : call'[d] = call[d]
        /\ call'[c].at = time /\ call'[c].owner = "pool" /\ call'[c].cookie = cookie
        /\ call'[c].by = IF VerifySession(cookie) THEN cookie ELSE NoSession
        /\ call'[c].window = Null
    BY <2>1 DEF TypeOK
  <2> QED
    BY <1>3, <2>2 DEF RequestInv, VerifySession, Null
<1>6. ASSUME CheckAccess(c)
      PROVE  (\A d \in Calls \ {c} : call'[d] = call[d]) /\ RequestInv(call'[c])
  <2>1. PICK owner \in Owners :
          call' = IF owner \in Visible(call[c].cookie)
                  THEN [Passed(c) EXCEPT ![c].owner = owner] ELSE Refused(c)
    BY <1>6 DEF CheckAccess
  <2>2. call[c] # Idle /\ call[c] \in Call
    BY <1>1, <1>6 DEF CheckAccess, Checking
  <2>3. CASE owner \notin Visible(call[c].cookie)
    BY <1>1, <1>2, <2>1, <2>3
  <2>4. CASE owner \in Visible(call[c].cookie)
    <3> DEFINE passed == Passed(c)
               x == passed[c]
    <3>1. call' = [passed EXCEPT ![c].owner = owner]
      BY <2>1, <2>4
    <3>2. passed \in [Calls -> Call \cup {Idle}] /\ x \in Call
      BY <1>2, <1>6, <2>2, CallSteps, Unchecked DEF CheckAccess, Call
    <3>3. x.cookie = call[c].cookie /\ RequestInv(x)
      BY <1>2, <1>4, <2>2 DEF Call
    <3> HIDE DEF passed
    <3>4. (\A d \in Calls \ {c} : call'[d] = passed[d]) /\ call'[c] = [x EXCEPT !.owner = owner]
      BY <3>1, <3>2
    <3> HIDE DEF x
    <3> DEFINE y == [x EXCEPT !.owner = owner]
    <3>5. /\ y.at = x.at /\ y.cookie = x.cookie /\ y.by = x.by
          /\ y.owner = owner /\ y.window = x.window
      BY <3>2 DEF Call
    <3>6. owner # "pool" =>
            /\ x.cookie # NoSession /\ x.cookie.exp >= time
            /\ owner = x.cookie.authority.workspace
      BY <2>4, <3>3 DEF Visible, VerifySession
    <3>7. x # Idle
      <4> \A r \in Call : DOMAIN r # DOMAIN Idle
        BY DEF Call, Idle
      <4> QED
        BY <3>2
    <3>8. x.at \in Nat /\ (x.cookie # NoSession => x.cookie.exp \in Nat)
      BY <3>2, Constants DEF Call, Times, Session
    <3> HIDE DEF y
    <3>9. RequestInv(y)
      <4>1. /\ x.at <= time /\ x.window <= WindowOf(time) /\ x.cookie \in sessions \cup {NoSession}
            /\ x.by # NoSession => x.by \in sessions /\ x.by.exp >= x.at
        BY <3>3, <3>7 DEF RequestInv
      <4>2. owner # "pool" => x.cookie \in sessions /\ x.cookie.exp >= x.at
        BY <1>3, <3>6, <3>8, <4>1
      <4> QED
        BY <3>5, <3>6, <4>1, <4>2 DEF RequestInv
    <3> QED
      BY <1>2, <3>4, <3>9 DEF passed, y
  <2> QED
    BY <2>3, <2>4
<1>7. ASSUME NameWindow(c)
      PROVE  (\A d \in Calls \ {c} : call'[d] = call[d]) /\ RequestInv(call'[c])
  <2>1. call[c] # Idle /\ call[c] \in Call
    BY <1>1, <1>7 DEF NameWindow, Checking
  <2>2. (\A d \in Calls \ {c} : call'[d] = call[d]) /\ call'[c] = [call[c] EXCEPT !.window = WindowOf(time)]
    BY <1>7 DEF NameWindow, TypeOK
  <2>3. /\ call'[c].at = call[c].at /\ call'[c].cookie = call[c].cookie /\ call'[c].by = call[c].by
        /\ call'[c].owner = call[c].owner /\ call'[c].window = WindowOf(time)
    BY <2>1, <2>2 DEF Call
  <2> QED
    BY <1>1, <1>3, <2>1, <2>2, <2>3 DEF RequestInv
<1>8. ASSUME CheckRole(c) \/ CountWindow(c) \/ FailOpen(c)
      PROVE  (\A d \in Calls \ {c} : call'[d] = call[d]) /\ RequestInv(call'[c])
  <2>1. call[c] # Idle /\ (call' = Passed(c) \/ call' = Refused(c))
    BY <1>8 DEF CheckRole, CountWindow, FailOpen, Checking
  <2> QED
    BY <1>1, <1>2, <1>4, <2>1
<1>9. ASSUME Act(c) \/ LogIn(c)
      PROVE  (\A d \in Calls \ {c} : call'[d] = call[d]) /\ RequestInv(call'[c])
  BY <1>1, <1>2, <1>9 DEF Act, LogIn
<1>10. ASSUME ReadUser(c)
       PROVE  (\A d \in Calls \ {c} : call'[d] = call[d]) /\ RequestInv(call'[c])
  <2>1. call[c] # Idle /\ call[c] \in Call
    BY <1>1, <1>10 DEF ReadUser, LoggingIn
  <2>2. CASE call' = Refused(c)
    BY <1>1, <1>2, <2>2
  <2>3. CASE \E u \in Users : call' = [call EXCEPT ![c].row = RowOf(u)]
    <3>1. PICK u \in Users : call' = [call EXCEPT ![c].row = RowOf(u)]
      BY <2>3
    <3>2. (\A d \in Calls \ {c} : call'[d] = call[d]) /\ call'[c] = [call[c] EXCEPT !.row = RowOf(u)]
      BY <3>1 DEF TypeOK
    <3>3. /\ call'[c].at = call[c].at /\ call'[c].cookie = call[c].cookie /\ call'[c].by = call[c].by
          /\ call'[c].owner = call[c].owner /\ call'[c].window = call[c].window
      BY <2>1, <3>2 DEF Call
    <3> QED
      BY <1>1, <2>1, <3>2, <3>3 DEF RequestInv
  <2> QED
    BY <1>10, <2>2, <2>3 DEF ReadUser, RowOf
<1> QED
  BY <1>5, <1>6, <1>7, <1>8, <1>9, <1>10

LEMMA CallStep ==
  ASSUME TypeOK, TypeOK', CallInv, [Next]_vars
  PROVE  CallInv'
<1>1. (\A c \in Calls : RequestInv(call[c])) /\ \A c \in Calls : call'[c] \in Call \cup {Idle}
  BY Requests DEF TypeOK
<1>2. \A c \in Calls : RequestInv(call'[c])
  <2>1. ASSUME NEW c \in Calls,
               \/ \E i \in Instances : Arrive(c, i)
               \/ CheckRole(c) \/ CheckAccess(c) \/ NameWindow(c) \/ CountWindow(c) \/ FailOpen(c)
               \/ Act(c) \/ ReadUser(c) \/ LogIn(c)
        PROVE  \A d \in Calls : RequestInv(call'[d])
    BY <1>1, <2>1, RequestMoves
  <2>2. ASSUME \/ \E i \in Instances : TurnAway(i)
               \/ \E u \in Users : ChangeUser(u)
               \/ Tick \/ UNCHANGED vars
        PROVE  call' = call
    BY <2>2 DEF TurnAway, ChangeUser, Tick, vars
  <2> QED
    BY <1>1, <2>1, <2>2 DEF Next
<1>3. \A c \in Calls : RequestInv(call[c])'
  <2> SUFFICES ASSUME NEW c \in Calls
               PROVE  RequestInv(call[c])'
    OBVIOUS
  <2> DEFINE x == call'[c]
  <2>1. x \in Call \cup {Idle} /\ RequestInv(x)
    BY <1>1, <1>2
  <2> HIDE DEF x
  <2>2. /\ time \in Nat /\ time' \in {time, time + 1} /\ sessions \subseteq sessions'
        /\ WindowOf(time) \in Nat /\ WindowOf(time') \in Nat /\ WindowOf(time) <= WindowOf(time')
    <3>1. time \in Nat /\ time' \in {time, time + 1} /\ sessions \subseteq sessions'
      BY TimeStep
    <3>2. time' \in Nat /\ time <= time'
      BY <3>1
    <3> QED
      BY <3>1, <3>2, WindowsInOrder, Windowing
  <2>3. x # Idle => x.at \in Nat /\ x.window \in Int
    <3>1. \A t \in Times : t \in Nat
      BY Constants DEF Times
    <3>2. \A w \in Windows \cup {Null} : w \in Int
      BY DEF Windows, Null
    <3> QED
      BY <2>1, <3>1, <3>2 DEF Call
  <2>4. x # Idle => x.at <= time' /\ x.window <= WindowOf(time')
    BY <2>1, <2>2, <2>3 DEF RequestInv
  <2>5. x # Idle =>
          /\ x.cookie \in sessions' \cup {NoSession}
          /\ x.by # NoSession => x.by \in sessions' /\ x.by.exp >= x.at
          /\ x.owner # "pool" =>
               /\ x.cookie \in sessions' /\ x.cookie.exp >= x.at
               /\ x.owner = x.cookie.authority.workspace
    BY <2>1, <2>2 DEF RequestInv
  <2>6. WindowOf(time)' = WindowOf(time')
    BY DEF WindowOf
  <2> QED
    BY <2>4, <2>5, <2>6 DEF RequestInv, x
<1> QED
  BY <1>3 DEF CallInv, RequestInv
-----------------------------------------------------------------------------
(* The middleware's counters.                                               *)

\* A request that an instance receives, whether it lets it through or not.
Received(i) ==
  /\ buckets' = [buckets EXCEPT ![i] = Counted(@)]
  /\ seen' = [seen EXCEPT ![i][time] = @ + 1]
  /\ time' = time

LEMMA Receiving ==
  ASSUME [Next]_vars
  PROVE  \/ \E i \in Instances : Received(i) /\ UNCHANGED <<counters, admitted, late>>
         \/ UNCHANGED <<buckets, seen, time>>
         \/ UNCHANGED <<buckets, seen, admitted, late>> /\ Tick
<1>1. ASSUME NEW c \in Calls,
             \/ CheckRole(c) \/ CheckAccess(c) \/ NameWindow(c) \/ CountWindow(c) \/ FailOpen(c)
             \/ Act(c) \/ ReadUser(c) \/ LogIn(c)
      PROVE  UNCHANGED <<buckets, seen, time>>
  BY <1>1 DEF CheckRole, CheckAccess, NameWindow, CountWindow, FailOpen, Act, ReadUser,
              LogIn, ghosts
<1>2. ASSUME UNCHANGED vars \/ \E u \in Users : ChangeUser(u)
      PROVE  UNCHANGED <<buckets, seen, time>>
  BY <1>2 DEF vars, ghosts, ChangeUser
<1>3. ASSUME NEW i \in Instances, TurnAway(i) \/ \E c \in Calls : Arrive(c, i)
      PROVE  Received(i) /\ UNCHANGED <<counters, admitted, late>>
  BY <1>3 DEF Received, TurnAway, Arrive
<1>4. ASSUME Tick
      PROVE  UNCHANGED <<buckets, seen, admitted, late>>
  BY <1>4 DEF Tick, ghosts
<1> QED
  BY <1>1, <1>2, <1>3, <1>4 DEF Next

\* What a request changes in the count of the instance that receives it.
LEMMA SeenMore ==
  ASSUME TypeOK, NEW i \in Instances, Received(i)
  PROVE  /\ \A j \in Instances \ {i} : buckets'[j] = buckets[j] /\ seen'[j] = seen[j]
         /\ buckets'[i] = Counted(buckets[i])
         /\ seen'[i] = [seen[i] EXCEPT ![time] = @ + 1]
         /\ seen[i] \in [Times -> Nat]
BY DEF TypeOK, Received

LEMMA BucketStep ==
  ASSUME TypeOK, TypeOK', BucketInv, [Next]_vars
  PROVE  BucketInv'
<1>1. /\ time \in Times /\ time \in Nat /\ time' \in {time, time + 1} /\ Window \in Nat \ {0}
      /\ \A i \in Instances : buckets[i].n \in Nat /\ buckets[i].until \in Int
  <2>1. \A i \in Instances : buckets[i] \in Counter
    BY DEF TypeOK
  <2>2. \A i \in Instances : buckets[i].n \in Nat /\ buckets[i].until \in Int
    BY <2>1 DEF Counter
  <2>3. time \in Times
    BY DEF TypeOK
  <2> QED
    BY <2>2, <2>3, TimeStep, Constants
<1>2. CASE UNCHANGED <<buckets, seen, time>>
  BY <1>2 DEF BucketInv, During, Total, CallsAt
<1>3. CASE UNCHANGED <<buckets, seen>> /\ Tick
  <2> SUFFICES ASSUME NEW i \in Instances, buckets[i] # None
               PROVE  /\ buckets[i].until - Window \in 0..time'
                      /\ buckets[i].n <= During(seen[i], buckets[i].until - Window, time')
    BY <1>3 DEF BucketInv, During, Total, CallsAt
  <2> DEFINE from == buckets[i].until - Window
  <2>1. from \in 0..time /\ buckets[i].n <= During(seen[i], from, time)
    BY DEF BucketInv
  <2>2. time' = time + 1
    BY <1>3 DEF Tick
  <2>3. seen[i] \in [Times -> Nat]
    BY DEF TypeOK
  <2>4. \A t \in (from..time) \cap Times : t \in (from..time') \cap Times
    BY <1>1, <2>1, <2>2
  <2> HIDE DEF from
  <2>5. During(seen[i], from, time) <= During(seen[i], from, time')
    BY <2>3, <2>4, TotalGrows DEF During
  <2>6. During(seen[i], from, time) \in Nat /\ During(seen[i], from, time') \in Nat
    BY <2>3, TotalIsNat DEF During
  <2> QED
    BY <1>1, <2>1, <2>2, <2>5, <2>6 DEF from
<1>4. ASSUME NEW i \in Instances, Received(i)
      PROVE  BucketInv'
  <2> DEFINE b == buckets[i]
             from == Counted(b).until - Window
             T == (from..time) \cap Times
  <2>1. b \in Counter /\ b.n \in Nat /\ b.until \in Int
    BY DEF TypeOK, Counter
  <2>2. /\ time' = time
        /\ \A j \in Instances \ {i} : buckets'[j] = buckets[j] /\ seen'[j] = seen[j]
        /\ buckets'[i] = Counted(b)
        /\ seen'[i] = [seen[i] EXCEPT ![time] = @ + 1]
        /\ seen[i] \in [Times -> Nat]
    BY <1>4, SeenMore DEF Received
  <2>3. from \in 0..time /\ Counted(b).n <= Total(seen[i], T) + 1
    <3>1. CASE b = None \/ b.until < time
      <4>1. Counted(b) = [n |-> 1, until |-> time + Window]
        BY <3>1 DEF Counted
      <4>2. Total(seen[i], T) \in Nat
        BY <2>2, TotalIsNat
      <4> HIDE DEF T, b
      <4> QED
        BY <1>1, <4>1, <4>2
    <3>2. CASE b # None /\ ~ b.until < time
      <4>1. Counted(b).n = b.n + 1 /\ Counted(b).until = b.until
        BY <2>1, <3>2 DEF Counted, Counter
      <4>2. b.until - Window \in 0..time /\ b.n <= During(seen[i], b.until - Window, time)
        BY <3>2 DEF BucketInv
      <4>3. During(seen[i], b.until - Window, time) = Total(seen[i], T)
        BY <4>1 DEF During
      <4>4. Total(seen[i], T) \in Nat
        BY <2>2, TotalIsNat
      <4> HIDE DEF T, b
      <4> QED
        BY <1>1, <2>1, <4>1, <4>2, <4>3, <4>4
    <3> QED
      BY <3>1, <3>2
  <2>4. time \in T
    BY <1>1, <2>3
  <2>5. Total(seen'[i], T) = Total(seen[i], T) + 1
    <3> HIDE DEF T
    <3>1. T \in SUBSET Times
      BY DEF T
    <3> QED
      BY <1>1, <2>2, <2>4, <3>1, TotalOfMore
  <2> HIDE DEF b
  <2>6. ASSUME NEW j \in Instances, buckets'[j] # None
        PROVE  /\ buckets'[j].until - Window \in 0..time
               /\ buckets'[j].n <= During(seen'[j], buckets'[j].until - Window, time)
    <3>1. CASE j = i
      <4>1. During(seen'[i], from, time) = Total(seen'[i], T)
        BY DEF During
      <4> QED
        BY <2>2, <2>3, <2>5, <3>1, <4>1
    <3>2. CASE j # i
      <4>1. buckets[j] # None /\ buckets'[j] = buckets[j] /\ seen'[j] = seen[j]
        BY <2>2, <2>6, <3>2
      <4> QED
        BY <4>1 DEF BucketInv
    <3> QED
      BY <3>1, <3>2
  <2> QED
    BY <2>2, <2>6 DEF BucketInv, During, Total, CallsAt
<1> QED
  BY <1>2, <1>3, <1>4, Receiving
-----------------------------------------------------------------------------
(* The counters in Redis.                                                   *)

LEMMA Counting ==
  ASSUME [Next]_vars
  PROVE  \/ UNCHANGED <<counters, admitted, late, time>>
         \/ Tick /\ UNCHANGED <<admitted, late>>
         \/ \E c \in Calls : CountWindow(c)
<1>1. ASSUME NEW c \in Calls,
             \/ CheckRole(c) \/ CheckAccess(c) \/ NameWindow(c) \/ FailOpen(c) \/ Act(c)
             \/ ReadUser(c) \/ LogIn(c)
             \/ \E i \in Instances : Arrive(c, i)
      PROVE  UNCHANGED <<counters, admitted, late, time>>
  BY <1>1 DEF CheckRole, CheckAccess, NameWindow, FailOpen, Act, ReadUser, LogIn, Arrive, ghosts
<1>2. ASSUME \/ UNCHANGED vars \/ \E u \in Users : ChangeUser(u)
             \/ \E i \in Instances : TurnAway(i)
      PROVE  UNCHANGED <<counters, admitted, late, time>>
  BY <1>2 DEF vars, ghosts, ChangeUser, TurnAway
<1>3. Tick => UNCHANGED <<admitted, late>>
  BY DEF Tick, ghosts
<1> QED
  BY <1>1, <1>2, <1>3 DEF Next

\* What a call does that reaches Redis: the window is counted, and the call with it if it
\* is let through.
LEMMA CountMore ==
  ASSUME TypeOK, CallInv, NEW c \in Calls, CountWindow(c)
  PROVE  \E name \in Names, w \in Windows :
           /\ w <= WindowOf(time) /\ time' = time
           /\ counters' = [counters EXCEPT ![<<name, w>>] = Incremented(counters[<<name, w>>])]
           /\ \/ /\ Allowed(Incremented(counters[<<name, w>>]).n)
                 /\ admitted' = [admitted EXCEPT ![name] = [admitted[name] EXCEPT ![time] = @ + 1]]
                 /\ late' = [late EXCEPT ![name] = @ + IF w < WindowOf(time) THEN 1 ELSE 0]
              \/ UNCHANGED <<admitted, late>>
<1> DEFINE name == call[c].route.limit
           w == call[c].window
<1>1. call[c] \in Call /\ call[c] # Idle /\ name \in Names /\ w \in Windows
  BY Unchecked DEF CountWindow, Checking, Call
<1>2. w <= WindowOf(time)
  BY <1>1 DEF CallInv
<1>3. /\ time' = time
      /\ counters' = [counters EXCEPT ![<<name, w>>] = Incremented(counters[<<name, w>>])]
      /\ \/ /\ Allowed(Incremented(counters[<<name, w>>]).n)
            /\ admitted' = [admitted EXCEPT ![name] = [admitted[name] EXCEPT ![time] = @ + 1]]
            /\ late' = [late EXCEPT ![name] = @ + IF w < WindowOf(time) THEN 1 ELSE 0]
         \/ UNCHANGED <<admitted, late>>
  <2>1. time' = time
    BY DEF CountWindow
  <2>2. counters' = [counters EXCEPT ![<<name, w>>] = Incremented(counters[<<name, w>>])]
    BY DEF CountWindow
  <2>3. CASE Allowed(Incremented(counters[<<name, w>>]).n)
    <3>1. /\ admitted' = [admitted EXCEPT ![name][time] = @ + 1]
          /\ late' = [late EXCEPT ![name] = @ + IF w < WindowOf(time) THEN 1 ELSE 0]
      BY <2>3 DEF CountWindow
    <3> HIDE DEF name, w
    <3>2. admitted' = [admitted EXCEPT ![name] = [admitted[name] EXCEPT ![time] = @ + 1]]
      BY <3>1
    <3> QED
      BY <2>1, <2>2, <2>3, <3>1, <3>2
  <2>4. CASE ~ Allowed(Incremented(counters[<<name, w>>]).n)
    BY <2>1, <2>2, <2>4 DEF CountWindow
  <2> QED
    BY <2>3, <2>4
<1> HIDE DEF name, w
<1> QED
  BY <1>1, <1>2, <1>3

LEMMA FutureStep ==
  ASSUME TypeOK, TypeOK', CallInv, NoFuture, [Next]_vars
  PROVE  NoFuture'
<1>1. /\ time \in Nat /\ time' \in {time, time + 1} /\ time \in Times
      /\ \A t \in Times : t \in Nat
  BY TimeStep, WindowsOfTimes DEF TypeOK
<1> SUFFICES ASSUME NEW t \in Times, t > time'
             PROVE  (\A i \in Instances : seen'[i][t] = 0) /\ \A name \in Names : admitted'[name][t] = 0
  BY DEF NoFuture
<1>2. t > time /\ t # time
  BY <1>1
<1>3. (\A i \in Instances : seen[i][t] = 0) /\ \A name \in Names : admitted[name][t] = 0
  BY <1>2 DEF NoFuture
<1>4. \A i \in Instances : seen'[i][t] = 0
  <2>1. ASSUME NEW i \in Instances, Received(i)
        PROVE  \A j \in Instances : seen'[j][t] = seen[j][t]
    <3>1. seen'[i][t] = seen[i][t]
      BY <1>2, <2>1, SeenMore
    <3> QED
      BY <2>1, <3>1, SeenMore
  <2> QED
    BY <1>3, <2>1, Receiving
<1>5. \A name \in Names : admitted'[name][t] = 0
  <2>1. ASSUME NEW c \in Calls, CountWindow(c)
        PROVE  \A name \in Names : admitted'[name][t] = admitted[name][t]
    <3>1. PICK name \in Names :
            \/ admitted' = [admitted EXCEPT ![name] = [admitted[name] EXCEPT ![time] = @ + 1]]
            \/ admitted' = admitted
      BY <2>1, CountMore
    <3>2. admitted \in [Names -> [Times -> Nat]]
      BY DEF TypeOK
    <3> QED
      BY <1>2, <3>1, <3>2
  <2> QED
    BY <1>3, <2>1, Counting
<1> QED
  BY <1>4, <1>5

\* A time is in its own window and in no other; (w + 1) * Window is where a window ends.
LEMMA WindowEnds ==
  ASSUME NEW w \in Nat, NEW t \in Nat
  PROVE  /\ (w + 1) * Window \in Nat
         /\ w <= WindowOf(t) => (w + 1) * Window <= t + Window
         /\ w = WindowOf(t) => t < (w + 1) * Window
<1>1. /\ WindowOf(t) \in Nat /\ Window * WindowOf(t) <= t /\ t < Window * WindowOf(t) + Window
      /\ Window \in Nat \ {0}
  BY Windowing, Constants
<1> DEFINE v == WindowOf(t)
<1> HIDE DEF v
<1>2. /\ v \in Nat /\ Window * v <= t /\ t < Window * v + Window
  BY <1>1 DEF v
<1>3. (w + 1) * Window = Window * w + Window /\ Window * w \in Nat /\ Window * v \in Nat
  BY <1>1, <1>2, SMTT(30)
<1>4. w <= v => Window * w <= Window * v
  BY <1>1, <1>2, SMTT(30)
<1> QED
  BY <1>1, <1>2, <1>3, <1>4 DEF v

LEMMA KeyStep ==
  ASSUME TypeOK, TypeOK', CallInv, KeyInv, [Next]_vars
  PROVE  KeyInv'
<1>1. /\ time \in Nat /\ time' \in {time, time + 1} /\ Window \in Nat \ {0}
      /\ WindowOf(time) \in Nat /\ WindowOf(time') \in Nat /\ WindowOf(time) <= WindowOf(time')
  <2>1. time \in Nat /\ time' \in {time, time + 1}
    BY TimeStep
  <2>2. time' \in Nat /\ time <= time'
    BY <2>1
  <2> QED
    BY <2>1, <2>2, Windowing, WindowsInOrder, Constants
<1>2. counters \in [Names \X Windows -> Counter] /\ \A w \in Windows : w \in Nat
  BY DEF TypeOK, Windows
<1> SUFFICES ASSUME NEW name \in Names, NEW w \in Windows, counters'[<<name, w>>] # None
             PROVE  w <= WindowOf(time') /\ counters'[<<name, w>>].until >= (w + 1) * Window
  BY DEF KeyInv, WindowOf
<1>3. CASE UNCHANGED <<counters, admitted, late, time>>
  BY <1>3 DEF KeyInv
<1>4. CASE Tick
  <2>1. counters[<<name, w>>] # None /\ counters'[<<name, w>>] = counters[<<name, w>>]
    BY <1>2, <1>4 DEF Tick
  <2>2. w <= WindowOf(time) /\ counters[<<name, w>>].until >= (w + 1) * Window
    BY <2>1 DEF KeyInv
  <2> QED
    BY <1>1, <1>2, <2>1, <2>2
<1>5. ASSUME NEW c \in Calls, CountWindow(c)
      PROVE  w <= WindowOf(time') /\ counters'[<<name, w>>].until >= (w + 1) * Window
  <2>1. PICK n \in Names, v \in Windows :
           /\ v <= WindowOf(time) /\ time' = time
           /\ counters' = [counters EXCEPT ![<<n, v>>] = Incremented(counters[<<n, v>>])]
    BY <1>5, CountMore
  <2>2. CASE <<n, v>> # <<name, w>>
    <3>1. counters'[<<name, w>>] = counters[<<name, w>>]
      BY <1>2, <2>1, <2>2
    <3> QED
      BY <2>1, <3>1 DEF KeyInv
  <2>3. CASE n = name /\ v = w
    <3>1. counters'[<<name, w>>] = Incremented(counters[<<name, w>>])
      BY <1>2, <2>1, <2>3
    <3>2. CASE counters[<<name, w>>] = None
      <4>1. counters'[<<name, w>>].until = time + Window
        BY <3>1, <3>2 DEF Incremented
      <4>2. (w + 1) * Window <= time + Window /\ (w + 1) * Window \in Nat
        BY <1>1, <1>2, <2>1, <2>3, WindowEnds
      <4> QED
        BY <1>1, <2>1, <2>3, <4>1, <4>2
    <3>3. CASE counters[<<name, w>>] # None
      <4>1. counters'[<<name, w>>].until = counters[<<name, w>>].until
        BY <1>2, <3>1, <3>3 DEF Incremented, Counter
      <4> QED
        BY <2>1, <3>3, <4>1 DEF KeyInv
    <3> QED
      BY <3>2, <3>3
  <2> QED
    BY <2>2, <2>3
<1> QED
  BY <1>3, <1>4, <1>5, Counting

LEMMA CountsAreNat ==
  ASSUME TypeOK, NEW name \in Names
  PROVE  /\ time \in Times /\ WindowOf(time) \in Windows /\ Now(name) \in Nat
         /\ late[name] \in Nat /\ admitted[name] \in [Times -> Nat]
         /\ \A v : In(name, v) \in Nat
<1>1. time \in Times /\ WindowOf(time) \in Windows
  BY WindowsOfTimes DEF TypeOK
<1>2. Now(name) \in Nat
  <2>1. counters[<<name, WindowOf(time)>>] \in Counter
    BY <1>1 DEF TypeOK
  <2> QED
    BY <2>1 DEF Now, Counter
<1>3. late[name] \in Nat /\ admitted[name] \in [Times -> Nat]
  BY DEF TypeOK
<1>4. ASSUME NEW v
      PROVE  In(name, v) \in Nat
  BY <1>3, TotalIsNat DEF In, InWindow
<1> QED
  BY <1>1, <1>2, <1>3, <1>4

\* The count of a call that is let through is in the current window alone.
LEMMA InMore ==
  ASSUME TypeOK, NEW name \in Names, time' = time,
         admitted'[name] = [admitted[name] EXCEPT ![time] = @ + 1]
  PROVE  /\ In(name, WindowOf(time))' = In(name, WindowOf(time)) + 1
         /\ \A v : v # WindowOf(time) => In(name, v)' = In(name, v)
<1>1. time \in Times /\ admitted[name] \in [Times -> Nat]
  BY CountsAreNat
<1>2. ASSUME NEW v
      PROVE  /\ InWindow(v) \in SUBSET Times /\ (time \in InWindow(v) <=> v = WindowOf(time))
             /\ In(name, v) = Total(admitted[name], InWindow(v))
             /\ In(name, v)' = Total(admitted'[name], InWindow(v))
  BY <1>1 DEF InWindow, In, Total, CallsAt, WindowOf
<1>3. ASSUME NEW v, v # WindowOf(time)
      PROVE  In(name, v)' = In(name, v)
  BY <1>1, <1>2, <1>3, TotalOfMore
<1>4. In(name, WindowOf(time))' = Total(admitted'[name], InWindow(WindowOf(time)))
  BY DEF InWindow, In, Total, CallsAt, WindowOf
<1>5. In(name, WindowOf(time))' = In(name, WindowOf(time)) + 1
  BY <1>1, <1>2, <1>4, TotalOfMore
<1> QED
  BY <1>3, <1>5

\* Before a new window there was nothing in it.
LEMMA NewWindow ==
  ASSUME TypeOK, NoFuture, NEW name \in Names, time' \in Times,
         time' = time + 1, WindowOf(time') # WindowOf(time)
  PROVE  In(name, WindowOf(time')) = 0
<1>1. /\ time \in Nat /\ admitted[name] \in [Times -> Nat]
      /\ \A t \in Times : t \in Nat
  BY CountsAreNat, WindowsOfTimes DEF TypeOK
<1>2. WindowOf(time) \in Nat /\ WindowOf(time') \in Nat /\ WindowOf(time) <= WindowOf(time')
  BY <1>1, Windowing, WindowsInOrder
<1>3. ASSUME NEW t \in InWindow(WindowOf(time'))
      PROVE  admitted[name][t] = 0
  <2>1. t \in Times /\ t \in Nat /\ WindowOf(t) = WindowOf(time')
    BY <1>1 DEF InWindow
  <2>2. ~ t <= time
    <3>1. t <= time => WindowOf(t) <= WindowOf(time)
      BY <1>1, <2>1, WindowsInOrder
    <3> QED
      BY <1>2, <2>1, <3>1
  <2> QED
    BY <1>1, <2>1, <2>2 DEF NoFuture
<1> QED
  BY <1>3, TotalOfNone DEF In

\* Within a window the clock drops none of its keys.
LEMMA SameWindow ==
  ASSUME TypeOK, KeyInv, NEW name \in Names, Tick, time' \in Times,
         WindowOf(time') = WindowOf(time)
  PROVE  Now(name)' = Now(name)
<1> DEFINE w == WindowOf(time)
           key == counters[<<name, w>>]
<1>1. time' \in Nat /\ w \in Nat /\ w \in Windows /\ Window \in Nat \ {0}
  BY CountsAreNat, WindowsOfTimes, Windowing, Constants
<1>2. key \in Counter /\ key.until \in Int
  <2>1. key \in Counter
    BY <1>1 DEF TypeOK
  <2> QED
    BY <2>1 DEF Counter
<1>3. key # None => ~ key.until <= time'
  <2> SUFFICES ASSUME key # None
               PROVE  ~ key.until <= time'
    OBVIOUS
  <2>1. key.until >= (w + 1) * Window
    BY <1>1 DEF KeyInv
  <2>2. (w + 1) * Window \in Nat /\ time' < (w + 1) * Window
    BY <1>1, WindowEnds
  <2> HIDE DEF key, w
  <2> QED
    BY <1>1, <1>2, <2>1, <2>2
<1>4. counters'[<<name, w>>] = key
  <2>1. counters' = [k \in Names \X Windows |-> IF counters[k].until <= time' THEN None ELSE counters[k]]
    BY DEF Tick, TypeOK
  <2>2. <<name, w>> \in Names \X Windows
    BY <1>1
  <2> HIDE DEF w
  <2> QED
    BY <1>3, <2>1, <2>2
<1>5. Now(name)' = counters'[<<name, WindowOf(time')>>].n
  BY DEF Now, WindowOf
<1> QED
  BY <1>4, <1>5 DEF Now

\* The burst of one name, when the numbers change as they do.
BurstOf(name) ==
  /\ In(name, WindowOf(time)) <= Now(name) + late[name]
  /\ \A v \in Windows :
       /\ In(name, v) <= Limit + late[name]
       /\ v # WindowOf(time) => In(name, v) + In(name, WindowOf(time)) <= Limit + Now(name) + late[name]
  /\ \A v, w \in Windows : v # w => In(name, v) + In(name, w) <= 2 * Limit + late[name]

\* A call that is let through: in time if its window is the current one, late if not.
LEMMA BurstOfOneMore ==
  ASSUME TypeOK, TypeOK', NEW name \in Names, BurstOf(name), time' = time,
         admitted'[name] = [admitted[name] EXCEPT ![time] = @ + 1],
         \/ /\ Now(name)' = Now(name) + 1 /\ Now(name)' <= Limit
            /\ late'[name] = late[name]
         \/ Now(name)' = Now(name) /\ late'[name] = late[name] + 1
  PROVE  BurstOf(name)'
<1> DEFINE W == WindowOf(time)
<1>1. /\ W \in Windows /\ Now(name) \in Nat /\ late[name] \in Nat /\ Limit \in Nat
      /\ \A v : In(name, v) \in Nat
  BY CountsAreNat, Constants
<1>2. In(name, W)' = In(name, W) + 1 /\ \A v : v # W => In(name, v)' = In(name, v)
  BY InMore
<1>3. In(name, W) <= Now(name) + late[name]
  BY DEF BurstOf
<1>4. ASSUME NEW v \in Windows
      PROVE  /\ In(name, v) <= Limit + late[name]
             /\ v # W => In(name, v) + In(name, W) <= Limit + Now(name) + late[name]
             /\ \A w \in Windows : v # w => In(name, v) + In(name, w) <= 2 * Limit + late[name]
  BY DEF BurstOf
<1>5. In(name, W)' <= Now(name)' + late'[name]
  BY <1>1, <1>2, <1>3
<1>6. ASSUME NEW v \in Windows
      PROVE  /\ In(name, v)' <= Limit + late'[name]
             /\ v # W => In(name, v)' + In(name, W)' <= Limit + Now(name)' + late'[name]
  <2>1. CASE v # W
    BY <1>1, <1>2, <1>4, <2>1
  <2>2. CASE v = W
    <3>1. In(name, v)' = In(name, W)'
      BY <2>2
    <3> QED
      BY <1>1, <1>2, <1>3, <1>4, <2>2, <3>1
  <2> QED
    BY <2>1, <2>2
<1>7. ASSUME NEW v \in Windows, NEW w \in Windows, v # w
      PROVE  In(name, v)' + In(name, w)' <= 2 * Limit + late'[name]
  <2>1. CASE v # W /\ w # W
    BY <1>1, <1>2, <1>4, <1>7, <2>1
  <2>2. CASE v = W
    <3>1. In(name, v)' = In(name, W)' /\ In(name, w)' = In(name, w)
      BY <1>2, <1>7, <2>2
    <3> QED
      BY <1>1, <1>2, <1>4, <1>7, <2>2, <3>1
  <2>3. CASE w = W
    <3>1. In(name, w)' = In(name, W)' /\ In(name, v)' = In(name, v)
      BY <1>2, <1>7, <2>3
    <3> QED
      BY <1>1, <1>2, <1>4, <1>7, <2>3, <3>1
  <2> QED
    BY <2>1, <2>2, <2>3
<1>8. In(name, WindowOf(time))' = In(name, W)'
  OBVIOUS
<1> QED
  BY <1>5, <1>6, <1>7, <1>8 DEF BurstOf, WindowOf

LEMMA BurstStep ==
  ASSUME TypeOK, TypeOK', CallInv, NoFuture, KeyInv, BurstInv, [Next]_vars
  PROVE  BurstInv'
<1>1. \A name \in Names : BurstOf(name)
  BY DEF BurstInv, BurstOf
<1>2. CASE UNCHANGED <<counters, admitted, late, time>>
  <2> SUFFICES ASSUME NEW name \in Names
               PROVE  BurstOf(name)'
    BY DEF BurstInv, BurstOf
  <2>1. /\ WindowOf(time)' = WindowOf(time) /\ Now(name)' = Now(name) /\ late'[name] = late[name]
        /\ \A v : In(name, v)' = In(name, v)
    BY <1>2 DEF In, Now, InWindow, Total, CallsAt, WindowOf
  <2>2. BurstOf(name)
    BY <1>1
  <2> QED
    BY <2>1, <2>2 DEF BurstOf
<1>3. ASSUME Tick, UNCHANGED <<admitted, late>>
      PROVE  BurstInv'
  <2> SUFFICES ASSUME NEW name \in Names
               PROVE  BurstOf(name)'
    BY DEF BurstInv, BurstOf
  <2> DEFINE W == WindowOf(time)
             V == WindowOf(time')
  <2>1. /\ time' = time + 1 /\ time' \in Times /\ W \in Windows /\ V \in Windows
        /\ Now(name) \in Nat /\ late[name] \in Nat /\ Limit \in Nat
        /\ \A v : In(name, v) \in Nat
    BY <1>3, CountsAreNat, Constants, WindowsOfTimes DEF Tick, TypeOK
  <2>2. (\A v : In(name, v)' = In(name, v)) /\ WindowOf(time)' = V
    BY <1>3 DEF In, InWindow, Total, CallsAt, WindowOf
  <2>3. Now(name)' \in Nat
    <3>1. counters'[<<name, V>>] \in Counter
      BY <2>1 DEF TypeOK
    <3> QED
      BY <2>2, <3>1 DEF Now, Counter
  <2>4. BurstOf(name)
    BY <1>1
  <2>5. CASE V = W
    <3>1. Now(name)' = Now(name)
      BY <1>3, <2>1, <2>5, SameWindow
    <3> HIDE DEF W, V
    <3> QED
      BY <1>3, <2>2, <2>4, <2>5, <3>1 DEF BurstOf, W
  <2>6. CASE V # W
    <3>1. In(name, V) = 0
      BY <2>1, <2>6, NewWindow
    <3> HIDE DEF W, V
    <3>2. In(name, V) <= Now(name)' + late[name]
      BY <2>1, <2>3, <3>1
    <3>3. ASSUME NEW v \in Windows
          PROVE  /\ In(name, v) <= Limit + late[name]
                 /\ In(name, v) + In(name, V) <= Limit + Now(name)' + late[name]
                 /\ \A w \in Windows : v # w => In(name, v) + In(name, w) <= 2 * Limit + late[name]
      <4>1. /\ In(name, v) <= Limit + late[name]
            /\ \A w \in Windows : v # w => In(name, v) + In(name, w) <= 2 * Limit + late[name]
        BY <2>4 DEF BurstOf
      <4> QED
        BY <2>1, <2>3, <3>1, <4>1
    <3> QED
      BY <1>3, <2>2, <3>2, <3>3 DEF BurstOf
  <2> QED
    BY <2>5, <2>6
<1>4. ASSUME NEW c \in Calls, CountWindow(c)
      PROVE  BurstInv'
  <2> SUFFICES ASSUME NEW name \in Names
               PROVE  BurstOf(name)'
    BY DEF BurstInv, BurstOf
  <2>1. PICK n \in Names, w \in Windows :
           /\ w <= WindowOf(time) /\ time' = time
           /\ counters' = [counters EXCEPT ![<<n, w>>] = Incremented(counters[<<n, w>>])]
           /\ \/ /\ Allowed(Incremented(counters[<<n, w>>]).n)
                 /\ admitted' = [admitted EXCEPT ![n] = [admitted[n] EXCEPT ![time] = @ + 1]]
                 /\ late' = [late EXCEPT ![n] = @ + IF w < WindowOf(time) THEN 1 ELSE 0]
              \/ UNCHANGED <<admitted, late>>
    BY <1>4, CountMore
  <2>2. /\ counters \in [Names \X Windows -> Counter] /\ admitted \in [Names -> [Times -> Nat]]
        /\ late \in [Names -> Nat]
    BY DEF TypeOK
  <2>3. /\ WindowOf(time) \in Windows /\ WindowOf(time)' = WindowOf(time) /\ Limit \in Nat
        /\ Now(name) \in Nat /\ late[name] \in Nat /\ \A v \in Windows : v \in Nat
        /\ \A v : In(name, v) \in Nat
    BY <2>1, CountsAreNat, Constants DEF WindowOf, Windows
  <2>4. BurstOf(name)
    BY <1>1
  <2>5. Now(name)' = counters'[<<name, WindowOf(time)>>].n
    BY <2>3 DEF Now
  <2>6. Incremented(counters[<<n, w>>]).n = counters[<<n, w>>].n + 1
    <3>1. counters[<<n, w>>] \in Counter
      BY <2>2
    <3> QED
      BY <3>1 DEF Incremented, Counter, None
  <2>7. \/ Now(name)' = Now(name)
        \/ /\ n = name /\ w = WindowOf(time)
           /\ Now(name)' = Now(name) + 1
           /\ Incremented(counters[<<n, w>>]).n = Now(name)'
    <3>1. CASE <<n, w>> = <<name, WindowOf(time)>>
      BY <2>1, <2>2, <2>5, <2>6, <3>1 DEF Now
    <3>2. CASE <<n, w>> # <<name, WindowOf(time)>>
      <4>1. <<name, WindowOf(time)>> \in Names \X Windows
        BY <2>3
      <4>2. counters'[<<name, WindowOf(time)>>] = counters[<<name, WindowOf(time)>>]
        BY <2>1, <2>2, <3>2, <4>1
      <4> QED
        BY <2>5, <4>2 DEF Now
    <3> QED
      BY <3>1, <3>2
  <2>8. CASE /\ n = name /\ Allowed(Incremented(counters[<<n, w>>]).n)
             /\ admitted' = [admitted EXCEPT ![n] = [admitted[n] EXCEPT ![time] = @ + 1]]
             /\ late' = [late EXCEPT ![n] = @ + IF w < WindowOf(time) THEN 1 ELSE 0]
    <3>1. admitted'[name] = [admitted[name] EXCEPT ![time] = @ + 1]
      BY <2>2, <2>8
    <3>2. late'[name] = late[name] + IF w < WindowOf(time) THEN 1 ELSE 0
      BY <2>2, <2>8
    <3>3. CASE w = WindowOf(time)
      <4>1. late'[name] = late[name]
        BY <2>3, <3>2, <3>3
      <4>2. Now(name)' = Now(name) + 1 /\ Now(name)' <= Limit
        <5>1. counters'[<<n, w>>] = Incremented(counters[<<n, w>>])
          BY <2>1, <2>2
        <5> QED
          BY <2>5, <2>6, <2>8, <3>3, <5>1 DEF Now, Allowed
      <4> QED
        BY <2>1, <2>4, <3>1, <4>1, <4>2, BurstOfOneMore
    <3>4. CASE w # WindowOf(time)
      <4>1. w < WindowOf(time)
        BY <2>1, <2>3, <3>4
      <4>2. late'[name] = late[name] + 1
        BY <3>2, <4>1
      <4>3. Now(name)' = Now(name)
        BY <2>7, <3>4
      <4> QED
        BY <2>1, <2>4, <3>1, <4>2, <4>3, BurstOfOneMore
    <3> QED
      BY <3>3, <3>4
  <2>9. CASE admitted'[name] = admitted[name] /\ late'[name] = late[name]
    <3>1. \A v : In(name, v)' = In(name, v)
      BY <2>9 DEF In, InWindow, Total, CallsAt, WindowOf
    <3>2. Now(name)' \in Nat /\ Now(name) <= Now(name)'
      BY <2>3, <2>7
    <3>3. ASSUME NEW v \in Windows
          PROVE  /\ In(name, v) <= Limit + late[name]
                 /\ v # WindowOf(time) =>
                      In(name, v) + In(name, WindowOf(time)) <= Limit + Now(name)' + late[name]
                 /\ \A u \in Windows : v # u => In(name, v) + In(name, u) <= 2 * Limit + late[name]
      <4>1. /\ In(name, v) <= Limit + late[name]
            /\ v # WindowOf(time) =>
                 In(name, v) + In(name, WindowOf(time)) <= Limit + Now(name) + late[name]
            /\ \A u \in Windows : v # u => In(name, v) + In(name, u) <= 2 * Limit + late[name]
        BY <2>4 DEF BurstOf
      <4> QED
        BY <2>3, <3>2, <4>1
    <3>4. In(name, WindowOf(time)) <= Now(name)' + late[name]
      <4>1. In(name, WindowOf(time)) <= Now(name) + late[name]
        BY <2>4 DEF BurstOf
      <4> QED
        BY <2>3, <3>2, <4>1
    <3> QED
      BY <2>3, <2>9, <3>1, <3>3, <3>4 DEF BurstOf
  <2> QED
    BY <2>1, <2>2, <2>8, <2>9
<1> QED
  BY <1>2, <1>3, <1>4, Counting
-----------------------------------------------------------------------------
(* The invariant and what follows from it.                                  *)

LEMMA InvInit ==
  ASSUME Init
  PROVE  IInv
<1>1. SessionInv /\ RowInv /\ CallInv /\ BucketInv
  BY Constants DEF Init, SessionInv, RowInv, CallInv, BucketInv, Null
<1>2. KeyInv
  BY DEF Init, KeyInv
<1>3. /\ \A name \in Names : admitted[name] = Zero /\ late[name] = 0
      /\ \A i \in Instances : seen[i] = Zero
  BY DEF Init
<1>4. \A t \in Times : Zero[t] = 0
  BY DEF Zero
<1>5. NoFuture
  BY <1>3, <1>4 DEF NoFuture
<1>6. \A name \in Names : late[name] = 0 /\ \A v : In(name, v) = 0
  BY <1>3, <1>4, TotalOfNone DEF In, InWindow
<1>7. \A name \in Names : Now(name) = 0
  <2>1. WindowOf(time) \in Windows
    BY TypeInit, WindowsOfTimes DEF TypeOK
  <2> QED
    BY <2>1 DEF Init, Now, None
<1>8. BurstInv
  BY <1>6, <1>7, Constants DEF BurstInv
<1> QED
  BY <1>1, <1>2, <1>5, <1>8 DEF IInv

LEMMA InvStep == TypeOK /\ TypeOK' /\ IInv /\ [Next]_vars => IInv'
BY SessionStep, RowStep, CallStep, FutureStep, BucketStep, KeyStep, BurstStep DEF IInv

\* The invariant behind the three theorems below: what sessions say, what requests hold,
\* and what the counters have counted.
THEOREM AccessInvariance == Spec => []IInv
<1>1. Init => IInv
  BY InvInit
<1>2. TypeOK /\ TypeOK' /\ IInv /\ [Next]_vars => IInv'
  BY InvStep
<1> QED
  BY <1>1, <1>2, AccessTypes, PTL DEF Spec

LEMMA AuthorityFollows ==
  ASSUME TypeOK, IInv
  PROVE  AuthorityBounded
<1>1. ASSUME NEW s \in sessions, NEW t \in Times, s.exp >= t
      PROVE  HeldSince(s.user, s.authority, t - Lifetime)
  <2>1. s \in Session /\ held \in [Users -> [Authorities -> -1..MaxTime]] /\ Lifetime \in Nat /\ t \in Nat
    BY Constants, WindowsOfTimes DEF TypeOK, Lifetime
  <2>2. s.exp \in Nat /\ s.user \in Users /\ s.authority \in Authorities
    BY <2>1, Constants DEF Session
  <2>3. held[s.user][s.authority] \in Int
    BY <2>1, <2>2
  <2>4. HeldSince(s.user, s.authority, s.exp - Lifetime)
    BY DEF IInv, SessionInv
  <2> QED
    BY <1>1, <2>1, <2>2, <2>3, <2>4 DEF HeldSince
<1>2. ASSUME NEW c \in Calls, call[c] # Idle
      PROVE  /\ call[c].at \in Times
             /\ call[c].by # NoSession => call[c].by \in sessions /\ call[c].by.exp >= call[c].at
             /\ call[c].owner # "pool" =>
                  /\ call[c].cookie \in sessions /\ call[c].cookie.exp >= call[c].at
                  /\ call[c].owner = call[c].cookie.authority.workspace
  <2>1. call[c] \in Call
    BY <1>2 DEF TypeOK
  <2> QED
    BY <1>2, <2>1 DEF IInv, CallInv, Call
<1> QED
  BY <1>1, <1>2 DEF AuthorityBounded

\* A change of a user's row takes effect within MaxAge and the time of a query, although
\* no session is taken back and a row may change between its reading and the signing:
\* whatever requests, logins and changes come between, a request that passed the check
\* of its role or workspace on a session acts on what the row said at most so long
\* before it arrived.
\* login's POST, createSession, verifySession, currentRole, assertCampaignAccess.
THEOREM AuthorityIsBounded == Spec => []AuthorityBounded
<1>1. TypeOK /\ IInv => AuthorityBounded
  BY AuthorityFollows
<1> QED
  BY <1>1, AccessTypes, AccessInvariance, PTL

LEMMA BurstFollows ==
  ASSUME TypeOK, IInv
  PROVE  BurstBounded
<1> SUFFICES ASSUME NEW name \in Names, NEW t \in Times
             PROVE  During(admitted[name], t, t + Window - 1) <= 2 * Limit + late[name]
  BY DEF BurstBounded
<1> DEFINE T == (t..(t + Window - 1)) \cap Times
           w == WindowOf(t)
           v == WindowOf(t) + 1
<1>1. /\ late[name] \in Nat /\ Limit \in Nat /\ Window \in Nat \ {0}
      /\ admitted[name] \in [Times -> Nat] /\ t \in Nat /\ w \in Windows /\ w \in Nat /\ v # w
      /\ In(name, w) \in Nat /\ In(name, v) \in Nat
  BY CountsAreNat, Constants, WindowsOfTimes, Windowing
<1>2. \A u \in T : u \in InWindow(w) \cup InWindow(v)
  <2> SUFFICES ASSUME NEW u \in T
               PROVE  u \in InWindow(w) \cup InWindow(v)
    OBVIOUS
  <2>1. u \in Times /\ u \in Nat /\ t <= u /\ u < t + Window
    BY <1>1, WindowsOfTimes
  <2>2. WindowOf(u) \in {w, v}
    BY <1>1, <2>1, WindowsInOrder
  <2> HIDE DEF w, v
  <2> QED
    BY <2>1, <2>2 DEF InWindow
<1>3. InWindow(w) \in SUBSET Times /\ InWindow(v) \in SUBSET Times /\ T \in SUBSET Times
  BY DEF InWindow
<1> HIDE DEF T
<1>4. Total(admitted[name], T) <= Total(admitted[name], InWindow(w) \cup InWindow(v))
  <2>1. InWindow(w) \cup InWindow(v) \in SUBSET Times
    BY <1>3
  <2> HIDE DEF w, v
  <2> QED
    BY <1>1, <1>2, <2>1, TotalGrows
<1>5. Total(admitted[name], InWindow(w) \cup InWindow(v)) <= In(name, w) + In(name, v)
  BY <1>1, <1>3, TotalOfUnion DEF In
<1>6. In(name, w) + In(name, v) <= 2 * Limit + late[name]
  <2>1. CASE v \in Windows
    BY <1>1, <2>1 DEF IInv, BurstInv
  <2>2. CASE v \notin Windows
    <3>1. InWindow(v) = {}
      BY <2>2, WindowsOfTimes DEF InWindow
    <3>2. In(name, v) = 0
      BY <3>1, TotalOfNone DEF In
    <3>3. In(name, w) <= Limit + late[name]
      BY <1>1 DEF IInv, BurstInv
    <3> HIDE DEF w, v
    <3> QED
      BY <1>1, <3>2, <3>3
  <2> QED
    BY <2>1, <2>2
<1>7. Total(admitted[name], T) \in Nat /\ Total(admitted[name], InWindow(w) \cup InWindow(v)) \in Nat
  BY <1>1, <1>3, TotalIsNat
<1> HIDE DEF w, v
<1> QED
  BY <1>1, <1>4, <1>5, <1>6, <1>7 DEF During, T

\* Across all instances no period of a window's length admits more than twice the limit
\* and the calls that were sent in one window and counted in another.  rateLimit.
THEOREM BurstsAreBounded == Spec => []BurstBounded
<1>1. TypeOK /\ IInv => BurstBounded
  BY BurstFollows
<1> QED
  BY <1>1, AccessTypes, AccessInvariance, PTL

LEMMA RefusalFollows ==
  ASSUME TypeOK, IInv
  PROVE  RefusedForCause
<1> SUFFICES ASSUME NEW i \in Instances, RateLimited(buckets[i])
             PROVE  During(seen[i], time - Window, time) >= EdgeLimit
  BY DEF RefusedForCause
<1> DEFINE b == buckets[i]
           from == b.until - Window
<1>1. /\ time \in Times /\ time \in Nat /\ Window \in Nat \ {0} /\ EdgeLimit \in Nat \ {0}
      /\ b \in Counter /\ seen[i] \in [Times -> Nat]
  BY Constants, WindowsOfTimes DEF TypeOK
<1>2. b.n \in Nat /\ b.until \in Int
  BY <1>1 DEF Counter
<1>3. Counted(b).n > EdgeLimit
  BY DEF RateLimited
<1>4. b # None /\ ~ b.until < time
  <2> SUFFICES ASSUME b = None \/ b.until < time
               PROVE  FALSE
    OBVIOUS
  <2>1. Counted(b).n = 1
    BY DEF Counted
  <2> QED
    BY <1>1, <1>3, <2>1
<1>5. Counted(b).n = b.n + 1
  BY <1>1, <1>4 DEF Counted, Counter
<1>6. from \in 0..time /\ b.n <= During(seen[i], from, time)
  BY <1>4 DEF IInv, BucketInv
<1>7. time - Window <= from
  BY <1>1, <1>2, <1>4
<1> HIDE DEF from, b
<1>8. \A t \in (from..time) \cap Times : t \in ((time - Window)..time) \cap Times
  BY <1>1, <1>6, <1>7
<1>9. During(seen[i], from, time) <= During(seen[i], time - Window, time)
  BY <1>1, <1>8, TotalGrows DEF During
<1>10. During(seen[i], from, time) \in Nat /\ During(seen[i], time - Window, time) \in Nat
  BY <1>1, TotalIsNat DEF During
<1> QED
  BY <1>1, <1>2, <1>3, <1>5, <1>6, <1>9, <1>10

\* An instance refuses a request only where more than the limit reached it within one
\* window's length, however often a client that was refused comes back.  rateLimited.
THEOREM RefusalsHaveCause == Spec => []RefusedForCause
<1>1. TypeOK /\ IInv => RefusedForCause
  BY RefusalFollows
<1> QED
  BY <1>1, AccessTypes, AccessInvariance, PTL

-----------------------------------------------------------------------------
(* The rotation of the encryption key.                                      *)

ScriptState == [on : BOOLEAN, dry : BOOLEAN, todo : SUBSET (Accounts \X Ciphertext),
                rewrapped : Nat, failed : Nat]

\* What is encrypted is a ciphertext under the current key of the environment.
LEMMA EncryptedUnder ==
  ASSUME NEW e \in Environment, NEW token \in 1..MaxTokens
  PROVE  /\ Encrypt(e, token) \in Ciphertext
         /\ Encrypt(e, token).key = e.current /\ Encrypt(e, token).key > 0
         /\ ~ Encrypt(e, token).legacy /\ Encrypt(e, token).token = token
         /\ IsStored(Encrypt(e, token))
BY CredentialsAssumption
   DEF Encrypt, Ciphertext, Environment, Keys, IsStored, NoCiphertext

\* What a step of the script does for one entry of its snapshot.
LEMMA RotationEntries ==
  ASSUME RotationTypeOK, Account
  PROVE  \E a \in Accounts, c \in Ciphertext :
           /\ <<a, c>> \in script.todo
           /\ script' \in ScriptState
           /\ script'.on = script.on /\ script'.dry = script.dry
           /\ script'.todo = script.todo \ {<<a, c>>}
           /\ \/ /\ ~ NeedsRewrap(env, c) /\ stored' = stored /\ script'.failed = script.failed
              \/ /\ stored' = IF script.dry THEN stored
                              ELSE [stored EXCEPT ![a] = Encrypt(env, c.token)]
                 /\ script'.failed = script.failed
              \/ stored' = stored /\ script'.failed = script.failed + 1
<1>1. PICK a \in Accounts, c \in Ciphertext :
        <<a, c>> \in script.todo /\ (Skip(a, c) \/ Rewrap(a, c) \/ RewrapFails(a, c))
  BY DEF Account
<1>2. script \in ScriptState
  BY DEF RotationTypeOK, ScriptState
<1>3. \/ script' = [script EXCEPT !.todo = @ \ {<<a, c>>}]
      \/ script' = [script EXCEPT !.todo = @ \ {<<a, c>>}, !.rewrapped = @ + 1]
      \/ script' = [script EXCEPT !.todo = @ \ {<<a, c>>}, !.failed = @ + 1]
  BY <1>1 DEF Skip, Rewrap, RewrapFails
<1> DEFINE todo == script.todo \ {<<a, c>>}
           Counts(rewrapped, failed) ==
             [on |-> script.on, dry |-> script.dry, todo |-> todo,
              rewrapped |-> rewrapped, failed |-> failed]
<1>4. CASE Skip(a, c)
  <2>1. script' = Counts(script.rewrapped, script.failed)
    BY <1>2, <1>4 DEF Skip, ScriptState
  <2> QED
    BY <1>1, <1>2, <1>4, <2>1 DEF Skip, ScriptState
<1>5. CASE Rewrap(a, c)
  <2>1. script' = Counts(script.rewrapped + 1, script.failed)
    BY <1>2, <1>5, Zenon DEF Rewrap, ScriptState
  <2>2. /\ script' \in ScriptState
        /\ script'.on = script.on /\ script'.dry = script.dry
        /\ script'.todo = todo /\ script'.failed = script.failed
    BY <1>2, <2>1 DEF ScriptState
  <2> QED
    BY <1>1, <1>5, <2>2 DEF Rewrap
<1>6. CASE RewrapFails(a, c)
  <2>1. script' = Counts(script.rewrapped, script.failed + 1)
    BY <1>2, <1>6, Zenon DEF RewrapFails, ScriptState
  <2> QED
    BY <1>1, <1>2, <1>6, <2>1 DEF RewrapFails, ScriptState
<1> QED
  BY <1>1, <1>4, <1>5, <1>6

\* What a run starts with.
LEMMA RotationStarts ==
  ASSUME RotationTypeOK, NEW dry \in BOOLEAN, StartRun(dry)
  PROVE  /\ script' \in ScriptState
         /\ script'.on /\ script'.dry = dry /\ script'.failed = 0
         /\ script'.todo = {<<a, stored[a]>> : a \in {b \in Accounts : IsStored(stored[b])}}
<1> DEFINE todo == {<<a, stored[a]>> : a \in {b \in Accounts : IsStored(stored[b])}}
<1>1. NoScript \in ScriptState
  BY DEF ScriptState, NoScript
<1>2. ASSUME NEW c \in ScriptState, script' = [c EXCEPT !.on = TRUE, !.dry = dry, !.todo = todo]
      PROVE  script' = [on |-> TRUE, dry |-> dry, todo |-> todo,
                        rewrapped |-> c.rewrapped, failed |-> c.failed]
  BY <1>2, Zenon DEF ScriptState
<1>3. script' = [on |-> TRUE, dry |-> dry, todo |-> todo, rewrapped |-> 0, failed |-> 0]
  <2>1. script' = [on |-> TRUE, dry |-> dry, todo |-> todo,
                   rewrapped |-> NoScript.rewrapped, failed |-> NoScript.failed]
    BY <1>1, <1>2 DEF StartRun
  <2> QED
    BY <2>1 DEF NoScript
<1>4. todo \in SUBSET (Accounts \X Ciphertext)
  BY DEF RotationTypeOK, IsStored
<1> QED
  BY <1>3, <1>4 DEF ScriptState

LEMMA RotationTypeStep == RotationTypeOK /\ [RotationNext]_rotationVars => RotationTypeOK'
<1> SUFFICES ASSUME RotationTypeOK, [RotationNext]_rotationVars
             PROVE  RotationTypeOK'
  OBVIOUS
<1>1. /\ env \in Environment /\ deployed \in [Processes -> Environment]
      /\ stored \in [Accounts -> Ciphertext \cup {NoCiphertext}]
      /\ script \in ScriptState /\ NoScript \in ScriptState
      /\ report \in [clean : BOOLEAN, settled : BOOLEAN]
  BY DEF RotationTypeOK, ScriptState, NoScript
<1>2. ASSUME NEW p \in Processes, NEW a \in Accounts, Connect(p, a)
      PROVE  RotationTypeOK'
  <2>1. given'[a] \in 1..MaxTokens /\ given' \in [Accounts -> 0..MaxTokens]
    BY <1>2, CredentialsAssumption DEF Connect, RotationTypeOK
  <2>2. stored' \in [Accounts -> Ciphertext \cup {NoCiphertext}]
    BY <1>1, <1>2, <2>1, EncryptedUnder DEF Connect
  <2>3. overtaken' \subseteq Accounts
    BY <1>2 DEF Connect, RotationTypeOK
  <2> QED
    BY <1>2, <2>1, <2>2, <2>3 DEF Connect, RotationTypeOK
<1>3. ASSUME NEW p \in Processes, Deploy(p)
      PROVE  RotationTypeOK'
  BY <1>3 DEF Deploy, RotationTypeOK
<1>4. CASE Promote
  <2>1. env' \in Environment
    BY <1>1, <1>4, CredentialsAssumption DEF Promote, Environment, Keys
  <2> QED
    BY <1>4, <2>1 DEF Promote, NoReport, RotationTypeOK
<1>5. CASE RemoveRetired
  <2>1. env' \in Environment
    BY <1>1, <1>5 DEF RemoveRetired, Environment
  <2> QED
    BY <1>5, <2>1 DEF RemoveRetired, RotationTypeOK
<1>6. ASSUME NEW dry \in BOOLEAN, StartRun(dry)
      PROVE  RotationTypeOK'
  <2>1. script' \in ScriptState
    BY <1>1, <1>6, RotationStarts
  <2>2. runs' \in 0..MaxRuns
    BY <1>6, CredentialsAssumption DEF StartRun, RotationTypeOK
  <2> QED
    BY <1>6, <2>1, <2>2 DEF StartRun, RotationTypeOK, ScriptState
<1>7. CASE Account
  <2>1. script' \in ScriptState
    BY <1>7, RotationEntries
  <2>2. stored' \in [Accounts -> Ciphertext \cup {NoCiphertext}]
    <3>1. \A c \in Ciphertext : Encrypt(env, c.token) \in Ciphertext
      BY <1>1, EncryptedUnder DEF Ciphertext
    <3> QED
      BY <1>1, <1>7, <3>1, RotationEntries
  <2>3. faults' \in 0..MaxFaults
    BY <1>7, CredentialsAssumption DEF Account, Skip, Rewrap, RewrapFails, RotationTypeOK
  <2> QED
    BY <1>7, <2>1, <2>2, <2>3 DEF Account, RotationTypeOK, ScriptState
<1>8. CASE EndRun
  <2>1. report' \in [clean : BOOLEAN, settled : BOOLEAN]
    BY <1>1, <1>8 DEF EndRun
  <2> QED
    BY <1>1, <1>8, <2>1 DEF EndRun, RotationTypeOK, ScriptState
<1>9. CASE CrashRun
  BY <1>1, <1>9, CredentialsAssumption DEF CrashRun, RotationTypeOK, ScriptState
<1>10. CASE UNCHANGED rotationVars
  BY <1>10 DEF rotationVars, RotationTypeOK
<1> QED
  BY <1>2, <1>3, <1>4, <1>5, <1>6, <1>7, <1>8, <1>9, <1>10 DEF RotationNext

-----------------------------------------------------------------------------
(* Keys.                                                                    *)

LEMMA KeyTypes ==
  ASSUME RotationTypeOK
  PROVE  /\ env \in Environments /\ \A p \in Processes : deployed[p] \in Environments
         /\ \A e \in Environments : e \in Environment /\ e.current \in Nat
         /\ \A key \in KeysInUse : key \in Nat
<1>1. \A e \in Environments : e \in Environment /\ e.current \in Nat
  BY CredentialsAssumption DEF RotationTypeOK, Environments, Environment, Keys
<1>2. \A a \in Accounts : IsStored(stored[a]) => stored[a].key \in Nat
  BY CredentialsAssumption DEF RotationTypeOK, IsStored, Ciphertext, Keys
<1> QED
  BY <1>1, <1>2 DEF Environments, KeysInUse

\* A step that brings in no environment and no key.
LEMMA NoNewKeys ==
  ASSUME RetiredInv, Environments' \subseteq Environments, KeysInUse' \subseteq KeysInUse,
         env'.current = env.current
  PROVE  RetiredInv'
BY DEF RetiredInv

\* Every key that is in use is known where it is older.
LEMMA RotationKeyStep ==
  ASSUME RotationTypeOK, RetiredInv, RunInv, [RotationNext]_rotationVars
  PROVE  RetiredInv'
<1>1. ASSUME NEW p \in Processes, NEW a \in Accounts, Connect(p, a)
      PROVE  RetiredInv'
  <2>1. env' = env /\ Environments' = Environments
    BY <1>1 DEF Connect, Environments
  <2>2. \A b \in Accounts : stored'[b] = stored[b] \/ stored'[b].key = deployed[p].current
    BY <1>1 DEF Connect, Encrypt, RotationTypeOK
  <2>3. KeysInUse' \subseteq KeysInUse
    BY <2>1, <2>2, KeyTypes DEF KeysInUse
  <2> QED
    BY <2>1, <2>3, NoNewKeys
<1>2. CASE Account
  <2>1. env' = env /\ Environments' = Environments
    BY <1>2 DEF Account, Environments
  <2>2. \A b \in Accounts : stored'[b] = stored[b] \/ stored'[b].key = env.current
    <3>1. PICK a \in Accounts, c \in Ciphertext :
            \/ stored' = stored
            \/ stored' = [stored EXCEPT ![a] = Encrypt(env, c.token)]
      BY <1>2, RotationEntries
    <3> QED
      BY <3>1 DEF Encrypt, RotationTypeOK
  <2>3. KeysInUse' \subseteq KeysInUse
    BY <2>1, <2>2, KeyTypes DEF KeysInUse
  <2> QED
    BY <2>1, <2>3, NoNewKeys
<1>3. ASSUME NEW p \in Processes, Deploy(p)
      PROVE  RetiredInv'
  <2>1. env' = env /\ stored' = stored /\ Environments' \subseteq Environments
    BY <1>3 DEF Deploy, Environments, RotationTypeOK
  <2>2. KeysInUse' \subseteq KeysInUse
    BY <2>1 DEF KeysInUse
  <2> QED
    BY <2>1, <2>2, NoNewKeys
<1>4. CASE Promote
  <2>1. /\ env' = [current |-> env.current + 1, retired |-> env.retired \cup {env.current}]
        /\ deployed' = deployed /\ stored' = stored
    BY <1>4 DEF Promote
  <2>2. Environments' \subseteq Environments \cup {env'}
    BY <2>1 DEF Environments
  <2>3. KeysInUse' \subseteq KeysInUse \cup {env.current + 1}
    BY <2>1, <2>2 DEF KeysInUse
  <2>4. \A e \in Environments, key \in KeysInUse :
          /\ key <= env.current /\ e.current <= env.current
          /\ key < e.current => key \in e.retired
    BY DEF RetiredInv, KeysInUse
  <2>5. \A key \in KeysInUse : key < env.current => key \in env.retired
    BY <2>4, KeyTypes
  <2>6. env'.current = env.current + 1 /\ env'.retired = env.retired \cup {env.current}
    BY <2>1
  <2>7. ASSUME NEW e \in Environments', NEW key \in KeysInUse'
        PROVE  key <= env'.current /\ (key < e.current => key \in e.retired)
    <3>1. /\ env.current \in Nat /\ env.current \in KeysInUse
          /\ \A k \in KeysInUse : k \in Nat /\ k <= env.current
          /\ \A d \in Environments : d.current \in Nat /\ d.current <= env.current
      BY <2>4, KeyTypes DEF KeysInUse
    <3>2. CASE e = env'
      <4>1. CASE key \in KeysInUse
        <5>1. key = env.current \/ key < env.current
          BY <3>1, <4>1
        <5> QED
          BY <2>5, <2>6, <3>1, <3>2, <4>1, <5>1
      <4>2. CASE key = env.current + 1
        BY <2>6, <3>1, <3>2, <4>2
      <4> QED
        BY <2>3, <4>1, <4>2
    <3>3. CASE e \in Environments
      <4>1. CASE key \in KeysInUse
        BY <2>4, <2>6, <3>1, <3>3, <4>1
      <4>2. CASE key = env.current + 1
        BY <2>6, <3>1, <3>3, <4>2
      <4> QED
        BY <2>3, <4>1, <4>2
    <3> QED
      BY <2>2, <3>2, <3>3
  <2> QED
    BY <2>7 DEF RetiredInv
<1>5. CASE RemoveRetired
  <2>1. /\ env'.current = env.current /\ deployed' = deployed /\ stored' = stored
        /\ report.clean
    BY <1>5 DEF RemoveRetired, RunInv, RotationTypeOK, Environment
  <2>2. Environments' \subseteq Environments \cup {env'}
    BY <2>1 DEF Environments
  <2>3. KeysInUse' \subseteq {env.current}
    <3>1. \A p \in Processes : deployed[p].current = env.current
      BY <2>1 DEF RunInv
    <3>2. \A a \in Accounts : IsStored(stored[a]) => stored[a].key = env.current
      BY <2>1 DEF RunInv, CleanMeansRewrapped, NeedsRewrap
    <3> QED
      BY <2>1, <3>1, <3>2 DEF KeysInUse, Environments
  <2>4. env.current \in KeysInUse
    BY KeyTypes DEF KeysInUse
  <2> QED
    BY <2>1, <2>2, <2>3, <2>4, KeyTypes DEF RetiredInv
<1>6. CASE (\E dry \in BOOLEAN : StartRun(dry)) \/ EndRun \/ CrashRun \/ UNCHANGED rotationVars
  <2>1. env' = env /\ deployed' = deployed /\ stored' = stored
    BY <1>6 DEF StartRun, EndRun, CrashRun, rotationVars
  <2> QED
    BY <2>1, NoNewKeys DEF Environments, KeysInUse
<1> QED
  BY <1>1, <1>2, <1>3, <1>4, <1>5, <1>6 DEF RotationNext

-----------------------------------------------------------------------------
(* Runs.                                                                    *)

LEMMA RotationRunStep ==
  ASSUME RotationTypeOK, RotationTypeOK', RunInv, [RotationNext]_rotationVars
  PROVE  RunInv'
<1>1. ASSUME NEW p \in Processes, NEW a \in Accounts, Connect(p, a)
      PROVE  RunInv'
  <2>1. /\ env' = env /\ deployed' = deployed /\ script' = script /\ report' = report
        /\ \A b \in Accounts \ {a} : stored'[b] = stored[b]
    BY <1>1 DEF Connect, RotationTypeOK
  <2>2. deployed[p].current = env.current => ~ NeedsRewrap(env, stored'[a])
    BY <1>1 DEF Connect, Encrypt, NeedsRewrap, RotationTypeOK
  <2> QED
    BY <2>1, <2>2 DEF RunInv, CleanMeansRewrapped, NeedsRewrap
<1>2. CASE Account
  <2>1. PICK a \in Accounts, c \in Ciphertext :
           /\ <<a, c>> \in script.todo
           /\ script'.on = script.on /\ script'.dry = script.dry
           /\ script'.todo = script.todo \ {<<a, c>>}
           /\ \/ /\ ~ NeedsRewrap(env, c) /\ stored' = stored /\ script'.failed = script.failed
              \/ /\ stored' = IF script.dry THEN stored
                              ELSE [stored EXCEPT ![a] = Encrypt(env, c.token)]
                 /\ script'.failed = script.failed
              \/ stored' = stored /\ script'.failed = script.failed + 1
    BY <1>2, RotationEntries
  <2>2. /\ env' = env /\ deployed' = deployed /\ report' = report /\ script.on
        /\ script.failed \in Nat
    BY <1>2 DEF Account, RotationTypeOK
  <2>3. \A b \in Accounts : IsStored(stored'[b]) => ~ NeedsRewrap(env, stored'[b]) \/ stored'[b] = stored[b]
    BY <2>1 DEF Encrypt, NeedsRewrap, RotationTypeOK
  <2>4. script'.failed = 0 /\ ~ script.dry =>
          \A b \in Accounts : IsStored(stored'[b]) =>
            ~ NeedsRewrap(env, stored'[b]) \/ <<b, stored'[b]>> \in script'.todo
    <3>1. CASE ~ NeedsRewrap(env, c) /\ stored' = stored /\ script'.failed = script.failed
      BY <2>1, <2>2, <3>1 DEF RunInv
    <3>2. CASE /\ stored' = [stored EXCEPT ![a] = Encrypt(env, c.token)]
               /\ script'.failed = script.failed
      <4>1. ~ NeedsRewrap(env, stored'[a]) /\ \A b \in Accounts \ {a} : stored'[b] = stored[b]
        BY <3>2 DEF Encrypt, NeedsRewrap, RotationTypeOK
      <4> QED
        BY <2>1, <2>2, <3>2, <4>1 DEF RunInv
    <3>3. CASE script'.failed = script.failed + 1
      BY <2>2, <3>3
    <3> QED
      BY <2>1, <3>1, <3>2, <3>3
  <2> QED
    BY <2>1, <2>2, <2>3, <2>4 DEF RunInv, CleanMeansRewrapped, NeedsRewrap
<1>3. ASSUME NEW p \in Processes, Deploy(p)
      PROVE  RunInv'
  BY <1>3 DEF Deploy, RunInv, CleanMeansRewrapped, NeedsRewrap, RotationTypeOK
<1>4. CASE Promote
  BY <1>4 DEF Promote, NoReport, RunInv, CleanMeansRewrapped
<1>5. CASE RemoveRetired
  <2>1. env'.current = env.current
    BY <1>5 DEF RemoveRetired, RotationTypeOK, Environment
  <2> QED
    BY <1>5, <2>1 DEF RemoveRetired, RunInv, CleanMeansRewrapped, NeedsRewrap
<1>6. ASSUME NEW dry \in BOOLEAN, StartRun(dry)
      PROVE  RunInv'
  <2>1. /\ env' = env /\ deployed' = deployed /\ stored' = stored /\ report' = report
        /\ \A p \in Processes : deployed[p].current = env.current
    BY <1>6 DEF StartRun, AllDeployed
  <2>2. \A a \in Accounts : IsStored(stored[a]) => <<a, stored[a]>> \in script'.todo
    BY <1>6, RotationStarts
  <2> QED
    BY <2>1, <2>2 DEF RunInv, CleanMeansRewrapped, NeedsRewrap
<1>7. CASE EndRun
  <2>1. /\ env' = env /\ deployed' = deployed /\ stored' = stored /\ script.on /\ script.todo = {}
        /\ script' = NoScript
    BY <1>7 DEF EndRun
  <2>2. CASE script.dry
    <3>1. report'.clean = report.clean /\ (report'.settled => report.clean)
      BY <1>7, <2>2 DEF EndRun, RotationTypeOK
    <3> QED
      BY <2>1, <3>1 DEF RunInv, CleanMeansRewrapped, NeedsRewrap, NoScript
  <2>3. CASE ~ script.dry
    <3>1. report'.clean = (script.failed = 0) /\ ~ report'.settled
      BY <1>7, <2>3 DEF EndRun
    <3> QED
      BY <2>1, <2>3, <3>1 DEF RunInv, CleanMeansRewrapped, NeedsRewrap, NoScript
  <2> QED
    BY <2>2, <2>3
<1>8. CASE CrashRun
  BY <1>8 DEF CrashRun, NoScript, RunInv, CleanMeansRewrapped, NeedsRewrap
<1>9. CASE UNCHANGED rotationVars
  BY <1>9 DEF rotationVars, RunInv, CleanMeansRewrapped, NeedsRewrap
<1> QED
  BY <1>1, <1>2, <1>3, <1>4, <1>5, <1>6, <1>7, <1>8, <1>9 DEF RotationNext

-----------------------------------------------------------------------------
(* Tokens.                                                                  *)

LEMMA RotationTokenStep ==
  ASSUME RotationTypeOK, RotationTypeOK', TokenInv, [RotationNext]_rotationVars
  PROVE  TokenInv'
<1>1. ASSUME NEW p \in Processes, NEW a \in Accounts, Connect(p, a)
      PROVE  TokenInv'
  <2>1. /\ script' = script
        /\ stored'[a].token = given'[a]
        /\ \A b \in Accounts \ {a} :
             /\ stored'[b] = stored[b] /\ given'[b] = given[b]
             /\ (b \in overtaken') <=> (b \in overtaken)
    BY <1>1 DEF Connect, Encrypt, RotationTypeOK
  <2>2. Pending(a) => a \in overtaken'
    BY <1>1 DEF Connect
  <2>3. TokenKept'
    BY <2>1 DEF TokenInv, TokenKept
  <2>4. ASSUME ~ script'.dry, NEW b \in Accounts, NEW c \in Ciphertext, <<b, c>> \in script'.todo
        PROVE  c.token = given'[b] \/ b \in overtaken'
    <3>1. CASE b = a
      BY <2>1, <2>2, <2>4, <3>1 DEF Pending
    <3>2. CASE b # a
      BY <2>1, <2>4, <3>2 DEF TokenInv
    <3> QED
      BY <3>1, <3>2
  <2> QED
    BY <2>3, <2>4 DEF TokenInv
<1>2. CASE Account
  <2>1. PICK a \in Accounts, c \in Ciphertext :
           /\ <<a, c>> \in script.todo
           /\ script'.dry = script.dry /\ script'.todo = script.todo \ {<<a, c>>}
           /\ \/ stored' = stored
              \/ stored' = IF script.dry THEN stored
                           ELSE [stored EXCEPT ![a] = Encrypt(env, c.token)]
    BY <1>2, RotationEntries
  <2>2. given' = given /\ overtaken' = overtaken
    BY <1>2 DEF Account
  <2>3. \/ stored' = stored
        \/ /\ stored'[a].token = c.token /\ (c.token = given[a] \/ a \in overtaken)
           /\ \A b \in Accounts \ {a} : stored'[b] = stored[b]
    BY <2>1 DEF TokenInv, Encrypt, RotationTypeOK
  <2>4. TokenKept'
    BY <2>2, <2>3 DEF TokenInv, TokenKept
  <2> QED
    BY <2>1, <2>2, <2>4 DEF TokenInv
<1>3. ASSUME NEW dry \in BOOLEAN, StartRun(dry)
      PROVE  TokenInv'
  <2>1. stored' = stored /\ given' = given /\ overtaken' = overtaken
    BY <1>3 DEF StartRun
  <2>2. script'.todo = {<<a, stored[a]>> : a \in {b \in Accounts : IsStored(stored[b])}}
    BY <1>3, RotationStarts
  <2>3. \A a \in Accounts, c \in Ciphertext : <<a, c>> \in script'.todo => c = stored[a]
    BY <2>2
  <2> QED
    BY <2>1, <2>3 DEF TokenInv, TokenKept
<1>4. CASE EndRun \/ CrashRun
  BY <1>4 DEF EndRun, CrashRun, NoScript, TokenInv, TokenKept
<1>5. CASE (\E p \in Processes : Deploy(p)) \/ Promote \/ RemoveRetired \/ UNCHANGED rotationVars
  <2>1. stored' = stored /\ given' = given /\ overtaken' = overtaken /\ script' = script
    BY <1>5 DEF Deploy, Promote, RemoveRetired, rotationVars
  <2> QED
    BY <2>1 DEF TokenInv, TokenKept
<1> QED
  BY <1>1, <1>2, <1>3, <1>4, <1>5 DEF RotationNext

-----------------------------------------------------------------------------

LEMMA RotationBegins == RotationInit => RotationTypeOK /\ RotationInv
<1> SUFFICES ASSUME RotationInit
             PROVE  RotationTypeOK /\ RotationInv
  OBVIOUS
<1>1. env \in Environment /\ deployed \in [Processes -> Environment]
  BY CredentialsAssumption DEF RotationInit, Environment, Keys
<1>2. /\ stored \in [Accounts -> Ciphertext \cup {NoCiphertext}]
      /\ \A a \in Accounts : IsStored(stored[a]) => stored[a].key = 1
      /\ \A a \in Accounts : stored[a].token \in 0..MaxTokens
  <2>1. [key : {1}, legacy : BOOLEAN, token : {1}] \subseteq Ciphertext
    BY CredentialsAssumption DEF Ciphertext, Keys
  <2>2. \A c \in [key : {1}, legacy : BOOLEAN, token : {1}] \cup {NoCiphertext} :
          (IsStored(c) => c.key = 1) /\ c.token \in 0..MaxTokens
    BY CredentialsAssumption DEF NoCiphertext, IsStored
  <2> QED
    BY <2>1, <2>2 DEF RotationInit
<1>3. given \in [Accounts -> 0..MaxTokens]
  BY <1>2 DEF RotationInit
<1>4. RotationTypeOK
  BY <1>1, <1>2, <1>3, CredentialsAssumption DEF RotationInit, NoScript, NoReport, RotationTypeOK
<1>5. RetiredInv
  <2>1. \A e \in Environments : e.current = 1
    BY DEF RotationInit, Environments
  <2>2. \A key \in KeysInUse : key = 1
    BY <1>2, <2>1 DEF KeysInUse
  <2> QED
    BY <2>1, <2>2 DEF RotationInit, RetiredInv
<1>6. RunInv
  BY DEF RotationInit, NoScript, NoReport, RunInv, CleanMeansRewrapped
<1>7. TokenInv
  BY DEF RotationInit, NoScript, TokenInv, TokenKept
<1> QED
  BY <1>4, <1>5, <1>6, <1>7 DEF RotationInv

\* Types: an environment names keys that exist, a run counts naturals, and what is
\* stored is a ciphertext or nothing (lib/crypto.ts, scripts/rotate-secrets.ts).
THEOREM CredentialTypes == RotationSpec => []RotationTypeOK
<1>1. RotationInit => RotationTypeOK
  BY RotationBegins
<1> QED
  BY <1>1, RotationTypeStep, PTL DEF RotationSpec

\* The keys in use are known wherever they are old, a run without failures leaves
\* nothing under an older key, and it holds no token that was given up.
THEOREM CredentialInvariance == RotationSpec => []RotationInv
<1>1. RotationInit => RotationTypeOK /\ RotationInv
  BY RotationBegins
<1>2. RotationTypeOK /\ RotationInv /\ [RotationNext]_rotationVars => RotationTypeOK' /\ RotationInv'
  BY RotationTypeStep, RotationKeyStep, RotationRunStep, RotationTokenStep DEF RotationInv
<1> QED
  BY <1>1, <1>2, PTL DEF RotationSpec

\* A refresh token that a process cannot decrypt (getAccessToken throws) is a legacy
\* one, or was written under a key promoted after the process was started: no
\* order of deployments, runs and removals by the runbook loses the key of another.
THEOREM NoKeyIsLost == RotationSpec => []OnlyLateOnesThrow
<1>1. RotationTypeOK /\ RotationInv => OnlyLateOnesThrow
  <2> SUFFICES ASSUME RotationTypeOK, RetiredInv, NEW p \in Processes, NEW a \in Accounts,
                      "throws" \in AccessToken(p, a), ~ stored[a].legacy
               PROVE  deployed[p].current < stored[a].key
    BY DEF RotationInv, OnlyLateOnesThrow
  <2>1. IsStored(stored[a]) /\ ~ Decrypts(deployed[p], stored[a])
    BY DEF AccessToken
  <2>2. stored[a].key # deployed[p].current /\ stored[a].key \notin deployed[p].retired
    BY <2>1 DEF Decrypts, HasKey
  <2>3. stored[a].key \in KeysInUse /\ deployed[p] \in Environments
    BY <2>1 DEF KeysInUse, Environments
  <2>4. ~ (stored[a].key < deployed[p].current)
    BY <2>2, <2>3 DEF RetiredInv
  <2> QED
    BY <2>2, <2>3, <2>4, KeyTypes
<1> QED
  BY <1>1, CredentialTypes, CredentialInvariance, PTL

\* After a run that reported failed=0 everything stored is under the current key
\* and none of it is legacy, whatever was connected meanwhile, so that step 6 of
\* the runbook may remove the retired keys.
THEOREM CleanRunsRewrap == RotationSpec => []CleanMeansRewrapped
<1>1. RotationInv => CleanMeansRewrapped
  BY DEF RotationInv, RunInv
<1> QED
  BY <1>1, CredentialInvariance, PTL

\* The script writes back the token an account was last given, except to an account
\* that was connected again while the run held its former ciphertext.
THEOREM TokensSurvive == RotationSpec => []TokenKept
<1>1. RotationInv => TokenKept
  BY DEF RotationInv, TokenInv
<1> QED
  BY <1>1, CredentialInvariance, PTL
=============================================================================
