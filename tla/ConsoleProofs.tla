--------------------------- MODULE ConsoleProofs ---------------------------
(* What one tab shows and caches, for any number of instances, pages,        *)
(* sessions, changes and failures.                                           *)
EXTENDS Console, TLAPS

Fetching == [by : Nat, answer : {"", "200", "401", "error"}, data : Nat, old : BOOLEAN]
Cached == [data : Nat, by : Nat, invalid : BOOLEAN, old : BOOLEAN]
Mutation == [kind : {"apply", "edit", "logout"}, by : Nat, invalidates : Profile, answer : {"", "ok", "401", "error"}]

VarType ==
  /\ version \in Nat /\ known \in Nat /\ known <= version
  /\ signIns \in Nat /\ errors \in Nat
  /\ sessions \subseteq Nat /\ \A s \in sessions : s <= signIns
  /\ cookie \in Nat /\ cookie <= signIns
  /\ where \in {"login", "entering", "app"} /\ current \in Profile /\ page \in Page \cup {None}
  /\ where # "app" => page = None
  /\ cache \in [Query -> {None} \cup Cached]
  /\ flight \in [Query -> {None} \cup Fetching]
  /\ mutation # None => mutation \in Mutation
  /\ missed \in BOOLEAN /\ mixed \in BOOLEAN

\* Who is refused has no session, and never gets that one back.
RefusedInv ==
  /\ \A q \in Query : flight[q] # None =>
       flight[q].by <= signIns /\ (flight[q].answer = "401" => flight[q].by \notin sessions)
  /\ mutation # None => mutation.by <= signIns /\ (mutation.answer = "401" => mutation.by \notin sessions)

\* With one tab, what is cached and fetched is of the session the browser
\* sends, and at the login page there is nothing of either.
OfThis(f, q) == f[q] # None => f[q].by = cookie
SignInInv ==
  ~mixed =>
    /\ \A q \in Query : OfThis(cache, q) /\ OfThis(flight, q)
    /\ where = "app" => cache[Me] # None
    /\ where # "app" => cache = Empty /\ \A q \in Query \ {Me} : flight[q] = None
    /\ where = "login" => flight = Empty

\* What is not marked invalid is as new as what is known, and what is fetched
\* will be.
FreshInv ==
  \A q \in Query \ {Me} :
    /\ flight[q] # None /\ flight[q].answer = "200" => flight[q].data >= known \/ flight[q].old \/ missed
    /\ cache[q] # None /\ ~cache[q].invalid => cache[q].data >= known \/ cache[q].old \/ missed

\* What is shown and marked invalid is being fetched, or that failed.
RefetchInv ==
  /\ \A q \in Query : flight[q] # None /\ flight[q].answer = "error" => errors > 0
  /\ \A q \in Query \ {Me} :
       Showing(q) /\ cache[q] # None /\ cache[q].invalid => flight[q] # None \/ errors > 0

IInv == VarType /\ RefusedInv /\ SignInInv /\ FreshInv /\ RefetchInv

-----------------------------------------------------------------------------
(* Records of fetches and of what is cached are not None                     *)
LEMMA Records ==
  /\ \A f \in Fetching : f # None
  /\ \A c \in Cached : c # None
  BY ConsoleConstants DEF Fetching, Cached

(* The queries of the watched instance                                       *)
LEMMA Queries ==
  /\ Me \in Query
  /\ \A q \in Query \ {Me} : q[1] = Watched /\ q[2] \in Page /\ q[2] # None
  BY ConsoleConstants DEF Query, Me

(* A new fetch is of the session the browser sends                           *)
LEMMA SentType ==
  ASSUME VarType
  PROVE  /\ Sent \in Fetching /\ Sent # None
         /\ Sent.by = cookie /\ Sent.answer = "" /\ cookie <= signIns
  <1>1. Sent \in Fetching
    BY DEF VarType, Sent, Fetching
  <1> QED BY <1>1, Records DEF VarType, Sent

(* To fetch is to send what is not under way                                 *)
LEMMA Fetches ==
  ASSUME VarType, NEW p \in Query, flight' = Fetch(flight, p)
  PROVE  /\ flight' \in [Query -> {None} \cup Fetching] /\ flight'[p] # None
         /\ \A q \in Query : flight'[q] = flight[q] \/ (q = p /\ flight'[q] = Sent)
  BY SentType DEF VarType, Fetch

(* The first fetch of a page that is mounted                                 *)
LEMMA Mounts ==
  ASSUME VarType, NEW i, NEW p, Mount(i, p)
  PROVE  /\ flight' \in [Query -> {None} \cup Fetching]
         /\ \A q \in Query : flight'[q] = flight[q] \/ flight'[q] = Sent
         /\ <<i, p>> \in Query => flight'[<<i, p>>] # None \/ ~Due(<<i, p>>)
         /\ \A q \in Query : flight'[q] = Sent \/ flight'[q] = flight[q]
         /\ \A q \in Query : flight[q] # None => flight'[q] # None
  <1>1. CASE <<i, p>> \in Query /\ flight' = Fetch(flight, <<i, p>>)
    BY <1>1, Fetches, SentType
  <1>2. CASE (<<i, p>> \in Query => ~Due(<<i, p>>)) /\ UNCHANGED flight
    BY <1>2 DEF VarType
  <1> QED BY <1>1, <1>2 DEF Mount

(* Fetches that go out now are of this session and know nothing old          *)
LEMMA SendingKeeps ==
  ASSUME IInv, flight' \in [Query -> {None} \cup Fetching],
         \A q \in Query : flight'[q] = flight[q] \/ flight'[q] = Sent,
         UNCHANGED <<version, sessions, cookie, cache, signIns, errors, known, missed, mixed>>
  PROVE  /\ \A q \in Query : flight'[q] # None =>
              flight'[q].by <= signIns /\ (flight'[q].answer = "401" => flight'[q].by \notin sessions)
         /\ FreshInv'
         /\ \A q \in Query : flight'[q] # None /\ flight'[q].answer = "error" => errors > 0
         /\ ~mixed => \A q \in Query : OfThis(flight, q)'
  <1>1. Sent.by = cookie /\ Sent.answer = "" /\ cookie <= signIns
    BY SentType DEF IInv
  <1>2. \A q \in Query : flight'[q] # None =>
              flight'[q].by <= signIns /\ (flight'[q].answer = "401" => flight'[q].by \notin sessions)
    BY <1>1 DEF IInv, RefusedInv
  <1>3. FreshInv'
    BY <1>1 DEF IInv, FreshInv
  <1>4. \A q \in Query : flight'[q] # None /\ flight'[q].answer = "error" => errors > 0
    BY <1>1 DEF IInv, RefetchInv
  <1>5. ~mixed => \A q \in Query : OfThis(flight, q)'
    BY <1>1 DEF IInv, SignInInv, OfThis
  <1> QED BY <1>2, <1>3, <1>4, <1>5

(* A new session is nobody else's                                            *)
LEMMA NewSession ==
  ASSUME IInv, signIns' = signIns + 1, sessions' = sessions \cup {signIns + 1}, cookie' = signIns + 1,
         UNCHANGED <<flight, mutation>>
  PROVE  /\ signIns' \in Nat /\ sessions' \subseteq Nat /\ \A s \in sessions' : s <= signIns'
         /\ cookie' \in Nat /\ cookie' <= signIns'
         /\ RefusedInv'
  <1>1. signIns \in Nat /\ sessions \subseteq Nat /\ (\A s \in sessions : s <= signIns)
    BY DEF IInv, VarType
  <1>2. \A q \in Query : flight[q] # None => flight[q].by \in Nat
    BY DEF IInv, VarType, Fetching
  <1>3. mutation # None => mutation.by \in Nat
    BY DEF IInv, VarType, Mutation
  <1>4. ASSUME NEW n \in Nat, n <= signIns, n \notin sessions PROVE n \notin sessions' /\ n <= signIns'
    BY <1>1, <1>4
  <1>5. ASSUME NEW n \in Nat, n <= signIns PROVE n <= signIns'
    BY <1>1, <1>5
  <1>6. RefusedInv'
    BY <1>2, <1>3, <1>4, <1>5 DEF IInv, RefusedInv
  <1> QED BY <1>1, <1>6

-----------------------------------------------------------------------------
(* Signing in and out                                                        *)

(* The user signs in                                                         *)
LEMMA SignInStep == ASSUME IInv, SignIn PROVE IInv'
  <1>1. Entry(0, signIns + 1, FALSE) \in Cached /\ Entry(0, signIns + 1, FALSE) # None
        /\ Entry(0, signIns + 1, FALSE).by = signIns + 1
    <2>1. signIns + 1 \in Nat
      BY DEF IInv, VarType
    <2> QED BY <2>1, Records DEF Entry, Cached
  <1>2. /\ cache'[Me] = Entry(0, signIns + 1, FALSE) /\ cache' \in [Query -> {None} \cup Cached]
        /\ \A q \in Query \ {Me} : cache'[q] = cache[q]
    BY <1>1, Queries DEF SignIn, IInv, VarType
  <1>3. VarType'
    BY <1>2, NewSession DEF SignIn, IInv, VarType, history
  <1>4. RefusedInv'
    BY NewSession DEF SignIn
  <1>5. SignInInv'
    BY <1>1, <1>2, Queries DEF SignIn, IInv, SignInInv, OfThis, Empty, history
  <1>6. FreshInv'
    BY <1>2 DEF SignIn, IInv, FreshInv, history
  <1>7. RefetchInv'
    <2>1. page' = None /\ UNCHANGED <<flight, errors>>
      BY DEF SignIn, IInv, VarType
    <2>2. \A q \in Query \ {Me} : ~Showing(q)'
      BY <2>1, Queries DEF Showing
    <2> QED BY <2>1, <2>2 DEF IInv, RefetchInv
  <1> QED BY <1>3, <1>4, <1>5, <1>6, <1>7 DEF IInv

(* The application is opened from the login page                             *)
LEMMA EnterStep == ASSUME IInv, Enter PROVE IInv'
  <1>1. flight' \in [Query -> {None} \cup Fetching]
        /\ \A q \in Query : flight'[q] = flight[q] \/ (q = Me /\ flight'[q] = Sent)
    BY Fetches, Queries DEF Enter, IInv, VarType
  <1>2. VarType'
    BY <1>1 DEF Enter, IInv, VarType, history
  <1>3. RefusedInv' /\ FreshInv'
    BY <1>1, SendingKeeps DEF Enter, IInv, RefusedInv, history
  <1>4. SignInInv'
    BY <1>1, SentType, Queries DEF Enter, IInv, SignInInv, OfThis, Empty, history
  <1>5. RefetchInv'
    <2>1. page' = None /\ UNCHANGED <<cache, errors>>
      BY DEF Enter, IInv, VarType
    <2>2. \A q \in Query \ {Me} : ~Showing(q)'
      BY <2>1, Queries DEF Showing
    <2> QED BY <1>1, <2>1, <2>2, SendingKeeps DEF Enter, IInv, RefetchInv, history
  <1> QED BY <1>2, <1>3, <1>4, <1>5 DEF IInv

(* The browser's history, another tab, and the end of a session              *)
LEMMA OutsideStep == ASSUME IInv, Back \/ OtherTab \/ Expire PROVE IInv'
  <1>1. ASSUME Back \/ Expire PROVE VarType' /\ RefusedInv'
    <2>1. VarType'
      BY <1>1 DEF Back, Expire, IInv, VarType, tab, history
    <2>2. RefusedInv'
      BY <1>1 DEF Back, Expire, IInv, RefusedInv, tab
    <2> QED BY <2>1, <2>2
  <1>2. ASSUME OtherTab PROVE VarType' /\ RefusedInv'
    <2>1. RefusedInv'
      BY <1>2, NewSession DEF OtherTab, tab
    <2>2. VarType'
      BY <1>2, NewSession DEF OtherTab, IInv, VarType, tab
    <2> QED BY <2>1, <2>2
  <1>3. SignInInv'
    BY DEF Back, OtherTab, Expire, IInv, SignInInv, OfThis, tab, history
  <1>4. FreshInv' /\ RefetchInv'
    BY DEF Back, OtherTab, Expire, IInv, FreshInv, RefetchInv, Showing, tab, history
  <1> QED BY <1>1, <1>2, <1>3, <1>4 DEF IInv

(* The page is loaded again                                                  *)
LEMMA ReloadStep == ASSUME IInv, Reload PROVE IInv'
  <1>1. /\ flight' \in [Query -> {None} \cup Fetching] /\ flight'[Me] = Sent
        /\ \A q \in Query \ {Me} : flight'[q] = None
    BY SentType, Queries DEF Reload, Empty, IInv
  <1>2. cache' \in [Query -> {None} \cup Cached] /\ \A q \in Query : cache'[q] = None
    BY DEF Reload, Empty
  <1>3. VarType'
    BY <1>1, <1>2 DEF Reload, IInv, VarType, history
  <1>4. RefusedInv' /\ FreshInv' /\ RefetchInv'
    BY <1>1, <1>2, SentType DEF Reload, IInv, RefusedInv, FreshInv, RefetchInv
  <1>5. SignInInv'
    BY <1>1, <1>2, SentType DEF Reload, IInv, SignInInv, OfThis, Empty, history
  <1> QED BY <1>3, <1>4, <1>5 DEF IInv

(* The application is left: nothing of the sign-in stays                     *)
LEMMA Left ==
  ASSUME IInv, LeaveApp, version' = version, sessions' \subseteq sessions, cookie' \in {0, cookie},
         mutation' \in {None, mutation}, UNCHANGED <<current, signIns, errors, history>>
  PROVE  IInv'
  <1>1. /\ cache' = Empty /\ flight' = Empty /\ where' = "login" /\ page' = None
        /\ \A q \in Query : cache'[q] = None /\ flight'[q] = None
        /\ Empty \in [Query -> {None} \cup Cached] /\ Empty \in [Query -> {None} \cup Fetching]
    BY DEF LeaveApp, Empty
  <1>2. VarType'
    BY <1>1 DEF IInv, VarType, history
  <1>3. RefusedInv' /\ FreshInv' /\ RefetchInv'
    BY <1>1 DEF IInv, RefusedInv, FreshInv, RefetchInv
  <1>4. SignInInv'
    BY <1>1 DEF SignInInv, OfThis, Empty
  <1> QED BY <1>2, <1>3, <1>4 DEF IInv

-----------------------------------------------------------------------------
(* Pages                                                                     *)

(* The user goes to another page or another instance                         *)
LEMMA GoStep == ASSUME IInv, Navigate \/ Select PROVE IInv'
  <1>1. /\ Mount(current', page') /\ where = "app" /\ where' = where
        /\ UNCHANGED <<version, sessions, cookie, cache, signIns, errors, known, missed, mixed>>
        /\ page' \in Page \cup {None} /\ current' \in Profile
    BY DEF Navigate, Select, IInv, VarType, history
  <1>2. /\ flight' \in [Query -> {None} \cup Fetching]
        /\ \A q \in Query : flight'[q] = flight[q] \/ flight'[q] = Sent
        /\ <<current', page'>> \in Query => flight'[<<current', page'>>] # None \/ ~Due(<<current', page'>>)
        /\ \A q \in Query : flight[q] # None => flight'[q] # None
    BY <1>1, Mounts DEF IInv
  <1>3. mutation # None => mutation \in Mutation
    BY DEF IInv, VarType
  <1>4. mutation' # None =>
          mutation' \in Mutation /\ mutation # None /\ mutation'.by = mutation.by /\ mutation'.answer = mutation.answer
    <2>1. CASE Navigate
      BY <1>3, <2>1 DEF Navigate
    <2>2. CASE Select
      <3>1. CASE mutation # None /\ mutation.kind = "apply"
        <4>1. mutation' = [mutation EXCEPT !.invalidates = current']
          BY <2>2, <3>1 DEF Select
        <4> QED BY <1>1, <1>3, <3>1, <4>1 DEF Mutation
      <3>2. CASE ~(mutation # None /\ mutation.kind = "apply")
        BY <1>3, <2>2, <3>2 DEF Select
      <3> QED BY <3>1, <3>2
    <2> QED BY <2>1, <2>2
  <1>5. VarType'
    BY <1>1, <1>2, <1>4 DEF IInv, VarType
  <1>6. RefusedInv'
    BY <1>1, <1>2, <1>4, SendingKeeps DEF IInv, RefusedInv
  <1>7. FreshInv'
    BY <1>1, <1>2, SendingKeeps
  <1>8. SignInInv'
    BY <1>1, <1>2, SendingKeeps DEF IInv, SignInInv, OfThis
  <1>9. RefetchInv'
    <2>1. \A q \in Query \ {Me} : Showing(q)' => q = <<current', page'>>
      BY DEF Showing
    <2>2. \A q \in Query : cache[q] # None /\ cache[q].invalid => Due(q)
      BY DEF Due
    <2> QED BY <1>1, <1>2, <2>1, <2>2, SendingKeeps DEF RefetchInv
  <1> QED BY <1>5, <1>6, <1>7, <1>8, <1>9 DEF IInv

(* The timer of a page fires                                                 *)
LEMMA PollStep == ASSUME IInv, Poll PROVE IInv'
  <1>1. <<current, page>> \in Query /\ flight' = Fetch(flight, <<current, page>>)
    BY DEF Poll, Watching
  <1>2. /\ flight' \in [Query -> {None} \cup Fetching]
        /\ \A q \in Query : flight'[q] = flight[q] \/ flight'[q] = Sent
        /\ \A q \in Query : flight[q] # None => flight'[q] # None
    BY <1>1, Fetches, SentType DEF IInv
  <1>3. UNCHANGED <<version, sessions, cookie, cache, signIns, errors, known, missed, mixed>>
    BY DEF Poll, history
  <1>4. VarType'
    BY <1>2 DEF Poll, IInv, VarType, history
  <1>5. RefusedInv' /\ FreshInv'
    BY <1>2, <1>3, SendingKeeps DEF Poll, IInv, RefusedInv
  <1>6. SignInInv'
    BY <1>2, <1>3, SendingKeeps DEF Poll, Watching, IInv, SignInInv, OfThis
  <1>7. RefetchInv'
    BY <1>2, <1>3, SendingKeeps DEF Poll, IInv, RefetchInv, Showing
  <1> QED BY <1>4, <1>5, <1>6, <1>7 DEF IInv

-----------------------------------------------------------------------------
(* What a fetch brings                                                       *)

(* The server answers, or the request fails                                  *)
LEMMA AnswerStep == ASSUME IInv, NEW q \in Query, Serve(q) \/ Fail(q) PROVE IInv'
  <1>1. flight[q] \in Fetching /\ flight[q] # None /\ flight[q].answer = ""
    BY DEF Serve, Fail, Unanswered, IInv, VarType
  <1>2. version \in Nat /\ known <= version /\ known \in Nat
    BY DEF IInv, VarType
  <1>3. /\ flight' \in [Query -> {None} \cup Fetching] /\ flight'[q] # None
        /\ \A p \in Query \ {q} : flight'[p] = flight[p]
        /\ flight'[q].by = flight[q].by /\ flight'[q].old = flight[q].old
        /\ flight'[q].answer = "401" => flight[q].by \notin sessions
        /\ flight'[q].answer = "200" => q = Me \/ flight'[q].data >= known
        /\ flight'[q].answer = "error" => errors' > 0
    <2>1. CASE Serve(q) /\ flight[q].by \in sessions
      <3> DEFINE d == IF q = Me THEN 0 ELSE version
      <3>1. flight' = [flight EXCEPT ![q] = [[flight[q] EXCEPT !.answer = "200"] EXCEPT !.data = d]]
        BY <2>1 DEF Serve, IInv, VarType
      <3>2. d \in Nat /\ (q = Me \/ d >= known)
        BY <1>2
      <3> HIDE DEF d
      <3>3. [[flight[q] EXCEPT !.answer = "200"] EXCEPT !.data = d] \in Fetching
        BY <1>1, <3>2 DEF Fetching
      <3> QED BY <1>1, <3>1, <3>2, <3>3, Records DEF IInv, VarType, Fetching
    <2>2. CASE Serve(q) /\ flight[q].by \notin sessions
      <3>1. flight' = [flight EXCEPT ![q] = [flight[q] EXCEPT !.answer = "401"]]
        BY <2>2 DEF Serve, IInv, VarType
      <3>2. [flight[q] EXCEPT !.answer = "401"] \in Fetching
        BY <1>1 DEF Fetching
      <3> QED BY <1>1, <2>2, <3>1, <3>2, Records DEF IInv, VarType, Fetching
    <2>3. CASE Fail(q)
      <3>1. flight' = [flight EXCEPT ![q] = [flight[q] EXCEPT !.answer = "error"]] /\ errors' = errors + 1
        BY <2>3 DEF Fail, IInv, VarType
      <3>2. [flight[q] EXCEPT !.answer = "error"] \in Fetching
        BY <1>1 DEF Fetching
      <3>3. errors' > 0
        BY <3>1 DEF IInv, VarType
      <3> QED BY <1>1, <3>1, <3>2, <3>3, Records DEF IInv, VarType, Fetching
    <2> QED BY <2>1, <2>2, <2>3
  <1>4. /\ UNCHANGED <<version, sessions, cookie, where, current, page, cache, mutation, signIns, known, missed, mixed>>
        /\ errors' \in Nat /\ (errors > 0 => errors' > 0)
    BY DEF Serve, Fail, IInv, VarType, history
  <1>5. VarType'
    BY <1>3, <1>4 DEF IInv, VarType
  <1>6. RefusedInv'
    BY <1>1, <1>3, <1>4 DEF IInv, RefusedInv
  <1>7. SignInInv'
    BY <1>1, <1>3, <1>4 DEF IInv, SignInInv, OfThis, Empty
  <1>8. FreshInv'
    BY <1>3, <1>4 DEF IInv, FreshInv
  <1>9. RefetchInv'
    BY <1>3, <1>4 DEF IInv, RefetchInv, Showing
  <1> QED BY <1>5, <1>6, <1>7, <1>8, <1>9 DEF IInv

(* The data arrives                                                          *)
LEMMA ArriveStep == ASSUME IInv, NEW q \in Query, Arrive(q) PROVE IInv'
  <1> DEFINE new == Entry(flight[q].data, flight[q].by, flight[q].old)
  <1>1. flight[q] \in Fetching /\ flight[q] # None /\ flight[q].answer = "200"
    BY DEF Arrive, Answer, IInv, VarType
  <1>2. /\ new \in Cached /\ new # None
        /\ new.by = flight[q].by /\ new.data = flight[q].data /\ new.old = flight[q].old /\ ~new.invalid
    BY <1>1, Records DEF Entry, Cached, Fetching
  <1>3. cache' = [cache EXCEPT ![q] = new] /\ flight' = [flight EXCEPT ![q] = None]
    BY DEF Arrive
  <1> HIDE DEF new
  <1>4. /\ cache' \in [Query -> {None} \cup Cached] /\ cache'[q] = new
        /\ flight' \in [Query -> {None} \cup Fetching] /\ flight'[q] = None
        /\ \A p \in Query \ {q} : cache'[p] = cache[p] /\ flight'[p] = flight[p]
    BY <1>2, <1>3 DEF IInv, VarType
  <1>5. /\ UNCHANGED <<version, sessions, cookie, current, page, mutation, signIns, errors, known, missed, mixed>>
        /\ where' = IF where = "entering" /\ q = Me THEN "app" ELSE where
    BY DEF Arrive, history
  <1>6. VarType'
    BY <1>4, <1>5 DEF IInv, VarType
  <1>7. RefusedInv'
    BY <1>4, <1>5 DEF IInv, RefusedInv
  <1>8. SignInInv'
    <2> SUFFICES ASSUME ~mixed' PROVE SignInInv'
      BY DEF SignInInv
    <2>1. /\ \A p \in Query : OfThis(cache, p) /\ OfThis(flight, p)
          /\ where = "app" => cache[Me] # None
          /\ where # "app" => cache = Empty /\ \A p \in Query \ {Me} : flight[p] = None
          /\ where = "login" => flight = Empty
      BY <1>5 DEF IInv, SignInInv
    <2>2. where # "login" /\ (where = "entering" => q = Me)
      BY <1>1, <2>1 DEF Empty, IInv, VarType
    <2>3. where' = "app" /\ cache'[Me] # None
      BY <1>2, <1>4, <1>5, <2>1, <2>2, Queries DEF IInv, VarType
    <2>4. \A p \in Query : OfThis(cache, p)' /\ OfThis(flight, p)'
      BY <1>1, <1>2, <1>4, <1>5, <2>1 DEF OfThis
    <2> QED BY <2>3, <2>4 DEF SignInInv
  <1>9. FreshInv'
    BY <1>1, <1>2, <1>4, <1>5 DEF IInv, FreshInv
  <1>10. RefetchInv'
    <2>1. \A p \in Query \ {Me} : Showing(p)' => Showing(p) \/ page = None
      BY <1>5 DEF Showing, IInv, VarType
    <2>2. \A p \in Query \ {Me} : Showing(p)' => Showing(p)
      BY <1>5, <2>1, Queries DEF Showing
    <2> QED BY <1>2, <1>4, <1>5, <2>2 DEF IInv, RefetchInv
  <1> QED BY <1>6, <1>7, <1>8, <1>9, <1>10 DEF IInv

(* An error arrives                                                          *)
LEMMA ArriveErrorStep == ASSUME IInv, NEW q \in Query, ArriveError(q) PROVE IInv'
  <1>1. flight[q] # None /\ (flight[q].answer = "error" \/ where = "login")
    BY DEF ArriveError, Answer
  <1>2. /\ UNCHANGED <<version, sessions, cookie, current, page, mutation, signIns, errors, known, missed, mixed>>
        /\ where' = IF where = "entering" /\ q = Me THEN "login" ELSE where
        /\ flight' = [flight EXCEPT ![q] = None]
    BY DEF ArriveError, history
  <1>3. /\ flight' \in [Query -> {None} \cup Fetching] /\ flight'[q] = None
        /\ \A p \in Query \ {q} : flight'[p] = flight[p]
    BY <1>2 DEF IInv, VarType
  <1>4. /\ cache' \in [Query -> {None} \cup Cached]
        /\ \A p \in Query : cache'[p] # None => cache[p] # None /\ cache'[p].by = cache[p].by
        /\ \A p \in Query \ {q} : cache'[p] = cache[p]
        /\ cache[q] # None => cache'[q] # None /\ cache'[q].invalid
    <2>1. CASE cache[q] = None
      BY <2>1 DEF ArriveError, IInv, VarType
    <2>2. CASE cache[q] # None
      <3>1. cache' = [cache EXCEPT ![q] = [cache[q] EXCEPT !.invalid = TRUE]]
        BY <2>2 DEF ArriveError, IInv, VarType
      <3>2. cache[q] \in Cached
        BY <2>2 DEF IInv, VarType
      <3>3. /\ [cache[q] EXCEPT !.invalid = TRUE] \in Cached
            /\ [cache[q] EXCEPT !.invalid = TRUE].by = cache[q].by
            /\ [cache[q] EXCEPT !.invalid = TRUE].invalid
        BY <3>2 DEF Cached
      <3> QED BY <2>2, <3>1, <3>3, Records DEF IInv, VarType
    <2> QED BY <2>1, <2>2
  <1>5. VarType'
    BY <1>2, <1>3, <1>4 DEF IInv, VarType
  <1>6. RefusedInv'
    BY <1>2, <1>3 DEF IInv, RefusedInv
  <1>7. SignInInv'
    <2> SUFFICES ASSUME ~mixed' PROVE SignInInv'
      BY DEF SignInInv
    <2>1. /\ \A p \in Query : OfThis(cache, p) /\ OfThis(flight, p)
          /\ where = "app" => cache[Me] # None
          /\ where # "app" => cache = Empty /\ \A p \in Query \ {Me} : flight[p] = None
          /\ where = "login" => flight = Empty
      BY <1>2 DEF IInv, SignInInv
    <2>2. where # "login" /\ (where = "entering" => q = Me)
      BY <1>1, <2>1 DEF Empty, IInv, VarType
    <2>3. \A p \in Query : OfThis(cache, p)' /\ OfThis(flight, p)'
      BY <1>2, <1>3, <1>4, <2>1 DEF OfThis
    <2>4. CASE where = "app"
      <3>1. where' = "app" /\ cache'[Me] # None
        BY <1>2, <1>4, <2>1, <2>4, Queries
      <3> QED BY <2>3, <3>1 DEF SignInInv
    <2>5. CASE where = "entering"
      <3>1. q = Me /\ where' = "login" /\ cache = Empty
        BY <1>2, <2>1, <2>2, <2>5
      <3>2. cache' = Empty
        BY <1>4, <3>1 DEF Empty
      <3>3. flight' = Empty
        BY <1>3, <2>1, <2>5, <3>1 DEF Empty
      <3> QED BY <2>3, <3>1, <3>2, <3>3 DEF SignInInv, Empty
    <2> QED BY <2>2, <2>4, <2>5 DEF IInv, VarType
  <1>8. FreshInv'
    BY <1>2, <1>3, <1>4 DEF IInv, FreshInv
  <1>9. RefetchInv'
    <2>1. \A p \in Query \ {Me} : Showing(p)' => Showing(p)
      BY <1>2 DEF Showing, IInv, VarType
    <2>2. Showing(q)' /\ q # Me => errors > 0
      BY <1>1, <2>1 DEF Showing, IInv, RefetchInv
    <2> QED BY <1>2, <1>3, <1>4, <2>1, <2>2 DEF IInv, RefetchInv
  <1> QED BY <1>5, <1>6, <1>7, <1>8, <1>9 DEF IInv

-----------------------------------------------------------------------------
(* Requests that change something                                            *)

(* A request goes out, or is served; others change the instance              *)
LEMMA ChangeStep ==
  ASSUME IInv, (\E k \in {"apply", "edit", "logout"} : Start(k)) \/ ServeMutation \/ Others
  PROVE  IInv'
  <1>1. /\ UNCHANGED <<cookie, where, current, page, cache, flight, signIns, known, missed, mixed>>
        /\ sessions' \subseteq sessions
    BY DEF Start, ServeMutation, Others, tab, history
  <1>2. version' \in Nat /\ version' >= version /\ errors' \in Nat /\ errors' >= errors
    <2>1. version \in Nat /\ errors \in Nat
      BY DEF IInv, VarType
    <2>2. version' \in {version, version + 1}
      BY DEF Start, ServeMutation, Others
    <2>3. errors' \in {errors, errors + 0, errors + 1}
      BY DEF Start, ServeMutation, Others
    <2> QED BY <2>1, <2>2, <2>3
  <1>3. mutation' # None =>
          /\ mutation' \in Mutation /\ mutation'.by <= signIns
          /\ mutation'.answer = "401" => mutation'.by \notin sessions'
    <2>1. ASSUME NEW k \in {"apply", "edit", "logout"}, Start(k)
          PROVE  mutation' \in Mutation /\ mutation'.by <= signIns /\ mutation'.answer = ""
      BY <2>1 DEF Start, Mutation, IInv, VarType
    <2>2. CASE ServeMutation
      <3>1. mutation \in Mutation /\ mutation # None /\ mutation.by <= signIns
        BY <2>2 DEF ServeMutation, IInv, VarType, RefusedInv
      <3>2. \E a \in {"ok", "401", "error"} :
              mutation' = [mutation EXCEPT !.answer = a] /\ (a = "401" => mutation.by \notin sessions')
        BY <2>2 DEF ServeMutation
      <3> QED BY <3>1, <3>2 DEF Mutation
    <2>3. CASE Others
      BY <2>3 DEF Others, IInv, VarType, RefusedInv, tab
    <2> QED BY <2>1, <2>2, <2>3
  <1>4. VarType'
    BY <1>1, <1>2, <1>3 DEF IInv, VarType
  <1>5. RefusedInv' /\ SignInInv'
    BY <1>1, <1>3 DEF IInv, RefusedInv, SignInInv, OfThis
  <1>6. FreshInv' /\ RefetchInv'
    BY <1>1, <1>2 DEF IInv, VarType, FreshInv, RefetchInv, Showing
  <1> QED BY <1>4, <1>5, <1>6 DEF IInv

(* The answer to a change arrives: what it may have changed is fetched anew  *)
LEMMA SettleStep == ASSUME IInv, Settle PROVE IInv'
  <1> DEFINE i == mutation.invalidates
  <1>1. /\ UNCHANGED <<version, sessions, cookie, where, current, page, signIns, errors, mixed>>
        /\ mutation' = None /\ missed' = (missed \/ i # Watched)
        /\ known' \in {known, version}
    BY DEF Settle
  <1>2. CASE ~Invalidates
    <2>1. UNCHANGED <<cache, flight, known>>
      BY <1>2 DEF Settle, Invalidates
    <2>2. missed' \in BOOLEAN /\ (missed => missed')
      BY <1>1
    <2>3. VarType' /\ RefusedInv' /\ SignInInv'
      BY <1>1, <2>1, <2>2 DEF IInv, VarType, RefusedInv, SignInInv, OfThis
    <2>4. FreshInv' /\ RefetchInv'
      BY <1>1, <2>1, <2>2 DEF IInv, FreshInv, RefetchInv, Showing
    <2> QED BY <2>3, <2>4 DEF IInv
  <1>3. CASE Invalidates
    <2>1. cache' = Marked(i) /\ flight' = Restarted(i)
      BY <1>3 DEF Settle
    <2>2. /\ cache' \in [Query -> {None} \cup Cached]
          /\ \A q \in Query : cache[q] = None => cache'[q] = None
          /\ \A q \in Query : cache[q] # None =>
                cache'[q] # None /\ cache'[q].by = cache[q].by /\ cache'[q].data = cache[q].data
                /\ cache'[q].old = cache[q].old /\ (cache[q].invalid \/ q[1] = i => cache'[q].invalid)
          /\ \A q \in Query : q[1] # i => cache'[q] = cache[q]
      <3>1. \A c \in Cached :
              /\ [c EXCEPT !.invalid = TRUE] \in Cached /\ [c EXCEPT !.invalid = TRUE].invalid
              /\ [c EXCEPT !.invalid = TRUE].by = c.by /\ [c EXCEPT !.invalid = TRUE].data = c.data
              /\ [c EXCEPT !.invalid = TRUE].old = c.old
        BY DEF Cached
      <3>2. \A q \in Query : cache[q] # None => cache[q] \in Cached
        BY DEF IInv, VarType
      <3> QED BY <2>1, <3>1, <3>2, Records DEF Marked, IInv, VarType
    <2>3. /\ flight' \in [Query -> {None} \cup Fetching]
          /\ \A q \in Query : q[1] # i => flight'[q] = flight[q]
          /\ \A q \in Query : q[1] = i =>
               \/ flight'[q] = Sent
               \/ flight'[q] = None /\ flight[q] = None
               \/ /\ flight[q] # None /\ flight'[q] # None /\ flight'[q].old
                  /\ flight'[q].by = flight[q].by /\ flight'[q].answer = flight[q].answer
          /\ \A q \in Query : q[1] = i /\ Showing(q) /\ cache[q] # None => flight'[q] = Sent
      <3>1. \A f \in Fetching :
              /\ [f EXCEPT !.old = TRUE] \in Fetching /\ [f EXCEPT !.old = TRUE].old
              /\ [f EXCEPT !.old = TRUE].by = f.by /\ [f EXCEPT !.old = TRUE].answer = f.answer
        BY DEF Fetching
      <3>2. \A q \in Query : flight[q] # None => flight[q] \in Fetching
        BY DEF IInv, VarType
      <3>3. Sent \in Fetching
        BY SentType DEF IInv
      <3> QED BY <2>1, <3>1, <3>2, <3>3, Records DEF Restarted, IInv, VarType
    <2>4. Sent.by = cookie /\ Sent.answer = "" /\ Sent # None /\ cookie <= signIns
      BY SentType DEF IInv
    <2>5. VarType'
      BY <1>1, <2>2, <2>3 DEF IInv, VarType
    <2>6. RefusedInv'
      BY <1>1, <2>3, <2>4 DEF IInv, RefusedInv
    <2>7. SignInInv'
      <3> SUFFICES ASSUME ~mixed PROVE SignInInv'
        BY <1>1 DEF SignInInv
      <3>1. /\ \A q \in Query : OfThis(cache, q) /\ OfThis(flight, q)
            /\ where = "app" => cache[Me] # None
            /\ where # "app" => cache = Empty /\ \A q \in Query \ {Me} : flight[q] = None
            /\ where = "login" => flight = Empty
        BY DEF IInv, SignInInv
      <3>2. \A q \in Query : OfThis(cache, q)' /\ OfThis(flight, q)'
        BY <1>1, <2>2, <2>3, <2>4, <3>1 DEF OfThis
      <3>3. where = "app" => cache'[Me] # None
        BY <2>2, <3>1, Queries
      <3>4. ASSUME where # "app"
            PROVE  cache' = Empty /\ (\A q \in Query \ {Me} : flight'[q] = None) /\ (where = "login" => flight' = Empty)
        <4>1. cache' = Empty
          BY <2>2, <3>1, <3>4 DEF Empty
        <4>2. \A q \in Query : flight[q] = None => flight'[q] = None
          BY <2>1, <3>4 DEF Restarted, Showing
        <4> QED BY <2>3, <3>1, <3>4, <4>1, <4>2 DEF Empty
      <3> QED BY <1>1, <3>2, <3>3, <3>4 DEF SignInInv
    <2>8. FreshInv'
      <3> SUFFICES ASSUME ~missed', NEW q \in Query \ {Me}
                   PROVE  /\ flight'[q] # None /\ flight'[q].answer = "200" => flight'[q].data >= known' \/ flight'[q].old
                          /\ cache'[q] # None /\ ~cache'[q].invalid => cache'[q].data >= known' \/ cache'[q].old
        BY DEF FreshInv
      <3>1. q[1] = i
        BY <1>1, Queries
      <3> QED BY <3>1, <2>2, <2>3, <2>4
    <2>9. RefetchInv'
      <3>1. \A q \in Query : Showing(q)' = Showing(q)
        BY <1>1 DEF Showing
      <3>2. \A q \in Query : flight'[q] # None /\ flight'[q].answer = "error" => errors' > 0
        BY <1>1, <2>3, <2>4 DEF IInv, RefetchInv
      <3>3. ASSUME NEW q \in Query \ {Me}, Showing(q), cache'[q] # None, cache'[q].invalid
            PROVE  flight'[q] # None \/ errors' > 0
        <4>1. CASE q[1] = i
          BY <2>2, <2>3, <2>4, <3>3, <4>1
        <4>2. CASE q[1] # i
          BY <1>1, <2>2, <2>3, <3>3, <4>2 DEF IInv, RefetchInv
        <4> QED BY <4>1, <4>2
      <3> QED BY <3>1, <3>2, <3>3 DEF RefetchInv
    <2> QED BY <2>5, <2>6, <2>7, <2>8, <2>9 DEF IInv
  <1> QED BY <1>2, <1>3

-----------------------------------------------------------------------------
(* A tab starts with nothing                                                 *)
LEMMA InitInv == Init => IInv
  <1> SUFFICES ASSUME Init PROVE IInv
    OBVIOUS
  <1>1. VarType
    <2>1. Empty \in [Query -> {None} \cup Cached] /\ Empty \in [Query -> {None} \cup Fetching]
      BY DEF Empty
    <2>2. version = 0 /\ signIns = 0 /\ errors = 0 /\ cookie = 0 /\ known = 0
      BY DEF Init
    <2>3. sessions = {} /\ mutation = None /\ ~missed /\ ~mixed /\ where = "login" /\ page = None /\ current \in Profile
      BY DEF Init
    <2>4. cache = Empty /\ flight = Empty
      BY DEF Init
    <2>5. missed \in BOOLEAN /\ mixed \in BOOLEAN
      BY Zenon DEF Init
    <2>6. sessions \subseteq Nat /\ \A s \in sessions : s <= signIns
      BY <2>3
    <2> QED BY <2>1, <2>2, <2>3, <2>4, <2>5, <2>6 DEF VarType
  <1>2. RefusedInv /\ SignInInv /\ FreshInv /\ RefetchInv
    BY DEF Init, RefusedInv, SignInInv, FreshInv, RefetchInv, OfThis, Empty
  <1> QED BY <1>1, <1>2 DEF IInv

(* Every step keeps the invariant                                            *)
LEMMA NextInv == IInv /\ [Next]_vars => IInv'
  <1> SUFFICES ASSUME IInv, [Next]_vars PROVE IInv'
    OBVIOUS
  <1>1. CASE UNCHANGED vars
    BY <1>1 DEF vars, tab, history, IInv, VarType, RefusedInv, SignInInv, OfThis, FreshInv, RefetchInv, Showing
  <1>2. ASSUME NEW q \in Query, ThrownOut(q) PROVE IInv'
    BY <1>2, Left DEF ThrownOut, LeaveApp
  <1>3. CASE SignedOut
    <2>1. cookie' = 0
      BY <1>3 DEF SignedOut
    <2> QED BY <1>3, <2>1, Left DEF SignedOut
  <1>4. CASE MutationThrownOut
    BY <1>4, Left DEF MutationThrownOut
  <1>5. CASE Next
    BY <1>2, <1>3, <1>4, <1>5, SignInStep, EnterStep, OutsideStep, ReloadStep, GoStep, PollStep, AnswerStep,
       ArriveStep, ArriveErrorStep, ChangeStep, SettleStep DEF Next
  <1> QED BY <1>1, <1>5

(* The invariant holds throughout                                            *)
LEMMA Invariance == Spec => []IInv
  BY InitInv, NextInv, PTL DEF Spec

-----------------------------------------------------------------------------
(* A page that is done loading shows every change made from its tab          *)
(* (changes.ts:204), but for the exceptions the property names.              *)
THEOREM ChangesAreShown == Spec => []OwnChangesShown
  <1>1. IInv => OwnChangesShown
    BY DEF IInv, FreshInv, RefetchInv, OwnChangesShown
  <1> QED BY <1>1, Invariance, PTL

(* With one tab, all that is cached was answered in one sign-in              *)
(* (router.tsx:31).                                                          *)
THEOREM CacheOfOneSignIn == Spec => []OneSignInCached
  <1>1. IInv => OneSignInCached
    BY Queries DEF IInv, SignInInv, OfThis, OneSignInCached
  <1> QED BY <1>1, Invariance, PTL

(* Only the end of its session, or a change sent in an earlier one, sends a  *)
(* tab to the login page.                                                    *)
THEOREM ThrownOutRightly == Spec => ThrownOutWhenOver
  <1> DEFINE A == where = "app" /\ where' = "login" /\ cache' = Empty /\ cookie \in sessions /\ ~mixed
                    => mutation # None /\ (mutation.kind = "logout" \/ mutation.by # cookie)
  <1>1. IInv /\ [Next]_vars => [A]_vars
    <2> SUFFICES ASSUME IInv, Next, where = "app", where' = "login", cache' = Empty, cookie \in sessions, ~mixed
                 PROVE  mutation # None /\ (mutation.kind = "logout" \/ mutation.by # cookie)
      OBVIOUS
    <2>1. \A q \in Query : flight[q] # None => flight[q].by = cookie
      BY DEF IInv, SignInInv, OfThis
    <2>2. ASSUME NEW q \in Query, ThrownOut(q) PROVE FALSE
      BY <2>1, <2>2 DEF ThrownOut, Answer, IInv, RefusedInv
    <2>3. cache[Me] # None /\ Me \in Query
      BY Queries DEF IInv, SignInInv
    <2>4. CASE Back
      BY <2>3, <2>4 DEF Back, Empty
    <2>5. CASE SignedOut
      BY <2>5 DEF SignedOut
    <2>6. CASE MutationThrownOut
      BY <2>6 DEF MutationThrownOut, IInv, RefusedInv
    <2> QED BY <2>2, <2>4, <2>5, <2>6 DEF Next, SignIn, Enter, Reload, OtherTab, Expire, Navigate, Select, Poll,
              Serve, Fail, Arrive, ArriveError, Start, ServeMutation, Settle, Others, tab
  <1> QED BY <1>1, Invariance, PTL DEF Spec, ThrownOutWhenOver
====
