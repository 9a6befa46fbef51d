------------------------------ MODULE Console -------------------------------
(***************************************************************************)
(* One tab of the browser application around its pages: who is signed in   *)
(* (Login.tsx, auth.ts, Layout.tsx), which page of which instance is shown *)
(* (router.tsx, InstanceProvider.tsx), the cache of what was fetched       *)
(* (catalog.ts) and the requests that change something (useApply).         *)
(*                                                                         *)
(* The cache is that of React Query, as the application uses it: one fetch *)
(* per query at a time, which goes on when its page is left; data that is  *)
(* marked invalid is fetched when a page that shows it is or gets mounted. *)
(***************************************************************************)
EXTENDS FiniteSets, Naturals

CONSTANTS
    Profile, Page,
    Watched,      \* the instance whose data is followed
    Polled,       \* pages that refetch by themselves (refetchInterval)
    MaxSignIns,   \* bound: sessions
    MaxVersion,   \* bound: changes of an instance
    MaxErrors,    \* bound: requests that fail
    None

ASSUME ConsoleConstants ==
    /\ Polled \subseteq Page /\ Watched \in Profile
    /\ {MaxSignIns, MaxVersion, MaxErrors} \subseteq Nat
    /\ None \notin Page
    /\ None \notin [by : Nat, answer : {"", "200", "401", "error"}, data : Nat, old : BOOLEAN]
    /\ None \notin [data : Nat, by : Nat, invalid : BOOLEAN, old : BOOLEAN]

VARIABLES
    version,    \* of the data of the watched instance
    sessions,   \* live sessions, numbered in the order of the sign-ins
    cookie,     \* the session the browser sends, shared by its tabs
    where,      \* "login", "entering" (beforeLoad of the application) or "app"
    current,    \* the selected instance
    page,
    cache,      \* what is cached for each query
    flight,     \* its fetch under way
    mutation,   \* the request under way that changes something
    signIns, errors,
    known,      \* history: the version when a change of this tab was answered
    missed,     \* history: another instance got selected during an apply
    mixed       \* history: another tab signed in, or the login page was
                \* reached without a sign-out

tab == <<where, current, page, cache, flight, mutation>>
history == <<known, missed, mixed>>
vars == <<version, sessions, cookie, tab, signIns, errors, history>>

Me == <<None, "me">>
Query == ({Watched} \X Page) \cup {Me}
Session == 0 .. MaxSignIns    \* 0: no cookie

(* `by` is the session a request is sent in; `old` (history) marks a fetch *)
(* during which the answer to a change arrived                             *)
Sent == [by |-> cookie, answer |-> "", data |-> 0, old |-> FALSE]
Fetch(f, q) == IF f[q] = None THEN [f EXCEPT ![q] = Sent] ELSE f
Entry(data, by, old) == [data |-> data, by |-> by, invalid |-> FALSE, old |-> old]

Showing(q) == where = "app" /\ q \in {Me, <<current, page>>}
Due(q) == cache[q] = None \/ cache[q].invalid

Empty == [q \in Query |-> None]

Init ==
    /\ version = 0
    /\ sessions = {}
    /\ cookie = 0
    /\ where = "login"
    /\ current \in Profile
    /\ page = None
    /\ cache = Empty
    /\ flight = Empty
    /\ mutation = None
    /\ signIns = 0
    /\ errors = 0
    /\ known = version
    /\ missed = FALSE
    /\ mixed = FALSE

-----------------------------------------------------------------------------
(* Signing in and out                                                      *)

(* useLogin puts the user into the cache, and clears nothing               *)
SignIn ==
    /\ where = "login"
    /\ signIns < MaxSignIns
    /\ signIns' = signIns + 1
    /\ cookie' = signIns + 1
    /\ sessions' = sessions \cup {signIns + 1}
    /\ cache' = [cache EXCEPT ![Me] = Entry(0, signIns + 1, FALSE)]
    /\ where' = "app"
    /\ UNCHANGED <<version, current, page, flight, mutation, errors, history>>

(* The application is opened from the login page: ensureQueryData(meQuery) *)
Enter ==
    /\ where = "login"
    /\ IF cache[Me] # None THEN where' = "app" /\ UNCHANGED flight
       ELSE where' = "entering" /\ flight' = Fetch(flight, Me)
    /\ UNCHANGED <<version, sessions, cookie, current, page, cache, mutation, signIns, errors, history>>

(* The way back in the browser's history                                   *)
Back ==
    /\ where = "app"
    /\ where' = "login"
    /\ page' = None
    /\ mixed' = TRUE
    /\ UNCHANGED <<version, sessions, cookie, current, cache, flight, mutation, signIns, errors, known, missed>>

(* A reload; single sign-on, too, comes back with one                      *)
Reload ==
    /\ where # "login"
    /\ where' = "entering"
    /\ page' = None
    /\ cache' = Empty
    /\ flight' = [Empty EXCEPT ![Me] = Sent]
    /\ mutation' = None
    /\ UNCHANGED <<version, sessions, cookie, current, signIns, errors, history>>

(* Another tab signs in; that one signs out looks like an Expire           *)
OtherTab ==
    /\ signIns < MaxSignIns
    /\ signIns' = signIns + 1
    /\ cookie' = signIns + 1
    /\ sessions' = sessions \cup {signIns + 1}
    /\ mixed' = TRUE
    /\ UNCHANGED <<version, tab, errors, known, missed>>

(* A session expires or is ended by an admin                               *)
Expire ==
    /\ \E s \in sessions : sessions' = sessions \ {s}
    /\ UNCHANGED <<version, cookie, tab, signIns, errors, history>>

-----------------------------------------------------------------------------
(* Pages.  On mount what is due is fetched, and what is not if its         *)
(* staleTime has passed.                                                   *)
Mount(i, p) ==
    LET q == <<i, p>>
    IN  \/ q \in Query /\ flight' = Fetch(flight, q)
        \/ (q \in Query => ~Due(q)) /\ UNCHANGED flight

Navigate ==
    /\ where = "app" /\ cache[Me] # None
    /\ \E p \in (Page \cup {None}) \ {page} : page' = p /\ Mount(current, p)
    /\ UNCHANGED <<version, sessions, cookie, where, current, cache, mutation, signIns, errors, history>>

(* Picked, or the first of the list once the selected one is deleted.  The *)
(* mutation under way takes the options of the new render.                 *)
Select ==
    /\ where = "app"
    /\ \E i \in Profile \ {current} : current' = i /\ Mount(i, page)
    /\ mutation' = IF mutation # None /\ mutation.kind = "apply"
                   THEN [mutation EXCEPT !.invalidates = current'] ELSE mutation
    /\ UNCHANGED <<version, sessions, cookie, where, page, cache, signIns, errors, history>>

Watching == where = "app" /\ page \in Polled /\ <<current, page>> \in Query

(* refetchInterval, and the Refresh button                                 *)
Poll ==
    /\ Watching
    /\ flight[<<current, page>>] = None
    /\ flight' = Fetch(flight, <<current, page>>)
    /\ UNCHANGED <<version, sessions, cookie, where, current, page, cache, mutation, signIns, errors, history>>

-----------------------------------------------------------------------------
(* What a fetch brings                                                     *)
Unanswered(q) == flight[q] # None /\ flight[q].answer = ""
Answer(q) == IF flight[q] = None THEN "" ELSE flight[q].answer

Serve(q) ==
    /\ Unanswered(q)
    /\ flight' = IF flight[q].by \in sessions
                  THEN [flight EXCEPT ![q].answer = "200", ![q].data = IF q = Me THEN 0 ELSE version]
                  ELSE [flight EXCEPT ![q].answer = "401"]
    /\ UNCHANGED <<version, sessions, cookie, where, current, page, cache, mutation, signIns, errors, history>>

Fail(q) ==
    /\ Unanswered(q)
    /\ errors < MaxErrors
    /\ errors' = errors + 1
    /\ flight' = [flight EXCEPT ![q].answer = "error"]
    /\ UNCHANGED <<version, sessions, cookie, where, current, page, cache, mutation, signIns, history>>

Arrive(q) ==
    /\ Answer(q) = "200"
    /\ cache' = [cache EXCEPT ![q] = Entry(flight[q].data, flight[q].by, flight[q].old)]
    /\ flight' = [flight EXCEPT ![q] = None]
    /\ where' = IF where = "entering" /\ q = Me THEN "app" ELSE where
    /\ UNCHANGED <<version, sessions, cookie, current, page, mutation, signIns, errors, history>>

(* An error is shown in place of the data, which counts as invalid;        *)
(* beforeLoad redirects                                                    *)
ArriveError(q) ==
    /\ Answer(q) = "error" \/ (Answer(q) = "401" /\ where = "login")
    /\ cache' = IF cache[q] = None THEN cache ELSE [cache EXCEPT ![q].invalid = TRUE]
    /\ flight' = [flight EXCEPT ![q] = None]
    /\ where' = IF where = "entering" /\ q = Me THEN "login" ELSE where
    /\ UNCHANGED <<version, sessions, cookie, current, page, mutation, signIns, errors, history>>

(* Mutants: onApiError goes to the login page and keeps the cache, or the  *)
(* fetches under way                                                       *)
LeaveApp_KeepsCache ==
    /\ where' = "login"
    /\ page' = None
    /\ UNCHANGED <<cache, flight>>

LeaveApp_KeepsFetches ==
    /\ where' = "login"
    /\ page' = None
    /\ cache' = Empty
    /\ UNCHANGED flight

(* onApiError: queryClient.clear() also drops the fetches under way        *)
LeaveApp ==
    /\ where' = "login"
    /\ page' = None
    /\ cache' = Empty
    /\ flight' = Empty

(* Mutant: only the mutations have an onError                              *)
ThrownOut_AsError(q) ==
    /\ Answer(q) = "401" /\ where # "login"
    /\ flight' = [flight EXCEPT ![q] = None]
    /\ where' = IF where = "entering" THEN "login" ELSE where
    /\ UNCHANGED <<version, sessions, cookie, current, page, cache, mutation, signIns, errors, history>>

ThrownOut(q) ==
    /\ Answer(q) = "401" /\ where # "login"
    /\ LeaveApp
    /\ UNCHANGED <<version, sessions, cookie, current, mutation, signIns, errors, history>>

-----------------------------------------------------------------------------
(* Requests that change something: an apply, a saved instance, a sign-out  *)
Start(kind) ==
    /\ where = "app"
    /\ current = Watched
    /\ mutation = None
    /\ mutation' = [kind |-> kind, by |-> cookie, invalidates |-> current,
                    answer |-> ""]
    /\ UNCHANGED <<version, sessions, cookie, where, current, page, cache, flight, signIns, errors, history>>

(* The answer to a change that was made may be lost                        *)
ServeMutation ==
    /\ mutation # None /\ mutation.answer = ""
    /\ IF mutation.kind = "logout"
       THEN /\ sessions' = sessions \ {mutation.by}
            /\ mutation' = [mutation EXCEPT !.answer = "ok"]
            /\ UNCHANGED <<version, errors>>
       ELSE IF mutation.by \notin sessions
       THEN /\ mutation' = [mutation EXCEPT !.answer = "401"]
            /\ UNCHANGED <<sessions, version, errors>>
       ELSE /\ version < MaxVersion
            /\ version' = version + 1
            /\ \E a \in {"ok", "error"} :
                /\ a = "error" => errors < MaxErrors
                /\ errors' = errors + (IF a = "error" THEN 1 ELSE 0)
                /\ mutation' = [mutation EXCEPT !.answer = a]
            /\ UNCHANGED sessions
    /\ UNCHANGED <<cookie, where, current, page, cache, flight, signIns, history>>

(* invalidateQueries(['profile', i]): all its data is marked; what is      *)
(* shown is fetched again, and a fetch under way for it is cancelled if    *)
(* there is data to show meanwhile.                                        *)
Marked(i) ==
    [q \in Query |-> IF q[1] = i /\ cache[q] # None THEN [cache[q] EXCEPT !.invalid = TRUE] ELSE cache[q]]

Restarted(i) ==
    [q \in Query |->
        IF q[1] # i THEN flight[q]
        ELSE IF Showing(q) /\ (cache[q] # None \/ flight[q] = None) THEN Sent
        ELSE IF flight[q] # None THEN [flight[q] EXCEPT !.old = TRUE] ELSE None]

(* Mutant: onSuccess in place of onSettled                                 *)
Invalidates_OnSuccess == mutation.answer = "ok"

(* onSettled invalidates after errors, too; a saved instance's form only   *)
(* after a success                                                         *)
Invalidates == mutation.kind = "apply" \/ mutation.answer = "ok"

Settle ==
    /\ mutation # None /\ mutation.kind # "logout"
    /\ mutation.answer \in {"ok", "error"} \/ (mutation.answer = "401" /\ where = "login")
    /\ LET i == mutation.invalidates
       IN  /\ cache' = IF Invalidates THEN Marked(i) ELSE cache
           /\ flight' = IF Invalidates THEN Restarted(i) ELSE flight
           /\ known' = IF mutation.kind = "apply" \/ mutation.answer = "ok" THEN version ELSE known
           /\ missed' = (missed \/ i # Watched)
    /\ mutation' = None
    /\ UNCHANGED <<version, sessions, cookie, where, current, page, signIns, errors, mixed>>

SignedOut ==
    /\ mutation # None /\ mutation.kind = "logout" /\ mutation.answer = "ok"
    /\ cookie' = 0
    /\ LeaveApp
    /\ mutation' = None
    /\ UNCHANGED <<version, sessions, current, signIns, errors, history>>

MutationThrownOut ==
    /\ mutation # None /\ mutation.answer = "401" /\ where # "login"
    /\ LeaveApp
    /\ mutation' = None
    /\ UNCHANGED <<version, sessions, cookie, current, signIns, errors, history>>

(* Somebody else changes an instance                                       *)
Others ==
    /\ version < MaxVersion
    /\ version' = version + 1
    /\ UNCHANGED <<sessions, cookie, tab, signIns, errors, history>>

-----------------------------------------------------------------------------
Next ==
    \/ SignIn \/ Enter \/ Back \/ Reload \/ OtherTab \/ Expire
    \/ Navigate \/ Select \/ Poll
    \/ \E q \in Query : Serve(q) \/ Fail(q) \/ Arrive(q) \/ ArriveError(q) \/ ThrownOut(q)
    \/ \E k \in {"apply", "edit", "logout"} : Start(k)
    \/ ServeMutation \/ Settle \/ SignedOut \/ MutationThrownOut
    \/ Others

Spec == Init /\ [][Next]_vars

(* The timer of a polling page fires, the server answers, answers arrive   *)
FairSpec ==
    /\ Spec
    /\ WF_vars(Poll)
    /\ \A q \in Query : WF_vars(Serve(q)) /\ WF_vars(Arrive(q) \/ ArriveError(q) \/ ThrownOut(q))

-----------------------------------------------------------------------------
(* A page that is done loading shows every change made from this tab to    *)
(* its instance, on whichever page it was made and however far the page    *)
(* was left before, unless its data was being fetched when the change was  *)
(* answered, or another instance was selected in the meantime              *)
(* (changes.ts:204, Connections.tsx:126).                                  *)
OwnChangesShown ==
    \A q \in Query \ {Me} :
        Showing(q) /\ flight[q] = None /\ cache[q] # None =>
            \/ ~cache[q].invalid /\ (cache[q].data >= known \/ cache[q].old \/ missed)
            \/ cache[q].invalid /\ errors > 0

(* What is cached was answered in the present sign-in: no answer to an     *)
(* earlier one arrives after it, and none of its data is left (router.tsx  *)
(* :31), as long as one tab is used and the login page is not reached      *)
(* through the browser's history.                                          *)
OneSignInCached ==
    where = "app" /\ ~mixed => \A q \in Query : cache[q] # None => cache[q].by = cache[Me].by

(* Nobody is sent to the login page while signed in, but by a change that  *)
(* was sent in an earlier sign-in and refused after this one began.        *)
ThrownOutWhenOver ==
    [][where = "app" /\ where' = "login" /\ cache' = Empty /\ cookie \in sessions /\ ~mixed
        => mutation # None /\ (mutation.kind = "logout" \/ mutation.by # cookie)]_vars

(* On a page that polls, the end of the session is noticed without a click *)
(* ("the session expired or was revoked: ... go to the login page",        *)
(* router.tsx:31).                                                         *)
RevokedIsNoticed == (Watching /\ cookie \notin sessions) ~> (~Watching \/ cookie \in sessions)

=============================================================================
