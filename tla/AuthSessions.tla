---------------------------- MODULE AuthSessions ----------------------------
(***************************************************************************)
(* The web-session store of uit-api (auth/auth.go) under the HTTP requests *)
(* that use it (CookieAuthMiddleware, WebAuthEndpoint) and the periodic    *)
(* cleaner.  Every critical section of AuthSessions.Mu is one step; what a *)
(* goroutine read under the lock lives on in its local state and may be    *)
(* stale when it is used.  A clock reading, which touches nothing shared,  *)
(* is joined to the neighbouring step it commutes with.                    *)
(***************************************************************************)
EXTENDS Naturals, FiniteSets

CONSTANTS Requests,     \* goroutines serving HTTP requests
          Cleaner,      \* the auth map cleanup goroutine
          SessionIds,   \* values rand.Text() may return
          IPs,          \* client addresses
          LanIPs,       \* the addresses GetAllowedLANIPs() covers
          None,         \* absent cookie, absent address
          TTL,          \* AuthSessionTTL = BasicTTL = BearerTTL
          MaxSessions,  \* 1000 in the code
          MaxTime       \* bound of the model's clock

ASSUME ProcAssumption == Cleaner \notin Requests /\ IsFiniteSet(Requests)
ASSUME IdAssumption   == None \notin SessionIds /\ None \notin IPs
ASSUME LanAssumption  == LanIPs \subseteq IPs
ASSUME NatAssumption  == /\ TTL \in Nat \ {0}
                         /\ MaxSessions \in Nat \ {0}
                         /\ MaxTime \in Nat

VARIABLES sessions,  \* AuthSessions.M, a partial function of session ids
          issued,    \* ids ever inserted: rand.Text() does not repeat
          clock,     \* time.Now()
          pc,        \* where each goroutine is
          req        \* each goroutine's locals

vars == <<sessions, issued, clock, pc, req>>

Procs == Requests \cup {Cleaner}
Paths == {"login", "logout", "check_auth", "other"}

\* The two token expiries are separate fields: ExtendSessionTTL reads the
\* clock once for each.  Tokens themselves never change after creation.
Session == [ip : IPs, basic : Nat, bearer : Nat]
NoDraft == [ip |-> None, basic |-> 0, bearer |-> 0]

\* cur is a captured time.Now(), dead the expired ids a cleanup collected,
\* draft the session copy a request is about to write back.
Locals == [ip : IPs \cup {None}, path : Paths, cookie : SessionIds \cup {None},
           cur : Nat, dead : SUBSET SessionIds, draft : Session \cup {NoDraft}]
Fresh  == [ip |-> None, path |-> "other", cookie |-> None,
           cur |-> 0, dead |-> {}, draft |-> NoDraft]

Steps == {"idle", "capacity", "insert", "relogin", "collect", "delete",
          "lookup", "validate", "bearer", "update", "logout", "serve", "stopped"}

TypeOK ==
    /\ DOMAIN sessions \subseteq SessionIds
    /\ sessions \in [DOMAIN sessions -> Session]
    /\ issued \in SUBSET SessionIds
    /\ clock \in Nat
    /\ pc \in [Procs -> Steps]
    /\ req \in [Procs -> Locals]

-----------------------------------------------------------------------------
\* Map operations of AuthSessions.M.
Stored(s) == s \in DOMAIN sessions
Put(s, v) == [t \in DOMAIN sessions \cup {s} |-> IF t = s THEN v ELSE sessions[t]]
DeleteAuthSessions(S) == [t \in DOMAIN sessions \ S |-> sessions[t]]

\* Fault: the address of the client is not recorded.
AddresslessSession(ip, t) == [ip |-> None, basic |-> t + TTL, bearer |-> t + TTL]

\* A session of ip whose tokens live one TTL from t.
Expiring(ip, t) == [ip |-> ip, basic |-> t + TTL, bearer |-> t + TTL]

\* Expiry.Before(t) of both tokens, and of either one.
BothExpired(s, t)   == sessions[s].basic < t /\ sessions[s].bearer < t
EitherExpired(s, t) == sessions[s].basic < t \/ sessions[s].bearer < t

\* Fault: the address a session was issued to is not compared.
ValidFromAnywhere(s, t, ip) == Stored(s) /\ ~EitherExpired(s, t)

\* IsAuthSessionValid: the stored session is re-read by id.
IsAuthSessionValid(s, t, ip) ==
    /\ Stored(s)
    /\ ~EitherExpired(s, t)
    /\ sessions[s].ip = ip

Goto(p, l) == pc' = [pc EXCEPT ![p] = l]
Return(p)  == Goto(p, "idle") /\ req' = [req EXCEPT ![p] = Fresh]

-----------------------------------------------------------------------------
\* WebAuthEndpoint, after the credentials were accepted.

LoginArrives(r, ip) ==
    /\ pc[r] = "idle"
    /\ Goto(r, "capacity")
    /\ req' = [req EXCEPT ![r] = [Fresh EXCEPT !.ip = ip, !.path = "login"]]
    /\ UNCHANGED <<sessions, issued, clock>>

\* Fault: off by one at the limit.
CheckCapacityInclusive(r) ==
    /\ pc[r] = "capacity"
    /\ IF Cardinality(DOMAIN sessions) > MaxSessions
         THEN Return(r)
         ELSE Goto(r, "insert") /\ req' = [req EXCEPT ![r].cur = clock]
    /\ UNCHANGED <<sessions, issued, clock>>

\* CreateAuthSession, read-locked: the limit is tested here and not again.
CheckCapacity(r) ==
    /\ pc[r] = "capacity"
    /\ IF Cardinality(DOMAIN sessions) >= MaxSessions
         THEN Return(r)
         ELSE /\ Goto(r, "insert")
              /\ req' = [req EXCEPT ![r].cur = clock]
    /\ UNCHANGED <<sessions, issued, clock>>

\* CreateAuthSession, write-locked, with the expiries computed from cur.
InsertSession(r, s) ==
    /\ pc[r] = "insert"
    /\ s \notin issued
    /\ sessions' = Put(s, Expiring(req[r].ip, req[r].cur))
    /\ req' = [req EXCEPT ![r].cookie = s,
                          ![r].draft = Expiring(req[r].ip, clock)]
    /\ issued' = issued \cup {s}
    /\ Goto(r, "relogin")
    /\ UNCHANGED clock

\* UpdateAndGetAuthSession writes the copy back and ignores the error of a
\* session that is no longer there; the login is answered either way.
UpdateAfterLogin(r) ==
    /\ pc[r] = "relogin"
    /\ sessions' = IF Stored(req[r].cookie)
                     THEN Put(req[r].cookie, req[r].draft) ELSE sessions
    /\ Return(r)
    /\ UNCHANGED <<issued, clock>>

-----------------------------------------------------------------------------
\* CookieAuthMiddleware.

\* LAN addresses are served without a session.
LanRequest(r, ip) ==
    /\ pc[r] = "idle"
    /\ ip \in LanIPs
    /\ Goto(r, "serve")
    /\ UNCHANGED <<sessions, issued, clock, req>>

\* Any other address must send the cookies of a session it was once given.
CookieRequest(r, ip, path, s) ==
    /\ pc[r] = "idle"
    /\ ip \notin LanIPs
    /\ s \in issued
    /\ Goto(r, "collect")
    /\ req' = [req EXCEPT ![r] = [Fresh EXCEPT !.ip = ip, !.path = path,
                                               !.cookie = s, !.cur = clock]]
    /\ UNCHANGED <<sessions, issued, clock>>

\* The periodic cleanup of background-processes.go.
CleanerTick ==
    /\ pc[Cleaner] = "idle"
    /\ Goto(Cleaner, "collect")
    /\ req' = [req EXCEPT ![Cleaner].cur = clock]
    /\ UNCHANGED <<sessions, issued, clock>>

\* startBackgroundProcess returns between two executions once the group of the
\* background work has ended: the listener took an error, or main cancelled.
CleanerStops ==
    /\ pc[Cleaner] = "idle"
    /\ Goto(Cleaner, "stopped")
    /\ UNCHANGED <<sessions, issued, clock, req>>

\* Fault: the comparison is turned round, live sessions are collected.
CollectUnexpired(p) ==
    /\ pc[p] = "collect"
    /\ req' = [req EXCEPT
          ![p].dead = {s \in DOMAIN sessions : sessions[s].basic > req[p].cur}]
    /\ Goto(p, "delete")
    /\ UNCHANGED <<sessions, issued, clock>>

\* ClearExpiredAuthSessions, read-locked.
CollectExpired(p) ==
    /\ pc[p] = "collect"
    /\ req' = [req EXCEPT
          ![p].dead = {s \in DOMAIN sessions : BothExpired(s, req[p].cur)}]
    /\ Goto(p, "delete")
    /\ UNCHANGED <<sessions, issued, clock>>

\* DeleteAuthSessions, write-locked: by id, the expiries are not looked at again.
DeleteExpired(p) ==
    /\ pc[p] = "delete"
    /\ sessions' = DeleteAuthSessions(req[p].dead)
    /\ IF p = Cleaner
         THEN Return(p)
         ELSE /\ Goto(p, "lookup")
              /\ req' = [req EXCEPT ![p].dead = {}]
    /\ UNCHANGED <<issued, clock>>

\* GetAuthSessionByID, then the clock reading of IsAuthSessionValid.
Lookup(r) ==
    /\ pc[r] = "lookup"
    /\ IF Stored(req[r].cookie)
         THEN /\ Goto(r, "validate")
              /\ req' = [req EXCEPT ![r].draft = sessions[req[r].cookie],
                                    ![r].cur = clock]
         ELSE Return(r)
    /\ UNCHANGED <<sessions, issued, clock>>

\* IsAuthSessionValid, and the switch on the path: logout deletes, check_auth
\* answers without extending, all else starts ExtendSessionTTL on the snapshot.
Validate(r) ==
    /\ pc[r] = "validate"
    /\ \/ /\ \/ ~IsAuthSessionValid(req[r].cookie, req[r].cur, req[r].ip)
             \/ req[r].path = "check_auth"
          /\ Return(r)
       \/ /\ IsAuthSessionValid(req[r].cookie, req[r].cur, req[r].ip)
          /\ req[r].path = "logout"
          /\ Goto(r, "logout")
          /\ UNCHANGED req
       \/ /\ IsAuthSessionValid(req[r].cookie, req[r].cur, req[r].ip)
          /\ req[r].path \notin {"check_auth", "logout"}
          /\ Goto(r, "bearer")
          /\ req' = [req EXCEPT ![r].draft.basic = clock + TTL]
    /\ UNCHANGED <<sessions, issued, clock>>

\* Fault: the old expiry is prolonged instead of counting from now.
ExtendBearerFromExpiry(r) ==
    /\ pc[r] = "bearer"
    /\ req' = [req EXCEPT ![r].draft.bearer = @ + TTL]
    /\ Goto(r, "update")
    /\ UNCHANGED <<sessions, issued, clock>>

\* ExtendSessionTTL reads the clock again for the bearer token.
ExtendBearer(r) ==
    /\ pc[r] = "bearer"
    /\ req' = [req EXCEPT ![r].draft.bearer = clock + TTL]
    /\ Goto(r, "update")
    /\ UNCHANGED <<sessions, issued, clock>>

\* Fault: the snapshot is written back whether or not the entry is there.
UpsertAuthSession(r) ==
    /\ pc[r] = "update"
    /\ sessions' = Put(req[r].cookie, req[r].draft)
    /\ Goto(r, "serve")
    /\ req' = [req EXCEPT ![r] = [Fresh EXCEPT !.ip = req[r].ip,
                                               !.cookie = req[r].cookie]]
    /\ UNCHANGED <<issued, clock>>

\* UpdateAuthSession: overwrites an existing entry, and only that.
UpdateAuthSession(r) ==
    /\ pc[r] = "update"
    /\ IF Stored(req[r].cookie)
         THEN /\ sessions' = Put(req[r].cookie, req[r].draft)
              /\ Goto(r, "serve")
              /\ req' = [req EXCEPT ![r] = [Fresh EXCEPT !.ip = req[r].ip,
                                                         !.cookie = req[r].cookie]]
         ELSE /\ Return(r)
              /\ UNCHANGED sessions
    /\ UNCHANGED <<issued, clock>>

Logout(r) ==
    /\ pc[r] = "logout"
    /\ sessions' = DeleteAuthSessions({req[r].cookie})
    /\ Return(r)
    /\ UNCHANGED <<issued, clock>>

\* next.ServeHTTP returns.
HandlerDone(r) ==
    /\ pc[r] = "serve"
    /\ Return(r)
    /\ UNCHANGED <<sessions, issued, clock>>

-----------------------------------------------------------------------------
Tick ==
    /\ clock < MaxTime
    /\ clock' = clock + 1
    /\ UNCHANGED <<sessions, issued, pc, req>>

\* The process dies and starts again: InitAuthSessions makes an empty map.
Restart ==
    /\ sessions' = [s \in {} |-> NoDraft]
    /\ pc' = [p \in Procs |-> "idle"]
    /\ req' = [p \in Procs |-> Fresh]
    /\ UNCHANGED <<issued, clock>>

Init ==
    /\ sessions = [s \in {} |-> NoDraft]
    /\ issued = {}
    /\ clock = 0
    /\ pc = [p \in Procs |-> "idle"]
    /\ req = [p \in Procs |-> Fresh]

LoginStep(r) ==
    \/ \E ip \in IPs : LoginArrives(r, ip)
    \/ CheckCapacity(r)
    \/ \E s \in SessionIds : InsertSession(r, s)
    \/ UpdateAfterLogin(r)

CookieStep(r) ==
    \/ \E ip \in IPs : LanRequest(r, ip)
    \/ \E ip \in IPs, path \in Paths \ {"login"}, s \in SessionIds :
          CookieRequest(r, ip, path, s)
    \/ CollectExpired(r)
    \/ DeleteExpired(r)
    \/ Lookup(r)
    \/ Validate(r)
    \/ ExtendBearer(r)
    \/ UpdateAuthSession(r)
    \/ Logout(r)
    \/ HandlerDone(r)

CleanerStep == CleanerTick \/ CollectExpired(Cleaner) \/ DeleteExpired(Cleaner)

Next ==
    \/ \E r \in Requests : LoginStep(r) \/ CookieStep(r)
    \/ CleanerStep
    \/ CleanerStops
    \/ Tick
    \/ Restart

Spec == Init /\ [][Next]_vars

\* The cleaner's ticker keeps firing and the Go scheduler runs it, for as long
\* as the cleaner has not stopped; requests arrive, and time passes, at nobody's
\* obligation.
FairSpec == Spec /\ WF_vars(CleanerStep)

-----------------------------------------------------------------------------
\* Logins between their capacity check and their insertion.
Inserting == {r \in Requests : pc[r] = "insert"}

\* The limit is tested under a read lock and the entry inserted later under
\* another (auth.go:63-149).  Logins racing through the gap may exceed the
\* limit, but by fewer than there are requests in flight.
CapacityBound ==
    Cardinality(DOMAIN sessions) < MaxSessions + Cardinality(Requests)

\* A session that was logged out, expired or lost in a restart stays gone,
\* however many requests still hold a snapshot of it to write back
\* (UpdateAuthSession, auth.go:269-284; the ignored error in helpers.go:407).
NoResurrection ==
    [][\A s \in issued : ~Stored(s) => s \notin DOMAIN sessions']_vars

\* No chain of renewals, racing or not, pushes an expiry farther ahead than
\* one TTL from the present: an unused session dies within the TTL.
ExpiryHorizon ==
    \A s \in DOMAIN sessions :
        sessions[s].basic <= clock + TTL /\ sessions[s].bearer <= clock + TTL

\* A session whose tokens have both expired is freed, or a request that
\* validated it in time renews it, for as long as the cleaner is there to do
\* it: past its end only a request with cookies, which cleans up on its way in
\* (middleware.go:958), would free it, and none need come.
ExpiredEventuallyFreed ==
    \A s \in SessionIds :
        (Stored(s) /\ BothExpired(s, clock))
           ~> (~Stored(s) \/ ~BothExpired(s, clock) \/ pc[Cleaner] = "stopped")

-----------------------------------------------------------------------------
\* What the goroutines' locals are known to hold, step by step: the inductive
\* invariant behind the theorems of AuthSessionsProofs.

Copying(r) == pc[r] \in {"relogin", "validate", "bearer", "update"}

\* A login knows its address, a cookie request the id of an issued session,
\* and whoever is about to write a session back holds a complete copy.
Known(r) ==
    /\ pc[r] = "idle" => req[r] = Fresh
    /\ pc[r] \in {"capacity", "insert"} => req[r].ip \in IPs
    /\ pc[r] \notin {"idle", "capacity", "insert", "serve"}
          => req[r].cookie \in issued
    /\ pc[r] = "serve" => req[r].cookie \in issued \cup {None}
    /\ Copying(r) => req[r].draft \in Session

\* A copy, however stale, has the owner of the stored session; past the
\* validation that is the address of the request itself.
SameOwner(r) ==
    /\ Copying(r) => \A s \in DOMAIN sessions :
                       s = req[r].cookie => req[r].draft.ip = sessions[s].ip
    /\ pc[r] \in {"bearer", "update"} => req[r].draft.ip = req[r].ip

KnownLocals ==
    /\ pc[Cleaner] \in {"idle", "collect", "delete", "stopped"}
    /\ \A r \in Requests : Known(r) /\ SameOwner(r)

StoredWereIssued == DOMAIN sessions \subseteq issued

IInv == TypeOK /\ KnownLocals /\ StoredWereIssued

\* Counting the logins that have passed the check makes CapacityBound inductive.
CapacityIInv ==
    /\ IsFiniteSet(DOMAIN sessions)
    /\ Cardinality(DOMAIN sessions) + Cardinality(Inserting)
          < MaxSessions + Cardinality(Requests)

\* Captured clock readings and pending copies lie in the past as well.
PendingPast(r) ==
    /\ pc[r] = "insert" => req[r].cur <= clock
    /\ Copying(r) => /\ req[r].draft.basic <= clock + TTL
                     /\ req[r].draft.bearer <= clock + TTL

HorizonIInv == ExpiryHorizon /\ \A r \in Requests : PendingPast(r)

-----------------------------------------------------------------------------
\* The store implements SessionService.
Service == INSTANCE SessionService WITH
    live    <- [s \in DOMAIN sessions |-> sessions[s].ip],
    used    <- issued,
    serving <- [r \in Requests |->
                  IF pc[r] = "serve" /\ req[r].cookie # None
                    THEN <<req[r].cookie, req[r].ip>> ELSE <<None, None>>]

\* A handler runs only for the address a session was issued to, and begins
\* only while that session is live, although validation and the write that
\* admits the handler are separate critical sections (middleware.go:960-1037).
ImplementsSessionService == Service!SvcSpec
=============================================================================
