------------------------- MODULE AuthSessionsProofs -------------------------
(***************************************************************************)
(* Theorems about AuthSessions, for every number of requests, session ids, *)
(* addresses, limit and TTL, and with no bound on the clock but MaxTime.   *)
(***************************************************************************)
EXTENDS AuthSessions, FiniteSetTheorems, TLAPS

-----------------------------------------------------------------------------
\* Map operations keep the store a map of sessions.

LEMMA PutType ==
    ASSUME TypeOK, NEW s \in SessionIds, NEW v \in Session
    PROVE  /\ DOMAIN Put(s, v) = DOMAIN sessions \cup {s}
           /\ DOMAIN Put(s, v) \subseteq SessionIds
           /\ Put(s, v) \in [DOMAIN Put(s, v) -> Session]
           /\ Put(s, v)[s] = v
           /\ \A t \in DOMAIN sessions : t # s => Put(s, v)[t] = sessions[t]
  BY DEF TypeOK, Put

LEMMA DeleteType ==
    ASSUME TypeOK, NEW S
    PROVE  /\ DOMAIN DeleteAuthSessions(S) = DOMAIN sessions \ S
           /\ DOMAIN DeleteAuthSessions(S) \subseteq SessionIds
           /\ DeleteAuthSessions(S) \in [DOMAIN DeleteAuthSessions(S) -> Session]
           /\ \A t \in DOMAIN sessions \ S :
                 DeleteAuthSessions(S)[t] = sessions[t]
  BY DEF TypeOK, DeleteAuthSessions

LEMMA FreshType == Fresh \in Locals
  BY DEF Fresh, Locals, Paths, NoDraft

LEMMA LocalsFields ==
    ASSUME NEW l \in Locals
    PROVE  /\ l.ip \in IPs \cup {None}
           /\ l.cookie \in SessionIds \cup {None}
           /\ l.cur \in Nat
           /\ l.dead \in SUBSET SessionIds
           /\ l.draft \in Session \cup {NoDraft}
  BY DEF Locals

\* Overwriting fields of the locals keeps them well typed.
LEMMA SetCur ==
    ASSUME NEW l \in Locals, NEW n \in Nat
    PROVE  /\ [l EXCEPT !.cur = n] \in Locals
           /\ [l EXCEPT !.cur = n].ip = l.ip
  BY DEF Locals

LEMMA SetDead ==
    ASSUME NEW l \in Locals, NEW S \in SUBSET SessionIds
    PROVE  /\ [l EXCEPT !.dead = S] \in Locals
           /\ [l EXCEPT !.dead = S].cookie = l.cookie
  BY DEF Locals

LEMMA SetDraft ==
    ASSUME NEW l \in Locals, NEW d \in Session
    PROVE  /\ [l EXCEPT !.draft = d] \in Locals
           /\ [l EXCEPT !.draft = d].draft = d
           /\ [l EXCEPT !.draft = d].ip = l.ip
           /\ [l EXCEPT !.draft = d].cookie = l.cookie
  BY DEF Locals

LEMMA SetCookie ==
    ASSUME NEW l \in Locals, NEW s \in SessionIds
    PROVE  /\ [l EXCEPT !.cookie = s] \in Locals
           /\ [l EXCEPT !.cookie = s].cookie = s
  BY DEF Locals

LEMMA SetIp ==
    ASSUME NEW l \in Locals, NEW ip \in IPs
    PROVE  /\ [l EXCEPT !.ip = ip] \in Locals
           /\ [l EXCEPT !.ip = ip].ip = ip
  BY DEF Locals

LEMMA SetPath ==
    ASSUME NEW l \in Locals, NEW path \in Paths
    PROVE  /\ [l EXCEPT !.path = path] \in Locals
           /\ [l EXCEPT !.path = path].ip = l.ip
  BY DEF Locals

LEMMA ExpiringType ==
    ASSUME NEW ip \in IPs, NEW t \in Nat
    PROVE  Expiring(ip, t) \in Session /\ Expiring(ip, t).ip = ip
  BY NatAssumption DEF Expiring, Session

\* One goroutine moves, and the stored sessions keep their owners.
LEMMA Frame ==
    ASSUME IInv, NEW p \in Procs,
           pc' = [pc EXCEPT ![p] = pc'[p]], pc'[p] \in Steps,
           req' = [req EXCEPT ![p] = req'[p]], req'[p] \in Locals,
           DOMAIN sessions' \subseteq issued',
           sessions' \in [DOMAIN sessions' -> Session],
           issued \subseteq issued', issued' \subseteq SessionIds,
           clock' \in Nat,
           \A s \in DOMAIN sessions' \cap issued :
              s \in DOMAIN sessions /\ sessions'[s].ip = sessions[s].ip,
           p = Cleaner => pc'[Cleaner] \in {"idle", "collect", "delete", "stopped"},
           p \in Requests => Known(p)' /\ SameOwner(p)'
    PROVE  IInv'
  <1>1. TypeOK'
    BY DEF IInv, TypeOK
  <1>2. pc'[Cleaner] \in {"idle", "collect", "delete", "stopped"}
    BY ProcAssumption DEF IInv, TypeOK, KnownLocals, Procs
  <1>3. ASSUME NEW r \in Requests
        PROVE  Known(r)' /\ SameOwner(r)'
    <2>1. CASE r = p
      BY <2>1
    <2>2. CASE r # p
      <3>1. pc'[r] = pc[r] /\ req'[r] = req[r]
        BY <2>2 DEF IInv, TypeOK, Procs
      <3>2. Known(r)'
        BY <3>1 DEF IInv, KnownLocals, Known, Copying
      <3>3. SameOwner(r)'
        BY <3>1 DEF IInv, KnownLocals, Known, SameOwner, Copying
      <3>4. QED
        BY <3>2, <3>3
    <2>3. QED
      BY <2>1, <2>2
  <1>4. QED
    BY <1>1, <1>2, <1>3 DEF IInv, KnownLocals, StoredWereIssued

\* A goroutine that returns or merely moves leaves the store alone.
LEMMA ReturnStep ==
    ASSUME IInv, NEW p \in Procs, Return(p), UNCHANGED <<sessions, issued, clock>>
    PROVE  IInv'
  <1>1. pc'[p] = "idle" /\ req'[p] = Fresh
    BY DEF IInv, TypeOK, Return, Goto
  <1>2. p \in Requests => Known(p)' /\ SameOwner(p)'
    BY <1>1 DEF Known, SameOwner, Copying
  <1>3. QED
    BY <1>1, <1>2, FreshType, Frame
       DEF IInv, TypeOK, StoredWereIssued, Return, Goto, Steps

-----------------------------------------------------------------------------
\* One lemma for each action that does more than return.

LEMMA LoginArrivesInd ==
    ASSUME IInv, NEW r \in Requests, NEW ip \in IPs, LoginArrives(r, ip)
    PROVE  IInv'
  <1>1. pc'[r] = "capacity" /\ req'[r] = [Fresh EXCEPT !.ip = ip, !.path = "login"]
    BY DEF IInv, TypeOK, LoginArrives, Goto, Procs
  <1>2. req'[r] \in Locals /\ req'[r].ip = ip
    <2> DEFINE l == [Fresh EXCEPT !.ip = ip]
    <2>1. l \in Locals /\ l.ip = ip
      BY FreshType, SetIp
    <2>2. "login" \in Paths
      BY DEF Paths
    <2>3. req'[r] = [l EXCEPT !.path = "login"]
      BY <1>1
    <2> HIDE DEF l
    <2>4. QED
      BY <2>1, <2>2, <2>3, SetPath
  <1>3. Known(r)' /\ SameOwner(r)'
    BY <1>1, <1>2 DEF Known, SameOwner, Copying, IInv, TypeOK, LoginArrives
  <1>4. QED
    BY <1>1, <1>2, <1>3, Frame, ProcAssumption
       DEF IInv, TypeOK, StoredWereIssued, LoginArrives, Goto, Steps, Procs

LEMMA CheckCapacityInd ==
    ASSUME IInv, NEW r \in Requests, CheckCapacity(r)
    PROVE  IInv'
  <1>1. CASE Return(r)
    BY <1>1, ReturnStep DEF CheckCapacity, Procs
  <1>2. CASE ~Return(r)
    <2>1. pc'[r] = "insert" /\ req'[r] = [req[r] EXCEPT !.cur = clock]
      BY <1>2 DEF IInv, TypeOK, CheckCapacity, Goto, Procs
    <2>2. req[r] \in Locals /\ clock \in Nat
      BY DEF IInv, TypeOK, Procs
    <2>3. req'[r] \in Locals /\ req'[r].ip = req[r].ip
      BY <2>1, <2>2, SetCur
    <2>4. Known(r)' /\ SameOwner(r)'
      BY <2>1, <2>3 DEF Known, SameOwner, Copying, IInv, KnownLocals, CheckCapacity
    <2>5. QED
      BY <1>2, <2>1, <2>3, <2>4, Frame, ProcAssumption
         DEF IInv, TypeOK, StoredWereIssued, CheckCapacity, Goto, Steps, Procs
  <1>3. QED
    BY <1>1, <1>2

LEMMA InsertSessionInd ==
    ASSUME IInv, NEW r \in Requests, NEW s \in SessionIds, InsertSession(r, s)
    PROVE  IInv'
  <1>1. pc'[r] = "relogin"
        /\ req'[r] = [req[r] EXCEPT !.cookie = s,
                                    !.draft = Expiring(req[r].ip, clock)]
    BY DEF IInv, TypeOK, InsertSession, Goto, Procs
  <1>2. req[r] \in Locals /\ req[r].ip \in IPs /\ clock \in Nat
    BY DEF IInv, TypeOK, KnownLocals, Known, InsertSession, Procs
  <1>3. /\ Expiring(req[r].ip, clock) \in Session
        /\ Expiring(req[r].ip, req[r].cur) \in Session
        /\ Expiring(req[r].ip, clock).ip = Expiring(req[r].ip, req[r].cur).ip
    <2>1. req[r].cur \in Nat
      BY <1>2, LocalsFields
    <2>2. QED
      BY <1>2, <2>1, ExpiringType
  <1>4. /\ req'[r] \in Locals
        /\ req'[r].cookie = s
        /\ req'[r].draft = Expiring(req[r].ip, clock)
    BY <1>1, <1>2, <1>3 DEF Locals
  <1>5. /\ DOMAIN sessions' = DOMAIN sessions \cup {s}
        /\ sessions' \in [DOMAIN sessions' -> Session]
        /\ sessions'[s] = Expiring(req[r].ip, req[r].cur)
        /\ \A t \in DOMAIN sessions : t # s => sessions'[t] = sessions[t]
    BY <1>3, PutType DEF InsertSession, IInv
  <1>6. Known(r)'
    BY <1>1, <1>3, <1>4 DEF Known, Copying, InsertSession
  <1>7. SameOwner(r)'
    BY <1>1, <1>3, <1>4, <1>5 DEF SameOwner, Copying
  <1>8. QED
    BY <1>1, <1>4, <1>5, <1>6, <1>7, Frame, ProcAssumption
       DEF IInv, TypeOK, StoredWereIssued, InsertSession, Goto, Steps, Procs

\* Writing back a copy changes neither the set of sessions nor an owner.
LEMMA Overwrite ==
    ASSUME TypeOK, NEW c \in DOMAIN sessions, NEW d \in Session,
           d.ip = sessions[c].ip
    PROVE  /\ DOMAIN Put(c, d) = DOMAIN sessions
           /\ Put(c, d) \in [DOMAIN sessions -> Session]
           /\ \A s \in DOMAIN sessions : Put(c, d)[s].ip = sessions[s].ip
  BY DEF TypeOK, Put

LEMMA WriteBack ==
    ASSUME IInv, NEW r \in Requests, Copying(r), Stored(req[r].cookie)
    PROVE  /\ DOMAIN Put(req[r].cookie, req[r].draft) = DOMAIN sessions
           /\ Put(req[r].cookie, req[r].draft) \in [DOMAIN sessions -> Session]
           /\ \A s \in DOMAIN sessions :
                 Put(req[r].cookie, req[r].draft)[s].ip = sessions[s].ip
  <1>1. req[r].cookie \in DOMAIN sessions /\ req[r].draft \in Session
    BY DEF IInv, KnownLocals, Known, Stored
  <1>2. req[r].draft.ip = sessions[req[r].cookie].ip
    BY <1>1 DEF IInv, KnownLocals, SameOwner
  <1>3. TypeOK
    BY DEF IInv
  <1>4. QED
    BY <1>1, <1>2, <1>3, Overwrite

LEMMA UpdateAfterLoginInd ==
    ASSUME IInv, NEW r \in Requests, UpdateAfterLogin(r)
    PROVE  IInv'
  <1>1. pc'[r] = "idle" /\ req'[r] = Fresh
    BY DEF IInv, TypeOK, UpdateAfterLogin, Return, Goto, Procs
  <1>2. Known(r)' /\ SameOwner(r)'
    BY <1>1 DEF Known, SameOwner, Copying
  <1>3. /\ DOMAIN sessions' = DOMAIN sessions
        /\ sessions' \in [DOMAIN sessions -> Session]
        /\ \A s \in DOMAIN sessions : sessions'[s].ip = sessions[s].ip
    <2>1. CASE Stored(req[r].cookie)
      BY <2>1, WriteBack DEF UpdateAfterLogin, Copying
    <2>2. CASE ~Stored(req[r].cookie)
      BY <2>2 DEF UpdateAfterLogin, IInv, TypeOK
    <2>3. QED
      BY <2>1, <2>2
  <1>4. QED
    BY <1>1, <1>2, <1>3, FreshType, Frame, ProcAssumption
       DEF IInv, TypeOK, StoredWereIssued, UpdateAfterLogin, Return, Goto, Steps, Procs

LEMMA LanRequestInd ==
    ASSUME IInv, NEW r \in Requests, NEW ip \in IPs, LanRequest(r, ip)
    PROVE  IInv'
  <1>1. pc'[r] = "serve" /\ req'[r] = Fresh
    BY DEF IInv, TypeOK, KnownLocals, Known, LanRequest, Goto, Procs
  <1>2. Known(r)' /\ SameOwner(r)'
    BY <1>1 DEF Known, SameOwner, Copying, Fresh
  <1>3. QED
    BY <1>1, <1>2, FreshType, Frame, ProcAssumption
       DEF IInv, TypeOK, StoredWereIssued, LanRequest, Goto, Steps, Procs

LEMMA CookieRequestInd ==
    ASSUME IInv, NEW r \in Requests, NEW ip \in IPs, NEW path \in Paths,
           NEW s \in SessionIds, CookieRequest(r, ip, path, s)
    PROVE  IInv'
  <1>1. pc'[r] = "collect"
        /\ req'[r] = [Fresh EXCEPT !.ip = ip, !.path = path, !.cookie = s, !.cur = clock]
    BY DEF IInv, TypeOK, CookieRequest, Goto, Procs
  <1>2. req'[r] \in Locals /\ req'[r].cookie = s
    BY <1>1 DEF Fresh, Locals, NoDraft, IInv, TypeOK
  <1>3. Known(r)' /\ SameOwner(r)'
    BY <1>1, <1>2 DEF Known, SameOwner, Copying, CookieRequest
  <1>4. QED
    BY <1>1, <1>2, <1>3, Frame, ProcAssumption
       DEF IInv, TypeOK, StoredWereIssued, CookieRequest, Goto, Steps, Procs

LEMMA CollectExpiredInd ==
    ASSUME IInv, NEW p \in Procs, CollectExpired(p)
    PROVE  IInv'
  <1> DEFINE dead == {s \in DOMAIN sessions : BothExpired(s, req[p].cur)}
  <1>1. dead \in SUBSET SessionIds /\ req[p] \in Locals
    BY DEF IInv, TypeOK
  <1>2. pc'[p] = "delete" /\ req'[p] = [req[p] EXCEPT !.dead = dead]
    BY DEF IInv, TypeOK, CollectExpired, Goto
  <1> HIDE DEF dead
  <1>3. req'[p] \in Locals /\ req'[p].cookie = req[p].cookie
    BY <1>1, <1>2, SetDead
  <1>4. p \in Requests => Known(p)' /\ SameOwner(p)'
    BY <1>2, <1>3 DEF Known, SameOwner, Copying, IInv, KnownLocals, CollectExpired
  <1>5. QED
    BY <1>2, <1>3, <1>4, Frame
       DEF IInv, TypeOK, StoredWereIssued, CollectExpired, Goto, Steps

\* Removing sessions removes no owner of those that stay.
LEMMA DeleteExpiredInd ==
    ASSUME IInv, NEW p \in Procs, DeleteExpired(p)
    PROVE  IInv'
  <1>1. /\ DOMAIN sessions' = DOMAIN sessions \ req[p].dead
        /\ sessions' \in [DOMAIN sessions' -> Session]
        /\ \A s \in DOMAIN sessions' : sessions'[s] = sessions[s]
    <2>1. sessions' = DeleteAuthSessions(req[p].dead) /\ TypeOK
      BY DEF IInv, DeleteExpired
    <2>2. QED
      BY <2>1, DeleteType
  <1>2. CASE p = Cleaner
    <2>1. pc'[p] = "idle" /\ req'[p] = Fresh
      BY <1>2 DEF IInv, TypeOK, DeleteExpired, Return, Goto
    <2>2. QED
      BY <1>1, <1>2, <2>1, FreshType, Frame, ProcAssumption
         DEF IInv, TypeOK, StoredWereIssued, DeleteExpired, Return, Goto, Steps
  <1>3. CASE p # Cleaner
    <2>1. pc'[p] = "lookup" /\ req'[p] = [req[p] EXCEPT !.dead = {}]
      BY <1>3 DEF IInv, TypeOK, DeleteExpired, Goto
    <2>2. req'[p] \in Locals /\ req'[p].cookie = req[p].cookie
      BY <2>1, SetDead DEF IInv, TypeOK
    <2>3. p \in Requests /\ Known(p)' /\ SameOwner(p)'
      BY <1>3, <2>1, <2>2 DEF Known, SameOwner, Copying, IInv, KnownLocals,
                              DeleteExpired, Procs
    <2>4. QED
      BY <1>1, <1>3, <2>1, <2>2, <2>3, Frame
         DEF IInv, TypeOK, StoredWereIssued, DeleteExpired, Goto, Steps
  <1>4. QED
    BY <1>2, <1>3

LEMMA LookupInd ==
    ASSUME IInv, NEW r \in Requests, Lookup(r)
    PROVE  IInv'
  <1>1. CASE ~Stored(req[r].cookie)
    BY <1>1, ReturnStep DEF Lookup, Procs
  <1>2. CASE Stored(req[r].cookie)
    <2> DEFINE d == sessions[req[r].cookie]
               l == [req[r] EXCEPT !.draft = d]
    <2>1. pc'[r] = "validate" /\ req'[r] = [l EXCEPT !.cur = clock]
      BY <1>2 DEF IInv, TypeOK, Lookup, Goto, Procs
    <2>2. d \in Session /\ clock \in Nat /\ req[r] \in Locals
      BY <1>2 DEF IInv, TypeOK, Stored, Procs
    <2>3. l \in Locals /\ l.draft = d /\ l.cookie = req[r].cookie
      <3> HIDE DEF d
      <3> QED BY <2>2, SetDraft
    <2>4. req'[r] \in Locals /\ req'[r].draft = d /\ req'[r].cookie = req[r].cookie
      <3> HIDE DEF l
      <3> QED BY <2>1, <2>2, <2>3, SetCur
    <2>5. Known(r)' /\ SameOwner(r)'
      BY <2>1, <2>2, <2>4 DEF Known, SameOwner, Copying, IInv, KnownLocals, Lookup
    <2>6. QED
      BY <1>2, <2>1, <2>4, <2>5, Frame, ProcAssumption
         DEF IInv, TypeOK, StoredWereIssued, Lookup, Goto, Steps, Procs
  <1>3. QED
    BY <1>1, <1>2

\* The one place where a copy is tied to the address of the request.
LEMMA ValidateInd ==
    ASSUME IInv, NEW r \in Requests, Validate(r)
    PROVE  IInv'
  <1> DEFINE valid == IsAuthSessionValid(req[r].cookie, req[r].cur, req[r].ip)
  <1>1. CASE Return(r)
    BY <1>1, ReturnStep DEF Validate, Procs
  <1>2. CASE Goto(r, "logout") /\ UNCHANGED req /\ ~Return(r)
    <2>1. pc'[r] = "logout" /\ req'[r] = req[r] /\ req[r] \in Locals
      BY <1>2 DEF IInv, TypeOK, Goto, Procs
    <2>2. Known(r)' /\ SameOwner(r)'
      BY <2>1 DEF Known, SameOwner, Copying, IInv, KnownLocals, Validate
    <2>3. QED
      BY <1>2, <2>1, <2>2, Frame, ProcAssumption
         DEF IInv, TypeOK, StoredWereIssued, Validate, Goto, Steps, Procs
  <1>3. CASE valid /\ Goto(r, "bearer")
             /\ req' = [req EXCEPT ![r].draft.basic = clock + TTL]
    <2> DEFINE d == [req[r].draft EXCEPT !.basic = clock + TTL]
    <2>1. pc'[r] = "bearer" /\ req'[r] = [req[r] EXCEPT !.draft = d]
      BY <1>3 DEF IInv, TypeOK, Goto, Procs
    <2>2. req[r].draft \in Session /\ req[r] \in Locals /\ clock \in Nat
      BY DEF IInv, TypeOK, KnownLocals, Known, Copying, Validate, Procs
    <2>3. d \in Session /\ d.ip = req[r].draft.ip
      BY <2>2, NatAssumption DEF Session
    <2>4. /\ req'[r] \in Locals
          /\ req'[r].draft = d
          /\ req'[r].ip = req[r].ip
          /\ req'[r].cookie = req[r].cookie
      <3> HIDE DEF d
      <3> QED BY <2>1, <2>2, <2>3, SetDraft
    <2>5. req[r].cookie \in DOMAIN sessions /\ sessions[req[r].cookie].ip = req[r].ip
      BY <1>3 DEF IsAuthSessionValid, Stored
    <2>6. d.ip = req[r].ip /\ UNCHANGED <<sessions, issued, clock>>
      BY <2>3, <2>5 DEF IInv, KnownLocals, SameOwner, Copying, Validate
    <2> HIDE DEF d
    <2>7. Known(r)' /\ SameOwner(r)'
      BY <2>1, <2>3, <2>4, <2>5, <2>6
         DEF Known, SameOwner, Copying, IInv, KnownLocals, Validate
    <2>8. QED
      BY <1>3, <2>1, <2>4, <2>6, <2>7, Frame, ProcAssumption
         DEF IInv, TypeOK, StoredWereIssued, Goto, Steps, Procs
  <1>4. QED
    BY <1>1, <1>2, <1>3 DEF Validate

LEMMA ExtendBearerInd ==
    ASSUME IInv, NEW r \in Requests, ExtendBearer(r)
    PROVE  IInv'
  <1> DEFINE d == [req[r].draft EXCEPT !.bearer = clock + TTL]
  <1>1. pc'[r] = "update" /\ req'[r] = [req[r] EXCEPT !.draft = d]
    BY DEF IInv, TypeOK, ExtendBearer, Goto, Procs
  <1>2. req[r].draft \in Session /\ req[r] \in Locals /\ clock \in Nat
    BY DEF IInv, TypeOK, KnownLocals, Known, Copying, ExtendBearer, Procs
  <1>3. d \in Session /\ d.ip = req[r].draft.ip
    BY <1>2, NatAssumption DEF Session
  <1> HIDE DEF d
  <1>4. /\ req'[r] \in Locals
        /\ req'[r].draft = d
        /\ req'[r].ip = req[r].ip
        /\ req'[r].cookie = req[r].cookie
    BY <1>1, <1>2, <1>3, SetDraft
  <1>5. Known(r)'
    BY <1>1, <1>3, <1>4 DEF Known, Copying, IInv, KnownLocals, ExtendBearer
  <1>6. SameOwner(r)'
    BY <1>1, <1>3, <1>4 DEF SameOwner, Copying, IInv, KnownLocals, ExtendBearer
  <1>7. QED
    BY <1>1, <1>4, <1>5, <1>6, Frame, ProcAssumption
       DEF IInv, TypeOK, StoredWereIssued, ExtendBearer, Goto, Steps, Procs

LEMMA UpdateAuthSessionInd ==
    ASSUME IInv, NEW r \in Requests, UpdateAuthSession(r)
    PROVE  IInv'
  <1>1. CASE ~Stored(req[r].cookie)
    BY <1>1, ReturnStep DEF UpdateAuthSession, Procs
  <1>2. CASE Stored(req[r].cookie)
    <2> DEFINE l == [Fresh EXCEPT !.ip = req[r].ip]
    <2>1. pc'[r] = "serve" /\ req'[r] = [l EXCEPT !.cookie = req[r].cookie]
      BY <1>2 DEF IInv, TypeOK, UpdateAuthSession, Goto, Procs
    <2>2. req[r].cookie \in issued /\ req[r].draft \in Session
          /\ req[r].draft.ip = req[r].ip /\ issued \subseteq SessionIds
      BY DEF IInv, TypeOK, KnownLocals, Known, SameOwner, Copying, UpdateAuthSession
    <2>3. l \in Locals
      BY <2>2, FreshType, SetIp DEF Session
    <2> HIDE DEF l
    <2>4. req'[r] \in Locals /\ req'[r].cookie = req[r].cookie
      BY <2>1, <2>2, <2>3, SetCookie
    <2>5. Known(r)' /\ SameOwner(r)'
      BY <2>1, <2>2, <2>4 DEF Known, SameOwner, Copying, UpdateAuthSession
    <2>6. /\ DOMAIN sessions' = DOMAIN sessions
          /\ sessions' \in [DOMAIN sessions -> Session]
          /\ \A s \in DOMAIN sessions : sessions'[s].ip = sessions[s].ip
      BY <1>2, WriteBack DEF UpdateAuthSession, Copying
    <2>7. QED
      BY <1>2, <2>1, <2>4, <2>5, <2>6, Frame, ProcAssumption
         DEF IInv, TypeOK, StoredWereIssued, UpdateAuthSession, Goto, Steps, Procs
  <1>3. QED
    BY <1>1, <1>2

LEMMA LogoutInd ==
    ASSUME IInv, NEW r \in Requests, Logout(r)
    PROVE  IInv'
  <1>1. /\ DOMAIN sessions' = DOMAIN sessions \ {req[r].cookie}
        /\ sessions' \in [DOMAIN sessions' -> Session]
        /\ \A s \in DOMAIN sessions' : sessions'[s] = sessions[s]
    BY DeleteType DEF IInv, Logout
  <1>2. pc'[r] = "idle" /\ req'[r] = Fresh
    BY DEF IInv, TypeOK, Logout, Return, Goto, Procs
  <1>3. Known(r)' /\ SameOwner(r)'
    BY <1>2 DEF Known, SameOwner, Copying
  <1>4. QED
    BY <1>1, <1>2, <1>3, FreshType, Frame, ProcAssumption
       DEF IInv, TypeOK, StoredWereIssued, Logout, Return, Goto, Steps, Procs

LEMMA CleanerTickInd ==
    ASSUME IInv, CleanerTick
    PROVE  IInv'
  <1>1. pc'[Cleaner] = "collect" /\ req'[Cleaner] = [req[Cleaner] EXCEPT !.cur = clock]
    BY DEF IInv, TypeOK, CleanerTick, Goto, Procs
  <1>2. req'[Cleaner] \in Locals
    BY <1>1, SetCur DEF IInv, TypeOK, Procs
  <1>3. QED
    BY <1>1, <1>2, Frame, ProcAssumption
       DEF IInv, TypeOK, StoredWereIssued, CleanerTick, Goto, Steps, Procs

LEMMA CleanerStopsInd ==
    ASSUME IInv, CleanerStops
    PROVE  IInv'
  <1>1. pc'[Cleaner] = "stopped" /\ req'[Cleaner] = req[Cleaner]
    BY DEF IInv, TypeOK, CleanerStops, Goto, Procs
  <1>2. req'[Cleaner] \in Locals
    BY <1>1 DEF IInv, TypeOK, Procs
  <1>3. QED
    BY <1>1, <1>2, Frame, ProcAssumption
       DEF IInv, TypeOK, StoredWereIssued, CleanerStops, Goto, Steps, Procs

LEMMA RestartInd ==
    ASSUME IInv, Restart
    PROVE  IInv'
  <1>1. TypeOK' /\ StoredWereIssued'
    BY FreshType DEF IInv, TypeOK, StoredWereIssued, Restart, Steps
  <1>2. KnownLocals'
    BY DEF KnownLocals, Known, SameOwner, Copying, Restart, Procs
  <1>3. QED
    BY <1>1, <1>2 DEF IInv

-----------------------------------------------------------------------------
\* Every reachable state is well typed, every local is what its step needs,
\* and every snapshot still names the owner of the stored session.
THEOREM Inductive == Spec => []IInv
  <1>1. Init => IInv
    <2> SUFFICES ASSUME Init PROVE IInv
      OBVIOUS
    <2>1. TypeOK /\ StoredWereIssued
      BY FreshType DEF Init, TypeOK, StoredWereIssued, Steps
    <2>2. KnownLocals
      BY DEF Init, KnownLocals, Known, SameOwner, Copying, Procs
    <2>3. QED
      BY <2>1, <2>2 DEF IInv
  <1>2. IInv /\ [Next]_vars => IInv'
    <2> SUFFICES ASSUME IInv, [Next]_vars
                 PROVE  IInv'
      OBVIOUS
    <2>1. CASE \E r \in Requests : LoginStep(r)
      BY <2>1, LoginArrivesInd, CheckCapacityInd, InsertSessionInd, UpdateAfterLoginInd
         DEF LoginStep
    <2>2. CASE \E r \in Requests : CookieStep(r)
      <3>1. PICK r \in Requests : CookieStep(r)
        BY <2>2
      <3>2. r \in Procs
        BY DEF Procs
      <3>3. CASE HandlerDone(r)
        BY <3>2, <3>3, ReturnStep DEF HandlerDone
      <3>4. QED
        BY <3>1, <3>2, <3>3, LanRequestInd, CookieRequestInd, CollectExpiredInd,
           DeleteExpiredInd, LookupInd, ValidateInd, ExtendBearerInd,
           UpdateAuthSessionInd, LogoutInd
           DEF CookieStep
    <2>3. CASE CleanerStep
      BY <2>3, CleanerTickInd, CollectExpiredInd, DeleteExpiredInd
         DEF CleanerStep, Procs
    <2>4. CASE Tick
      BY <2>4 DEF Tick, IInv, TypeOK, KnownLocals, Known, SameOwner, Copying,
                  StoredWereIssued
    <2>5. CASE Restart
      BY <2>5, RestartInd
    <2>6. CASE UNCHANGED vars
      BY <2>6 DEF vars, IInv, TypeOK, KnownLocals, Known, SameOwner, Copying,
                  StoredWereIssued
    <2>7. CASE CleanerStops
      BY <2>7, CleanerStopsInd
    <2>8. QED
      BY <2>1, <2>2, <2>3, <2>4, <2>5, <2>6, <2>7 DEF Next
  <1>3. QED
    BY <1>1, <1>2, PTL DEF Spec

\* The type invariant, for every instance.
THEOREM Typing == Spec => []TypeOK
  <1>1. IInv => TypeOK
    BY DEF IInv
  <1>2. QED
    BY <1>1, Inductive, PTL

-----------------------------------------------------------------------------
\* A gone session stays gone: only InsertSession adds to the store, and it
\* takes an id that was never issued.
THEOREM GoneStaysGone == Spec => NoResurrection
  <1>1. IInv /\ [Next]_vars
           => [\A s \in issued : ~Stored(s) => s \notin DOMAIN sessions']_vars
    <2> SUFFICES ASSUME IInv, Next, NEW s \in issued, ~Stored(s)
                 PROVE  s \notin DOMAIN sessions'
      BY DEF vars
    <2>1. ASSUME NEW r \in Requests, LoginStep(r)
          PROVE  s \notin DOMAIN sessions'
      <3>1. ASSUME NEW t \in SessionIds, InsertSession(r, t)
            PROVE  s \notin DOMAIN sessions'
        BY <3>1 DEF InsertSession, Put, Stored
      <3>2. CASE UpdateAfterLogin(r)
        BY <3>2 DEF UpdateAfterLogin, Put, Stored
      <3>3. QED
        BY <2>1, <3>1, <3>2 DEF LoginStep, LoginArrives, CheckCapacity, Stored
    <2>2. ASSUME NEW p \in Procs, DeleteExpired(p)
          PROVE  s \notin DOMAIN sessions'
      BY <2>2 DEF DeleteExpired, DeleteAuthSessions, Stored
    <2>3. ASSUME NEW r \in Requests, CookieStep(r)
          PROVE  s \notin DOMAIN sessions'
      <3>1. CASE UpdateAuthSession(r)
        BY <3>1 DEF UpdateAuthSession, Put, Stored
      <3>2. CASE Logout(r)
        BY <3>2 DEF Logout, DeleteAuthSessions, Stored
      <3>3. CASE DeleteExpired(r)
        BY <2>2, <3>3 DEF Procs
      <3>4. QED
        BY <2>3, <3>1, <3>2, <3>3
           DEF CookieStep, LanRequest, CookieRequest, CollectExpired, Lookup,
               Validate, ExtendBearer, HandlerDone, Stored
    <2>4. CASE CleanerStep
      BY <2>2, <2>4 DEF CleanerStep, CleanerTick, CollectExpired, Stored, Procs
    <2>5. CASE Tick \/ Restart \/ CleanerStops
      BY <2>5 DEF Tick, Restart, CleanerStops, Stored
    <2>6. QED
      BY <2>1, <2>3, <2>4, <2>5 DEF Next
  <1>2. QED
    BY <1>1, Inductive, PTL DEF Spec, NoResurrection

-----------------------------------------------------------------------------
\* Counting lemmas for the limit.

\* A move of one goroutine away from the gap does not add to the gap.
LEMMA GapShrinks ==
    ASSUME IInv, NEW p \in Procs, NEW k \in Steps \ {"insert"},
           pc' = [pc EXCEPT ![p] = k]
    PROVE  Inserting' \subseteq Inserting
  BY DEF IInv, TypeOK, Inserting

\* Fewer sessions and fewer logins in the gap keep the bound.
LEMMA BoundShrinks ==
    ASSUME CapacityIInv,
           DOMAIN sessions' \subseteq DOMAIN sessions,
           Inserting' \subseteq Inserting
    PROVE  CapacityIInv'
  <1>1. IsFiniteSet(Inserting)
    BY ProcAssumption, FS_Subset DEF Inserting
  <1>2. /\ IsFiniteSet(DOMAIN sessions')
        /\ Cardinality(DOMAIN sessions') <= Cardinality(DOMAIN sessions)
        /\ Cardinality(Inserting') <= Cardinality(Inserting)
    BY <1>1, FS_Subset DEF CapacityIInv
  <1>3. /\ Cardinality(DOMAIN sessions) \in Nat
        /\ Cardinality(DOMAIN sessions') \in Nat
        /\ Cardinality(Inserting) \in Nat
        /\ Cardinality(Inserting') \in Nat
        /\ Cardinality(Requests) \in Nat
    BY <1>1, <1>2, FS_Subset, FS_CardinalityType, ProcAssumption DEF CapacityIInv
  <1>4. QED
    BY <1>2, <1>3, NatAssumption DEF CapacityIInv

\* A login that found room enters the gap.
LEMMA CheckKeepsBound ==
    ASSUME IInv, CapacityIInv, NEW r \in Requests, CheckCapacity(r)
    PROVE  CapacityIInv'
  <1>1. CASE Return(r)
    <2>1. Inserting' \subseteq Inserting
      BY <1>1, GapShrinks DEF Return, Goto, Procs, Steps
    <2>2. QED
      BY <2>1, BoundShrinks DEF CheckCapacity
  <1>2. CASE ~Return(r)
    <2>1. Cardinality(DOMAIN sessions) < MaxSessions /\ UNCHANGED sessions
      <3>1. Cardinality(DOMAIN sessions) \in Nat
        BY FS_CardinalityType DEF CapacityIInv
      <3>2. QED
        BY <1>2, <3>1, NatAssumption DEF CheckCapacity
    <2>2. Inserting' \subseteq Requests
      BY DEF Inserting
    <2>3. /\ Cardinality(Inserting') <= Cardinality(Requests)
          /\ Cardinality(Inserting') \in Nat
          /\ Cardinality(Requests) \in Nat
          /\ Cardinality(DOMAIN sessions) \in Nat
      BY <2>2, FS_Subset, FS_CardinalityType, ProcAssumption DEF CapacityIInv
    <2>4. QED
      BY <2>1, <2>3, NatAssumption DEF CapacityIInv
  <1>3. QED
    BY <1>1, <1>2

\* An insertion leaves the gap and adds one session: the sum is the same.
LEMMA InsertKeepsBound ==
    ASSUME IInv, CapacityIInv, NEW r \in Requests, NEW s \in SessionIds,
           InsertSession(r, s)
    PROVE  CapacityIInv'
  <1>1. Inserting' = Inserting \ {r} /\ r \in Inserting
    BY DEF IInv, TypeOK, InsertSession, Goto, Inserting, Procs
  <1>2. DOMAIN sessions' = DOMAIN sessions \cup {s} /\ s \notin DOMAIN sessions
    BY DEF InsertSession, Put, IInv, StoredWereIssued
  <1>3. IsFiniteSet(Inserting)
    BY ProcAssumption, FS_Subset DEF Inserting
  <1>4. /\ Cardinality(Inserting') = Cardinality(Inserting) - 1
        /\ Cardinality(Inserting) \in Nat
    BY <1>1, <1>3, FS_RemoveElement, FS_CardinalityType
  <1>5. /\ IsFiniteSet(DOMAIN sessions')
        /\ Cardinality(DOMAIN sessions') = Cardinality(DOMAIN sessions) + 1
        /\ Cardinality(DOMAIN sessions) \in Nat
    BY <1>2, FS_AddElement, FS_CardinalityType DEF CapacityIInv
  <1>6. QED
    BY <1>4, <1>5, FS_CardinalityType, ProcAssumption, NatAssumption DEF CapacityIInv

\* Every other step only takes sessions away and moves goroutines elsewhere.
LEMMA OtherKeepsBound ==
    ASSUME IInv, CapacityIInv, NEW p \in Procs, NEW k \in Steps \ {"insert"},
           pc' = [pc EXCEPT ![p] = k],
           DOMAIN sessions' \subseteq DOMAIN sessions
    PROVE  CapacityIInv'
  BY GapShrinks, BoundShrinks

\* The store stays below MaxSessions plus the number of requests in flight.
THEOREM CapacityHolds == Spec => []CapacityBound
  <1>1. Init => CapacityIInv
    <2> SUFFICES ASSUME Init PROVE CapacityIInv
      OBVIOUS
    <2>1. DOMAIN sessions = {} /\ Inserting = {}
      BY DEF Init, Inserting, Procs
    <2>2. Cardinality(Requests) \in Nat
      BY ProcAssumption, FS_CardinalityType
    <2>3. QED
      BY <2>1, <2>2, FS_EmptySet, NatAssumption DEF CapacityIInv
  <1>2. IInv /\ CapacityIInv /\ [Next]_vars => CapacityIInv'
    <2> SUFFICES ASSUME IInv, CapacityIInv, [Next]_vars
                 PROVE  CapacityIInv'
      OBVIOUS
    <2>1. ASSUME NEW r \in Requests, LoginStep(r)
          PROVE  CapacityIInv'
      <3>1. ASSUME NEW ip \in IPs, LoginArrives(r, ip)
            PROVE  CapacityIInv'
        BY <3>1, OtherKeepsBound DEF LoginArrives, Goto, Procs, Steps
      <3>2. CASE UpdateAfterLogin(r)
        BY <3>2, OtherKeepsBound
           DEF UpdateAfterLogin, Return, Goto, Procs, Steps, Put, Stored
      <3>3. QED
        BY <2>1, <3>1, <3>2, CheckKeepsBound, InsertKeepsBound DEF LoginStep
    <2>2. ASSUME NEW p \in Procs, CollectExpired(p) \/ DeleteExpired(p)
          PROVE  CapacityIInv'
      <3>1. DOMAIN sessions' \subseteq DOMAIN sessions
        BY <2>2 DEF CollectExpired, DeleteExpired, DeleteAuthSessions
      <3>2. PICK k \in Steps \ {"insert"} : pc' = [pc EXCEPT ![p] = k]
        BY <2>2 DEF CollectExpired, DeleteExpired, Return, Goto, Steps
      <3>3. QED
        BY <3>1, <3>2, OtherKeepsBound
    <2>3. ASSUME NEW r \in Requests, CookieStep(r)
          PROVE  CapacityIInv'
      <3>1. r \in Procs
        BY DEF Procs
      <3>2. CASE CollectExpired(r) \/ DeleteExpired(r)
        BY <2>2, <3>1, <3>2
      <3>3. CASE ~CollectExpired(r) /\ ~DeleteExpired(r)
        <4>1. DOMAIN sessions' \subseteq DOMAIN sessions
          BY <2>3, <3>3 DEF CookieStep, LanRequest, CookieRequest, Lookup, Validate,
             ExtendBearer, UpdateAuthSession, Logout, HandlerDone, Put, Stored,
             DeleteAuthSessions
        <4>2. PICK k \in Steps \ {"insert"} : pc' = [pc EXCEPT ![r] = k]
          BY <2>3, <3>3 DEF CookieStep, LanRequest, CookieRequest, Lookup, Validate,
             ExtendBearer, UpdateAuthSession, Logout, HandlerDone, Return, Goto, Steps
        <4>3. QED
          BY <3>1, <4>1, <4>2, OtherKeepsBound
      <3>4. QED
        BY <3>2, <3>3
    <2>4. CASE CleanerStep
      <3>1. CASE CleanerTick
        BY <3>1, OtherKeepsBound DEF CleanerTick, Goto, Procs, Steps
      <3>2. QED
        BY <2>2, <2>4, <3>1 DEF CleanerStep, Procs
    <2>5. CASE Tick \/ UNCHANGED vars
      BY <2>5, BoundShrinks DEF Tick, vars, Inserting
    <2>6. CASE Restart
      <3>1. DOMAIN sessions' = {} /\ Inserting' = {}
        BY <2>6 DEF Restart, Inserting, Procs
      <3>2. QED
        BY <3>1, BoundShrinks
    <2>7. CASE CleanerStops
      BY <2>7, OtherKeepsBound DEF CleanerStops, Goto, Procs, Steps
    <2>8. QED
      BY <2>1, <2>3, <2>4, <2>5, <2>6, <2>7 DEF Next
  <1>3. CapacityIInv => CapacityBound
    <2> SUFFICES ASSUME CapacityIInv PROVE CapacityBound
      OBVIOUS
    <2>1. IsFiniteSet(Inserting)
      BY ProcAssumption, FS_Subset DEF Inserting
    <2>2. /\ Cardinality(Inserting) \in Nat
          /\ Cardinality(DOMAIN sessions) \in Nat
          /\ Cardinality(Requests) \in Nat
      BY <2>1, FS_CardinalityType, ProcAssumption DEF CapacityIInv
    <2>3. QED
      BY <2>2, NatAssumption DEF CapacityIInv, CapacityBound
  <1>4. QED
    BY <1>1, <1>2, <1>3, Inductive, PTL DEF Spec

-----------------------------------------------------------------------------
\* The detailed steps are steps of SessionService.

LiveMap    == [s \in DOMAIN sessions |-> sessions[s].ip]
ServingMap == [r \in Requests |->
                 IF pc[r] = "serve" /\ req[r].cookie # None
                   THEN <<req[r].cookie, req[r].ip>> ELSE <<None, None>>]

\* r runs no handler before and after the step, or the step is not r's.
SameHandler(r) == \/ pc[r] # "serve" /\ pc'[r] # "serve"
                  \/ pc'[r] = pc[r] /\ req'[r] = req[r]

\* A step that adds no session, changes no owner and starts or ends no handler.
LEMMA StutterStep ==
    ASSUME DOMAIN sessions' = DOMAIN sessions, UNCHANGED issued,
           \A s \in DOMAIN sessions : sessions'[s].ip = sessions[s].ip,
           \A r \in Requests : SameHandler(r)
    PROVE  UNCHANGED <<LiveMap, issued, ServingMap>>
  BY DEF LiveMap, ServingMap, SameHandler

\* A step that removes sessions and leaves the handlers alone.
LEMMA RetireStep ==
    ASSUME NEW S \in SUBSET SessionIds, UNCHANGED issued,
           DOMAIN sessions' = DOMAIN sessions \ S,
           \A s \in DOMAIN sessions' : sessions'[s].ip = sessions[s].ip,
           \A r \in Requests : SameHandler(r)
    PROVE  Service!Retire(S)
  <1>1. UNCHANGED ServingMap
    BY DEF ServingMap, SameHandler
  <1>2. LiveMap' = [t \in DOMAIN LiveMap \ S |-> LiveMap[t]]
    BY DEF LiveMap
  <1>3. QED
    BY <1>1, <1>2 DEF Service!Retire, LiveMap, ServingMap

\* Goroutine p moves, outside its handler.
Outside(p) == /\ pc[p] # "serve" /\ pc'[p] # "serve"
              /\ \A r \in Requests \ {p} : pc'[r] = pc[r] /\ req'[r] = req[r]

LEMMA LoginRefines ==
    ASSUME IInv, NEW r \in Requests, LoginStep(r)
    PROVE  [Service!SvcNext]_(Service!svcVars)
  <1>1. Outside(r)
    BY DEF LoginStep, LoginArrives, CheckCapacity, InsertSession, UpdateAfterLogin,
           Return, Goto, Outside, IInv, TypeOK, Procs
  <1>2. ASSUME NEW s \in SessionIds, InsertSession(r, s)
        PROVE  \E ip \in IPs : Service!Issue(s, ip)
    <2>1. PICK ip \in IPs : ip = req[r].ip
      BY <1>2 DEF IInv, KnownLocals, Known, InsertSession
    <2>2. UNCHANGED ServingMap
      BY <1>1 DEF Outside, ServingMap
    <2>3. /\ DOMAIN sessions' = DOMAIN sessions \cup {s}
          /\ s \notin DOMAIN sessions
          /\ sessions'[s].ip = ip
          /\ \A t \in DOMAIN sessions : sessions'[t] = sessions[t]
      BY <1>2, <2>1 DEF InsertSession, Put, Expiring, IInv, StoredWereIssued
    <2>4. LiveMap' = [t \in DOMAIN LiveMap \cup {s} |->
                        IF t = s THEN ip ELSE LiveMap[t]]
      BY <2>3 DEF LiveMap
    <2>5. Service!Issue(s, ip)
      BY <1>2, <2>2, <2>4 DEF InsertSession, Service!Issue, LiveMap, ServingMap
    <2>6. QED
      BY <2>5
  <1>3. CASE UpdateAfterLogin(r)
    <2>1. /\ DOMAIN sessions' = DOMAIN sessions
          /\ \A s \in DOMAIN sessions : sessions'[s].ip = sessions[s].ip
      <3>1. CASE Stored(req[r].cookie)
        BY <1>3, <3>1, WriteBack DEF UpdateAfterLogin, Copying
      <3>2. CASE ~Stored(req[r].cookie)
        BY <1>3, <3>2 DEF UpdateAfterLogin
      <3>3. QED
        BY <3>1, <3>2
    <2>2. QED
      BY <1>1, <1>3, <2>1, StutterStep
         DEF Outside, SameHandler, UpdateAfterLogin, Service!svcVars, LiveMap, ServingMap
  <1>4. CASE UNCHANGED <<sessions, issued>>
    BY <1>1, <1>4, StutterStep DEF Outside, SameHandler, Service!svcVars, LiveMap, ServingMap
  <1>5. QED
    BY <1>2, <1>3, <1>4
       DEF LoginStep, LoginArrives, CheckCapacity, Service!SvcNext

LEMMA CleanupRefines ==
    ASSUME IInv, NEW p \in Procs,
           CollectExpired(p) \/ DeleteExpired(p) \/ (p = Cleaner /\ CleanerTick)
    PROVE  [Service!SvcNext]_(Service!svcVars)
  <1>1. Outside(p)
    BY DEF CollectExpired, DeleteExpired, CleanerTick,
           Return, Goto, Outside, IInv, TypeOK, Procs
  <1>2. CASE DeleteExpired(p)
    <2>1. /\ DOMAIN sessions' = DOMAIN sessions \ req[p].dead
          /\ \A s \in DOMAIN sessions' : sessions'[s] = sessions[s]
      BY <1>2 DEF DeleteExpired, DeleteAuthSessions
    <2>2. PICK S \in SUBSET SessionIds : S = req[p].dead
      BY LocalsFields DEF IInv, TypeOK
    <2>3. /\ UNCHANGED issued
          /\ DOMAIN sessions' = DOMAIN sessions \ S
          /\ \A s \in DOMAIN sessions' : sessions'[s].ip = sessions[s].ip
          /\ \A r \in Requests : SameHandler(r)
      <3>1. \A r \in Requests : SameHandler(r)
        BY <1>1 DEF Outside, SameHandler
      <3>2. QED
        BY <1>2, <2>1, <2>2, <3>1 DEF DeleteExpired
    <2>4. Service!Retire(S)
      BY <2>3, RetireStep
    <2>5. QED
      BY <2>4 DEF Service!SvcNext
  <1>3. CASE UNCHANGED <<sessions, issued>>
    BY <1>1, <1>3, StutterStep DEF Outside, SameHandler, Service!svcVars, LiveMap, ServingMap
  <1>4. QED
    BY <1>2, <1>3 DEF CollectExpired, CleanerTick

LEMMA UpdateRefines ==
    ASSUME IInv, NEW r \in Requests, UpdateAuthSession(r)
    PROVE  [Service!SvcNext]_(Service!svcVars)
  <1>1. CASE ~Stored(req[r].cookie)
    <2>1. Outside(r)
      BY <1>1 DEF UpdateAuthSession, Return, Goto, Outside, IInv, TypeOK, Procs
    <2>2. QED
      BY <1>1, <2>1, StutterStep
         DEF UpdateAuthSession, Outside, SameHandler, Service!svcVars, LiveMap, ServingMap
  <1>2. CASE Stored(req[r].cookie)
    <2>1. PICK c \in SessionIds : c = req[r].cookie /\ c \in DOMAIN sessions /\ c # None
      BY <1>2, IdAssumption DEF Stored, IInv, TypeOK
    <2>2. req[r].ip = sessions[c].ip
      BY <2>1 DEF UpdateAuthSession, IInv, KnownLocals, SameOwner, Copying
    <2>3. /\ DOMAIN sessions' = DOMAIN sessions
          /\ \A s \in DOMAIN sessions : sessions'[s].ip = sessions[s].ip
      BY <1>2, WriteBack DEF UpdateAuthSession, Copying
    <2>4. LiveMap' = LiveMap /\ UNCHANGED issued
      BY <2>3 DEF LiveMap, UpdateAuthSession
    <2>5. /\ pc[r] # "serve"
          /\ pc'[r] = "serve" /\ req'[r].cookie = c /\ req'[r].ip = req[r].ip
          /\ \A q \in Requests \ {r} : pc'[q] = pc[q] /\ req'[q] = req[q]
      BY <1>2, <2>1 DEF UpdateAuthSession, Goto, Fresh, IInv, TypeOK, Procs
    <2>6. ServingMap[r] = <<None, None>>
          /\ ServingMap' = [ServingMap EXCEPT ![r] = <<c, sessions[c].ip>>]
      BY <2>1, <2>2, <2>5 DEF ServingMap
    <2>7. Service!Begin(r, c)
      BY <2>1, <2>4, <2>6 DEF Service!Begin, Service!Nobody, LiveMap, ServingMap
    <2>8. QED
      BY <2>1, <2>7 DEF Service!SvcNext
  <1>3. QED
    BY <1>1, <1>2

LEMMA CookieRefines ==
    ASSUME IInv, NEW r \in Requests, CookieStep(r)
    PROVE  [Service!SvcNext]_(Service!svcVars)
  <1>1. ASSUME NEW ip \in IPs, LanRequest(r, ip)
        PROVE  [Service!SvcNext]_(Service!svcVars)
    <2>1. req[r].cookie = None /\ pc[r] # "serve"
          /\ \A q \in Requests \ {r} : pc'[q] = pc[q]
      BY <1>1 DEF LanRequest, Goto, IInv, TypeOK, KnownLocals, Known, Fresh, Procs
    <2>2. UNCHANGED ServingMap
      BY <1>1, <2>1 DEF LanRequest, ServingMap
    <2>3. QED
      BY <1>1, <2>2 DEF LanRequest, Service!svcVars, LiveMap, ServingMap
  <1>2. CASE CollectExpired(r) \/ DeleteExpired(r)
    BY <1>2, CleanupRefines DEF Procs
  <1>3. CASE UpdateAuthSession(r)
    BY <1>3, UpdateRefines
  <1>4. CASE Logout(r)
    <2>1. Outside(r)
      BY <1>4 DEF Logout, Return, Goto, Outside, IInv, TypeOK, Procs
    <2>2. /\ DOMAIN sessions' = DOMAIN sessions \ {req[r].cookie}
          /\ \A s \in DOMAIN sessions' : sessions'[s] = sessions[s]
      BY <1>4 DEF Logout, DeleteAuthSessions
    <2>3. PICK S \in SUBSET SessionIds : S = {req[r].cookie}
      BY <1>4 DEF Logout, IInv, TypeOK, KnownLocals, Known
    <2>4. /\ UNCHANGED issued
          /\ DOMAIN sessions' = DOMAIN sessions \ S
          /\ \A s \in DOMAIN sessions' : sessions'[s].ip = sessions[s].ip
          /\ \A q \in Requests : SameHandler(q)
      <3>1. \A q \in Requests : SameHandler(q)
        BY <2>1 DEF Outside, SameHandler
      <3>2. QED
        BY <1>4, <2>2, <2>3, <3>1 DEF Logout
    <2>5. Service!Retire(S)
      BY <2>4, RetireStep
    <2>6. QED
      BY <2>5 DEF Service!SvcNext
  <1>5. CASE HandlerDone(r)
    <2>1. pc'[r] = "idle" /\ \A q \in Requests \ {r} : pc'[q] = pc[q] /\ req'[q] = req[q]
      BY <1>5 DEF HandlerDone, Return, Goto, IInv, TypeOK, Procs
    <2>2. ServingMap' = [ServingMap EXCEPT ![r] = <<None, None>>]
      BY <2>1 DEF ServingMap
    <2>3. Service!End(r)
      BY <1>5, <2>2 DEF HandlerDone, Service!End, Service!Nobody, LiveMap, ServingMap
    <2>4. QED
      BY <2>3 DEF Service!SvcNext
  <1>6. CASE \/ \E ip \in IPs, path \in Paths \ {"login"}, s \in SessionIds :
                   CookieRequest(r, ip, path, s)
             \/ Lookup(r) \/ Validate(r) \/ ExtendBearer(r)
    <2>1. UNCHANGED <<sessions, issued>>
      BY <1>6 DEF CookieRequest, Lookup, Validate, ExtendBearer
    <2>2. Outside(r)
      BY <1>6 DEF CookieRequest, Lookup, Validate, ExtendBearer,
                  Return, Goto, Outside, IInv, TypeOK, Procs
    <2>3. QED
      BY <2>1, <2>2, StutterStep DEF Outside, SameHandler, Service!svcVars, LiveMap, ServingMap
  <1>7. QED
    BY <1>1, <1>2, <1>3, <1>4, <1>5, <1>6 DEF CookieStep

\* The store keeps the promises of SessionService: a handler begins only for
\* the owner of a session that is live at that moment.
THEOREM Refinement == Spec => ImplementsSessionService
  <1>1. Init => Service!SvcInit
    BY DEF Init, Service!SvcInit, Service!Nobody, Procs
  <1>2. IInv /\ [Next]_vars => [Service!SvcNext]_(Service!svcVars)
    <2> SUFFICES ASSUME IInv, [Next]_vars
                 PROVE  [Service!SvcNext]_(Service!svcVars)
      OBVIOUS
    <2>1. CASE CleanerStep
      BY <2>1, CleanupRefines DEF CleanerStep, Procs
    <2>2. CASE Tick
      BY <2>2 DEF Tick, Service!svcVars
    <2>3. CASE Restart
      <3>1. LiveMap' = [s \in {} |-> None]
        BY <2>3 DEF Restart, LiveMap
      <3>2. ServingMap' = [r \in Requests |-> <<None, None>>]
        BY <2>3 DEF Restart, ServingMap, Procs
      <3>3. Service!Restarted
        BY <2>3, <3>1, <3>2
           DEF Restart, Service!Restarted, Service!Nobody, LiveMap, ServingMap
      <3>4. QED
        BY <3>3 DEF Service!SvcNext
    <2>4. CASE UNCHANGED vars
      BY <2>4 DEF vars, Service!svcVars
    <2>5. CASE CleanerStops
      <3>1. \A r \in Requests : pc'[r] = pc[r]
        BY <2>5, ProcAssumption DEF CleanerStops, Goto, IInv, TypeOK, Procs
      <3>2. UNCHANGED <<sessions, issued, req>>
        BY <2>5 DEF CleanerStops
      <3>3. UNCHANGED <<LiveMap, ServingMap>>
        BY <3>1, <3>2 DEF LiveMap, ServingMap
      <3>4. QED
        BY <3>2, <3>3 DEF Service!svcVars, LiveMap, ServingMap
    <2>6. QED
      BY <2>1, <2>2, <2>3, <2>4, <2>5, LoginRefines, CookieRefines DEF Next
  <1>3. QED
    BY <1>1, <1>2, Inductive, PTL
       DEF Spec, ImplementsSessionService, Service!SvcSpec

-----------------------------------------------------------------------------
\* The clock never runs back, and neither a stored expiry nor a pending one
\* is ever more than one TTL ahead of it.

LEMMA ClockMonotone ==
    ASSUME IInv, [Next]_vars
    PROVE  clock \in Nat /\ clock' \in Nat /\ clock <= clock'
  <1>1. clock \in Nat
    BY DEF IInv, TypeOK
  <1>2. UNCHANGED clock \/ clock' = clock + 1
    BY DEF Next, LoginStep, CookieStep, CleanerStep, vars, LoginArrives, CheckCapacity,
           InsertSession, UpdateAfterLogin, LanRequest, CookieRequest, CollectExpired,
           DeleteExpired, Lookup, Validate, ExtendBearer, UpdateAuthSession, Logout,
           HandlerDone, CleanerTick, CleanerStops, Tick, Restart
  <1>3. QED
    BY <1>1, <1>2

\* r has not moved: its pending times are still in the past of the clock.
LEMMA PendingStays ==
    ASSUME IInv, HorizonIInv, [Next]_vars, NEW r \in Requests,
           pc'[r] = pc[r], req'[r] = req[r]
    PROVE  PendingPast(r)'
  <1>1. req[r].cur \in Nat
    BY LocalsFields DEF IInv, TypeOK, Procs
  <1>2. Copying(r) => req[r].draft.basic \in Nat /\ req[r].draft.bearer \in Nat
    BY DEF IInv, KnownLocals, Known, Session
  <1>3. QED
    BY <1>1, <1>2, ClockMonotone, NatAssumption DEF HorizonIInv, PendingPast, Copying

\* A store whose entries are old ones or copies from the past stays in bounds.
LEMMA StoreStays ==
    ASSUME IInv, HorizonIInv, [Next]_vars,
           \A s \in DOMAIN sessions' :
              \/ s \in DOMAIN sessions /\ sessions'[s] = sessions[s]
              \/ /\ sessions'[s].basic <= clock + TTL
                 /\ sessions'[s].bearer <= clock + TTL
                 /\ sessions'[s] \in Session
    PROVE  ExpiryHorizon'
  <1> SUFFICES ASSUME NEW s \in DOMAIN sessions'
               PROVE  /\ sessions'[s].basic <= clock' + TTL
                      /\ sessions'[s].bearer <= clock' + TTL
    BY DEF ExpiryHorizon
  <1>1. \A t \in DOMAIN sessions : sessions[t].basic \in Nat /\ sessions[t].bearer \in Nat
    BY DEF IInv, TypeOK, Session
  <1>2. sessions'[s] \in Session
           => sessions'[s].basic \in Nat /\ sessions'[s].bearer \in Nat
    BY DEF Session
  <1>3. QED
    BY <1>1, <1>2, ClockMonotone, NatAssumption DEF HorizonIInv, ExpiryHorizon

\* A step of goroutine p keeps the horizon if p's own pending times do.
LEMMA HorizonStep ==
    ASSUME IInv, HorizonIInv, [Next]_vars, NEW p \in Procs,
           pc' = [pc EXCEPT ![p] = pc'[p]], req' = [req EXCEPT ![p] = req'[p]],
           p \in Requests => PendingPast(p)',
           ExpiryHorizon'
    PROVE  HorizonIInv'
  <1>1. ASSUME NEW r \in Requests
        PROVE  PendingPast(r)'
    <2>1. CASE r = p
      BY <2>1
    <2>2. CASE r # p
      <3>1. pc'[r] = pc[r] /\ req'[r] = req[r]
        BY <2>2 DEF IInv, TypeOK, Procs
      <3>2. QED
        BY <3>1, PendingStays
    <2>3. QED
      BY <2>1, <2>2
  <1>2. QED
    BY <1>1 DEF HorizonIInv

\* Steps after which p neither inserts nor holds a copy.
LEMMA HorizonEasy ==
    ASSUME IInv, HorizonIInv, [Next]_vars, NEW p \in Procs,
           pc' = [pc EXCEPT ![p] = pc'[p]], req' = [req EXCEPT ![p] = req'[p]],
           pc'[p] \notin {"insert", "relogin", "validate", "bearer", "update"},
           \A s \in DOMAIN sessions' :
              s \in DOMAIN sessions /\ sessions'[s] = sessions[s]
    PROVE  HorizonIInv'
  <1>1. ExpiryHorizon'
    BY StoreStays
  <1>2. PendingPast(p)'
    BY DEF PendingPast, Copying
  <1>3. QED
    BY <1>1, <1>2, HorizonStep

\* Writing a pending copy back.
LEMMA HorizonWriteBack ==
    ASSUME IInv, HorizonIInv, [Next]_vars, NEW r \in Requests, Copying(r),
           pc' = [pc EXCEPT ![r] = pc'[r]], req' = [req EXCEPT ![r] = req'[r]],
           pc'[r] \in {"idle", "serve"},
           sessions' = IF Stored(req[r].cookie)
                         THEN Put(req[r].cookie, req[r].draft) ELSE sessions
    PROVE  HorizonIInv'
  <1>1. /\ req[r].draft.basic <= clock + TTL
        /\ req[r].draft.bearer <= clock + TTL
        /\ req[r].draft \in Session
    BY DEF HorizonIInv, PendingPast, IInv, KnownLocals, Known
  <1>2. ExpiryHorizon'
    <2>1. ASSUME NEW s \in DOMAIN sessions'
          PROVE  \/ s \in DOMAIN sessions /\ sessions'[s] = sessions[s]
                 \/ sessions'[s] = req[r].draft
      BY DEF Put, Stored
    <2>2. QED
      BY <1>1, <2>1, StoreStays
  <1>3. PendingPast(r)'
    BY DEF PendingPast, Copying
  <1>4. QED
    BY <1>2, <1>3, HorizonStep DEF Procs

LEMMA HorizonLogin ==
    ASSUME IInv, HorizonIInv, [Next]_vars, NEW r \in Requests, LoginStep(r)
    PROVE  HorizonIInv'
  <1>1. /\ r \in Procs
        /\ pc' = [pc EXCEPT ![r] = pc'[r]] /\ req' = [req EXCEPT ![r] = req'[r]]
    BY DEF LoginStep, LoginArrives, CheckCapacity, InsertSession, UpdateAfterLogin,
           Return, Goto, IInv, TypeOK, Procs
  <1>2. ASSUME NEW ip \in IPs, LoginArrives(r, ip)
        PROVE  HorizonIInv'
    BY <1>1, <1>2, HorizonEasy DEF LoginArrives, Goto, IInv, TypeOK
  <1>3. CASE CheckCapacity(r)
    <2>1. CASE Return(r)
      BY <1>1, <1>3, <2>1, HorizonEasy DEF CheckCapacity, Return, Goto, IInv, TypeOK
    <2>2. CASE ~Return(r)
      <3>1. pc'[r] = "insert" /\ req'[r] = [req[r] EXCEPT !.cur = clock]
        BY <1>1, <1>3, <2>2 DEF CheckCapacity, Goto, IInv, TypeOK
      <3>2. req[r] \in Locals /\ clock \in Nat
        BY <1>1 DEF IInv, TypeOK
      <3>3. req'[r].cur = clock /\ clock' = clock
        BY <1>3, <3>1, <3>2 DEF Locals, CheckCapacity
      <3>4. PendingPast(r)'
        BY <3>1, <3>2, <3>3 DEF PendingPast, Copying
      <3>5. ExpiryHorizon'
        BY <1>3, StoreStays DEF CheckCapacity
      <3>6. QED
        BY <1>1, <3>4, <3>5, HorizonStep
    <2>3. QED
      BY <2>1, <2>2
  <1>4. ASSUME NEW s \in SessionIds, InsertSession(r, s)
        PROVE  HorizonIInv'
    <2> DEFINE new == Expiring(req[r].ip, req[r].cur)
               draft == Expiring(req[r].ip, clock)
    <2>1. req[r].cur \in Nat /\ req[r].cur <= clock /\ clock \in Nat /\ req[r].ip \in IPs
      BY <1>1, <1>4, LocalsFields
         DEF HorizonIInv, PendingPast, InsertSession, IInv, TypeOK, KnownLocals, Known
    <2>2. /\ new.basic <= clock + TTL /\ new.bearer <= clock + TTL
          /\ draft.basic <= clock + TTL /\ draft.bearer <= clock + TTL
      BY <2>1, NatAssumption DEF Expiring
    <2>3. new \in Session
      BY <2>1, ExpiringType
    <2>4. req'[r] = [req[r] EXCEPT !.cookie = s, !.draft = draft] /\ pc'[r] = "relogin"
      BY <1>1, <1>4 DEF InsertSession, Goto, IInv, TypeOK
    <2>5. sessions' = Put(s, new) /\ clock' = clock
      BY <1>4 DEF InsertSession
    <2> HIDE DEF new, draft
    <2>6. req'[r].draft = draft
      BY <1>1, <2>4 DEF IInv, TypeOK, Locals
    <2>7. PendingPast(r)'
      BY <2>2, <2>4, <2>5, <2>6 DEF PendingPast, Copying
    <2>8. ExpiryHorizon'
      <3>1. ASSUME NEW t \in DOMAIN sessions'
            PROVE  \/ t \in DOMAIN sessions /\ sessions'[t] = sessions[t]
                   \/ sessions'[t] = new
        BY <2>5 DEF Put
      <3>2. QED
        BY <2>2, <2>3, <3>1, StoreStays
    <2>9. QED
      BY <1>1, <2>7, <2>8, HorizonStep
  <1>5. CASE UpdateAfterLogin(r)
    BY <1>1, <1>5, HorizonWriteBack
       DEF UpdateAfterLogin, Copying, Return, Goto, IInv, TypeOK
  <1>6. QED
    BY <1>2, <1>3, <1>4, <1>5 DEF LoginStep

LEMMA HorizonCookie ==
    ASSUME IInv, HorizonIInv, [Next]_vars, NEW r \in Requests, CookieStep(r)
    PROVE  HorizonIInv'
  <1>1. /\ r \in Procs
        /\ pc' = [pc EXCEPT ![r] = pc'[r]] /\ req' = [req EXCEPT ![r] = req'[r]]
    BY DEF CookieStep, LanRequest, CookieRequest, CollectExpired, DeleteExpired,
           Lookup, Validate, ExtendBearer, UpdateAuthSession, Logout, HandlerDone,
           Return, Goto, IInv, TypeOK, Procs
  <1>2. CASE Lookup(r) /\ Stored(req[r].cookie)
    <2> DEFINE d == sessions[req[r].cookie]
               l == [req[r] EXCEPT !.draft = d]
    <2>1. req[r] \in Locals /\ clock \in Nat /\ d \in Session
      BY <1>1, <1>2 DEF IInv, TypeOK, Stored
    <2>2. d.basic <= clock + TTL /\ d.bearer <= clock + TTL
      BY <1>2 DEF HorizonIInv, ExpiryHorizon, Stored
    <2>3. req'[r] = [l EXCEPT !.cur = clock] /\ pc'[r] = "validate"
      BY <1>1, <1>2 DEF Lookup, Goto, IInv, TypeOK
    <2>4. clock' = clock /\ sessions' = sessions
      BY <1>2 DEF Lookup
    <2> HIDE DEF d
    <2>5. l \in Locals /\ l.draft = d
      BY <2>1, SetDraft
    <2> HIDE DEF l
    <2>6. req'[r].draft = d
      BY <2>1, <2>3, <2>5 DEF Locals
    <2>7. PendingPast(r)'
      BY <2>2, <2>3, <2>4, <2>6 DEF PendingPast, Copying
    <2>8. QED
      BY <1>1, <2>4, <2>7, HorizonStep, StoreStays
  <1>3. CASE Validate(r) /\ pc'[r] = "bearer"
    <2> DEFINE d == [req[r].draft EXCEPT !.basic = clock + TTL]
    <2>1. req[r] \in Locals /\ clock \in Nat /\ req[r].draft \in Session
      BY <1>1, <1>3 DEF IInv, TypeOK, KnownLocals, Known, Copying, Validate
    <2>2. req'[r] = [req[r] EXCEPT !.draft = d]
      BY <1>1, <1>3 DEF Validate, Return, Goto, IInv, TypeOK
    <2>3. clock' = clock /\ sessions' = sessions
      BY <1>3 DEF Validate
    <2>4. /\ d.basic = clock + TTL
          /\ d.bearer = req[r].draft.bearer
          /\ d \in Session
      BY <2>1, NatAssumption DEF Session
    <2>5. d.basic <= clock + TTL /\ d.bearer <= clock + TTL
      BY <1>3, <2>1, <2>4, NatAssumption DEF HorizonIInv, PendingPast, Copying, Validate
    <2> HIDE DEF d
    <2>6. req'[r].draft = d
      BY <2>1, <2>2, <2>4, SetDraft
    <2>7. PendingPast(r)'
      BY <1>3, <2>3, <2>5, <2>6 DEF PendingPast, Copying
    <2>8. QED
      BY <1>1, <2>3, <2>7, HorizonStep, StoreStays
  <1>4. CASE ExtendBearer(r)
    <2> DEFINE d == [req[r].draft EXCEPT !.bearer = clock + TTL]
    <2>1. req[r] \in Locals /\ clock \in Nat /\ req[r].draft \in Session
      BY <1>1, <1>4 DEF IInv, TypeOK, KnownLocals, Known, Copying, ExtendBearer
    <2>2. req'[r] = [req[r] EXCEPT !.draft = d] /\ pc'[r] = "update"
      BY <1>1, <1>4 DEF ExtendBearer, Goto, IInv, TypeOK
    <2>3. clock' = clock /\ sessions' = sessions
      BY <1>4 DEF ExtendBearer
    <2>4. /\ d.basic = req[r].draft.basic
          /\ d.bearer = clock + TTL
          /\ d \in Session
      BY <2>1, NatAssumption DEF Session
    <2>5. d.basic <= clock + TTL /\ d.bearer <= clock + TTL
      BY <1>4, <2>1, <2>4, NatAssumption DEF HorizonIInv, PendingPast, Copying, ExtendBearer
    <2> HIDE DEF d
    <2>6. req'[r].draft = d
      BY <2>1, <2>2, <2>4, SetDraft
    <2>7. PendingPast(r)'
      BY <2>2, <2>3, <2>5, <2>6 DEF PendingPast, Copying
    <2>8. QED
      BY <1>1, <2>3, <2>7, HorizonStep, StoreStays
  <1>5. CASE UpdateAuthSession(r)
    BY <1>1, <1>5, HorizonWriteBack
       DEF UpdateAuthSession, Copying, Return, Goto, IInv, TypeOK
  <1>6. CASE /\ ~UpdateAuthSession(r) /\ ~ExtendBearer(r)
             /\ ~(Validate(r) /\ pc'[r] = "bearer")
             /\ ~(Lookup(r) /\ Stored(req[r].cookie))
    <2>1. pc'[r] \notin {"insert", "relogin", "validate", "bearer", "update"}
      BY <1>1, <1>6 DEF CookieStep, LanRequest, CookieRequest, CollectExpired,
         DeleteExpired, Lookup, Validate, Logout, HandlerDone, Return, Goto,
         IInv, TypeOK, Procs
    <2>2. \A s \in DOMAIN sessions' : s \in DOMAIN sessions /\ sessions'[s] = sessions[s]
      BY <1>6 DEF CookieStep, LanRequest, CookieRequest, CollectExpired,
         DeleteExpired, Lookup, Validate, Logout, HandlerDone, DeleteAuthSessions
    <2>3. QED
      BY <1>1, <2>1, <2>2, HorizonEasy
  <1>7. QED
    BY <1>2, <1>3, <1>4, <1>5, <1>6

\* No renewal, however it races, lifts an expiry beyond one TTL from now.
THEOREM HorizonHolds == Spec => []ExpiryHorizon
  <1>1. Init => HorizonIInv
    BY DEF Init, HorizonIInv, ExpiryHorizon, PendingPast, Copying, Procs
  <1>2. IInv /\ HorizonIInv /\ [Next]_vars => HorizonIInv'
    <2> SUFFICES ASSUME IInv, HorizonIInv, [Next]_vars
                 PROVE  HorizonIInv'
      OBVIOUS
    <2>1. CASE CleanerStep
      <3>1. /\ Cleaner \in Procs /\ Cleaner \notin Requests
            /\ pc' = [pc EXCEPT ![Cleaner] = pc'[Cleaner]]
            /\ req' = [req EXCEPT ![Cleaner] = req'[Cleaner]]
        BY <2>1, ProcAssumption DEF CleanerStep, CleanerTick, CollectExpired,
           DeleteExpired, Return, Goto, IInv, TypeOK, Procs
      <3>2. \A s \in DOMAIN sessions' : s \in DOMAIN sessions /\ sessions'[s] = sessions[s]
        BY <2>1 DEF CleanerStep, CleanerTick, CollectExpired, DeleteExpired,
           DeleteAuthSessions
      <3>3. QED
        BY <3>1, <3>2, HorizonStep, StoreStays
    <2>2. CASE Tick \/ UNCHANGED vars
      <3>1. UNCHANGED <<sessions, pc, req>>
        BY <2>2 DEF Tick, vars
      <3>2. QED
        BY <3>1, PendingStays, StoreStays DEF HorizonIInv
    <2>3. CASE Restart
      BY <2>3 DEF Restart, HorizonIInv, ExpiryHorizon, PendingPast, Copying, Procs
    <2>4. CASE CleanerStops
      <3>1. /\ Cleaner \in Procs /\ Cleaner \notin Requests
            /\ pc' = [pc EXCEPT ![Cleaner] = pc'[Cleaner]]
            /\ req' = [req EXCEPT ![Cleaner] = req'[Cleaner]]
        BY <2>4, ProcAssumption DEF CleanerStops, Goto, IInv, TypeOK, Procs
      <3>2. QED
        BY <2>4, <3>1, HorizonStep, StoreStays DEF CleanerStops
    <2>5. QED
      BY <2>1, <2>2, <2>3, <2>4, HorizonLogin, HorizonCookie DEF Next
  <1>3. HorizonIInv => ExpiryHorizon
    BY DEF HorizonIInv
  <1>4. QED
    BY <1>1, <1>2, <1>3, Inductive, PTL DEF Spec
=============================================================================
