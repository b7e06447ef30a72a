--------------------------- MODULE SessionService ---------------------------
(***************************************************************************)
(* What the web-session store of uit-api promises, without its clocks,     *)
(* snapshots or locks.  A session is issued once to one client address;    *)
(* a handler may begin only for the address that owns a session live at    *)
(* that very moment; a session that is gone never comes back.              *)
(* AuthSessions.tla is shown to implement this specification.              *)
(***************************************************************************)
CONSTANTS Requests,    \* concurrent HTTP requests
          SessionIds,  \* values rand.Text() may return
          IPs,         \* client addresses
          None         \* "no session" and "no address"

VARIABLES live,        \* session id -> owning address, for the live sessions
          used,        \* ids issued so far
          serving      \* serving[r]: the session and address r's handler runs for

svcVars == <<live, used, serving>>

Nobody == <<None, None>>

SvcInit ==
    /\ live = [s \in {} |-> None]
    /\ used = {}
    /\ serving = [r \in Requests |-> Nobody]

\* A login hands out an id nobody has seen before.
Issue(s, ip) ==
    /\ s \notin used
    /\ used' = used \cup {s}
    /\ live' = [t \in DOMAIN live \cup {s} |-> IF t = s THEN ip ELSE live[t]]
    /\ UNCHANGED serving

\* Logout or expiry: sessions go, whatever handlers are still running.
Retire(S) ==
    /\ live' = [t \in DOMAIN live \ S |-> live[t]]
    /\ UNCHANGED <<used, serving>>

\* A handler begins on behalf of the owner of a live session.
Begin(r, s) ==
    /\ serving[r] = Nobody
    /\ s \in DOMAIN live
    /\ serving' = [serving EXCEPT ![r] = <<s, live[s]>>]
    /\ UNCHANGED <<live, used>>

End(r) ==
    /\ serving' = [serving EXCEPT ![r] = Nobody]
    /\ UNCHANGED <<live, used>>

\* The process restarts: the store is memory only, the issued ids stay issued.
Restarted ==
    /\ live' = [s \in {} |-> None]
    /\ serving' = [r \in Requests |-> Nobody]
    /\ UNCHANGED used

SvcNext ==
    \/ \E s \in SessionIds, ip \in IPs : Issue(s, ip)
    \/ \E S \in SUBSET SessionIds : Retire(S)
    \/ \E r \in Requests, s \in SessionIds : Begin(r, s)
    \/ \E r \in Requests : End(r)
    \/ Restarted

SvcSpec == SvcInit /\ [][SvcNext]_svcVars
=============================================================================
