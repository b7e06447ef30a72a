------------------------------ MODULE Realtime ------------------------------
(***************************************************************************)
(* What uit-api knows of its clients at run time: the ClientRealtimeData   *)
(* map (appstate/realtime_helpers.go), the live_os_data table it is loaded *)
(* from and written back to, the handlers that update it and the two       *)
(* goroutines that run writeLastHeardToDB.  Every critical section of the  *)
(* map's mutex is one step, and so is every database transaction, but for  *)
(* the ones that save a last_heard: their UPDATE locks the row and their   *)
(* COMMIT, under a context of its own, is a later step.                    *)
(***************************************************************************)
EXTENDS Naturals, FiniteSets

CONSTANTS Requests,         \* goroutines serving POST /api/client/last_heard
          Tags,             \* valid tag numbers
          None,             \* no tag
          LastHeardTimeout, \* 20 seconds: longer silence is offline
          Skew,             \* 1 minute: how far ahead a client's clock may be
          MaxTime           \* bound of the model's clock

\* writeLastHeardToDB runs in the background and once more on shutdown.
Writers == {"background", "shutdown"}

ASSUME TagAssumption  == None \notin Tags
ASSUME TimeAssumption == LastHeardTimeout \in Nat /\ Skew \in Nat /\ MaxTime \in Nat

VARIABLES realtime, \* ClientRealtimeData, a partial function of tags
          ids,      \* tags with a row in the table ids
          liveOS,   \* live_os_data: tag -> last_heard, 0 for NULL
          clock,    \* time.Now()
          at, msg,  \* where each handler is, and the request it serves
          todo,     \* todo[w]: the part of w's snapshot it has yet to write
          inHand,   \* inHand[w]: whose row w's open transaction has updated
          contact,  \* contact[t]: when a message of t was last accepted
          unwritten \* tags the shutdown's pass could not write

rvars == <<realtime, ids, liveOS, clock, at, msg, todo, inHand, contact, unwritten>>
db    == <<ids, liveOS>>

\* A JobQueueRealtimeDTO.  Time 0 is the zero time.Time; uuid tells whether
\* ClientUUID is known, image whether LiveImageBytes is not empty.
Client == [uuid : BOOLEAN, heard : Nat, inDB : BOOLEAN, image : BOOLEAN]
Zero   == [uuid |-> FALSE, heard |-> 0, inDB |-> FALSE, image |-> FALSE]

Message == [tag : Tags \cup {None}, heard : Nat]
NoMsg   == [tag |-> None, heard |-> 0]

RTypeOK ==
    /\ DOMAIN realtime \subseteq Tags /\ realtime \in [DOMAIN realtime -> Client]
    /\ ids \subseteq Tags
    /\ DOMAIN liveOS \subseteq ids /\ liveOS \in [DOMAIN liveOS -> Nat]
    /\ clock \in Nat
    /\ at \in [Requests -> {"idle", "lookup", "resolve", "store"}]
    /\ msg \in [Requests -> Message]
    /\ DOMAIN todo = Writers
    /\ \A w \in Writers : DOMAIN todo[w] \subseteq Tags
                          /\ todo[w] \in [DOMAIN todo[w] -> Nat]
    /\ inHand \in [Writers -> Tags \cup {None}]
    /\ contact \in [Tags -> Nat]
    /\ unwritten \subseteq Tags

-----------------------------------------------------------------------------
Empty         == [t \in {} |-> 0]
With(f, x, v) == [y \in DOMAIN f \cup {x} |-> IF y = x THEN v ELSE f[y]]
Without(f, S) == [y \in DOMAIN f \ S |-> f[y]]

\* clientData := ClientRealtimeData[tag]: a missing tag gives the zero value.
Data(t) == IF t \in DOMAIN realtime THEN realtime[t] ELSE Zero

\* isClientOnline.
Online(d, now) == d.heard # 0 /\ now <= d.heard + LastHeardTimeout

\* Fault: the flag survives an update of the value it speaks of.
HeardFlagKept(d, v) == [d EXCEPT !.heard = v]

\* UpdateClientLastHeardInAppState: whatever was heard before is overwritten,
\* newer or not, and the database no longer holds the current value.
HeardAt(d, v) == [d EXCEPT !.heard = v, !.inDB = FALSE]

\* Fault: a client's clock is trusted.
AnyTime(v) == v > 0

\* SetClientLastHeard refuses zero times and times too far in the future.
Acceptable(v) == v > 0 /\ v <= clock + Skew

\* GetAllLiveOSData and ReplaceClientRealtimeData: rows without a last_heard
\* are skipped, the others come with LastHeardUpdatedInDB = TRUE.
FromDB == [t \in {u \in DOMAIN liveOS : liveOS[u] # 0} |->
              [uuid |-> TRUE, heard |-> liveOS[t], inDB |-> TRUE, image |-> FALSE]]

\* What a pass of writeLastHeardToDB takes from the map.
Unsaved == {t \in DOMAIN realtime : realtime[t].heard # 0 /\ ~realtime[t].inDB}

-----------------------------------------------------------------------------
\* SetClientLastHeard.

LastHeardArrives(r, t, v) ==
    /\ at[r] = "idle"
    /\ Acceptable(v)
    /\ at' = [at EXCEPT ![r] = "lookup"]
    /\ msg' = [msg EXCEPT ![r] = [tag |-> t, heard |-> v]]
    /\ contact' = [contact EXCEPT ![t] = clock]
    /\ UNCHANGED <<realtime, db, clock, todo, inHand, unwritten>>

\* GetRealtimeClientUUID.
LookupUUID(r) ==
    /\ at[r] = "lookup"
    /\ at' = [at EXCEPT ![r] = IF Data(msg[r].tag).uuid THEN "store" ELSE "resolve"]
    /\ UNCHANGED <<realtime, db, clock, msg, todo, inHand, contact, unwritten>>

\* GetClientUUIDByTag and, for a client the database knows, SetRealtimeClientUUID.
ResolveUUID(r) ==
    /\ at[r] = "resolve"
    /\ msg[r].tag \in ids
    /\ realtime' = With(realtime, msg[r].tag, [Data(msg[r].tag) EXCEPT !.uuid = TRUE])
    /\ at' = [at EXCEPT ![r] = "store"]
    /\ UNCHANGED <<db, clock, msg, todo, inHand, contact, unwritten>>

\* The client is not known, or the database does not answer: an error response.
ResolveFails(r) ==
    /\ at[r] = "resolve"
    /\ at' = [at EXCEPT ![r] = "idle"]
    /\ msg' = [msg EXCEPT ![r] = NoMsg]
    /\ UNCHANGED <<realtime, db, clock, todo, inHand, contact, unwritten>>

\* UpdateClientLastHeardInAppState, then 200.
StoreLastHeard(r) ==
    /\ at[r] = "store"
    /\ realtime' = With(realtime, msg[r].tag, HeardAt(Data(msg[r].tag), msg[r].heard))
    /\ at' = [at EXCEPT ![r] = "idle"]
    /\ msg' = [msg EXCEPT ![r] = NoMsg]
    /\ UNCHANGED <<db, clock, todo, inHand, contact, unwritten>>

-----------------------------------------------------------------------------
\* Handlers that consist of one critical section or one transaction.

\* InitClient: ON CONFLICT DO NOTHING.
InitClient(t) ==
    /\ ids' = ids \cup {t}
    /\ UNCHANGED <<realtime, liveOS, clock, at, msg, todo, inHand, contact, unwritten>>

\* Fault: the row is written without a look at who it is for.
ReportUnknown(t) ==
    /\ liveOS' = IF t \in DOMAIN liveOS THEN liveOS ELSE With(liveOS, t, 0)
    /\ UNCHANGED <<realtime, ids, clock, at, msg, todo, inHand, contact, unwritten>>

\* The memory, CPU and network handlers upsert a live_os_data row, whose
\* last_heard stays NULL when the row is new.
ReportUsage(t) ==
    /\ t \in ids
    /\ liveOS' = IF t \in DOMAIN liveOS THEN liveOS ELSE With(liveOS, t, 0)
    /\ UNCHANGED <<realtime, ids, clock, at, msg, todo, inHand, contact, unwritten>>

\* SetClientUptime: the map gets an entry for any valid tag.
SetClientUptime(t) ==
    /\ realtime' = With(realtime, t, Data(t))
    /\ UNCHANGED <<db, clock, at, msg, todo, inHand, contact, unwritten>>

\* UploadLiveImage: UpdateLiveImageBytes.
UploadLiveImage(t) ==
    /\ realtime' = With(realtime, t, [Data(t) EXCEPT !.image = TRUE])
    /\ UNCHANGED <<db, clock, at, msg, todo, inHand, contact, unwritten>>

\* ClearOfflineLiveImageBytes.
ClearOfflineLiveImageBytes ==
    /\ realtime' = [t \in DOMAIN realtime |->
          [realtime[t] EXCEPT !.image = @ /\ Online(realtime[t], clock)]]
    /\ UNCHANGED <<db, clock, at, msg, todo, inHand, contact, unwritten>>

-----------------------------------------------------------------------------
\* writeLastHeardToDB.

Idle(w) == DOMAIN todo[w] = {}

\* Only what the shutdown's pass fails to write is lost for good: the map of a
\* running process still has it.
Failed(w, S) == unwritten' = IF w = "shutdown" THEN unwritten \cup S ELSE unwritten

Snapshot(w) ==
    /\ Idle(w)
    /\ todo' = [todo EXCEPT ![w] = [t \in Unsaved |-> realtime[t].heard]]
    /\ unwritten' = IF w = "shutdown" THEN {} ELSE unwritten
    /\ UNCHANGED <<realtime, db, clock, at, msg, inHand, contact>>

\* UpdateClientLastHeard up to its UPDATE, which needs a row and waits for a
\* transaction that has updated it already.
UpdateClientLastHeard(w, t) ==
    /\ inHand[w] = None
    /\ t \in DOMAIN todo[w] \cap DOMAIN liveOS
    /\ \A v \in Writers : inHand[v] # t
    /\ inHand' = [inHand EXCEPT ![w] = t]
    /\ UNCHANGED <<realtime, db, clock, at, msg, todo, contact, unwritten>>

\* There is no row, the database fails, or the 5 seconds are over, perhaps
\* while waiting for the row: cleanupPGXTx rolls back.
UpdateFails(w, t) ==
    /\ inHand[w] = None
    /\ t \in DOMAIN todo[w]
    /\ todo' = [todo EXCEPT ![w] = Without(@, {t})]
    /\ Failed(w, {t})
    /\ UNCHANGED <<realtime, db, clock, at, msg, inHand, contact>>

\* Fault: a COMMIT that fails leaves the transaction open.
CommitLeaksTransaction(w, t) ==
    /\ inHand[w] = t
    /\ t \in DOMAIN todo[w]
    /\ \/ /\ liveOS' = With(liveOS, t, todo[w][t])
          /\ inHand' = [inHand EXCEPT ![w] = None]
          /\ UNCHANGED unwritten
       \/ Failed(w, {t}) /\ UNCHANGED <<liveOS, inHand>>
    /\ todo' = [todo EXCEPT ![w] = Without(@, {t})]
    /\ UNCHANGED <<realtime, ids, clock, at, msg, contact>>

\* cleanupPGXTx commits under a context of its own, whatever became of the
\* pass's.  The COMMIT may fail, or its answer be lost; LastHeardUpdatedInDB
\* of the map entry stays as it is in any case.
CommitLastHeard(w, t) ==
    /\ inHand[w] = t
    /\ \/ liveOS' = With(liveOS, t, todo[w][t]) /\ UNCHANGED unwritten
       \/ liveOS' \in {liveOS, With(liveOS, t, todo[w][t])} /\ Failed(w, {t})
    /\ todo' = [todo EXCEPT ![w] = Without(@, {t})]
    /\ inHand' = [inHand EXCEPT ![w] = None]
    /\ UNCHANGED <<realtime, ids, clock, at, msg, contact>>

\* The context of the pass ends: what is left of the snapshot is dropped.
StopWriting(w) ==
    /\ ~Idle(w)
    /\ inHand[w] = None
    /\ todo' = [todo EXCEPT ![w] = Empty]
    /\ Failed(w, DOMAIN todo[w])
    /\ UNCHANGED <<realtime, db, clock, at, msg, inHand, contact>>

-----------------------------------------------------------------------------
TimePasses ==
    /\ clock < MaxTime
    /\ clock' = clock + 1
    /\ UNCHANGED <<realtime, db, at, msg, todo, inHand, contact, unwritten>>

\* Fault: the process starts without what the database has saved.
LoadNothing ==
    /\ realtime' = Empty
    /\ UNCHANGED <<db, clock, at, msg, todo, inHand, contact, unwritten>>

\* The process starts: replaceAllRealtimeDataFromDB.
LoadFromDB ==
    /\ realtime' = FromDB
    /\ UNCHANGED <<db, clock, at, msg, todo, inHand, contact, unwritten>>

\* The process ends; the database, which rolls back what was not committed, is
\* all that is left.
LoseMemory ==
    /\ realtime' = Empty
    /\ at' = [r \in Requests |-> "idle"]
    /\ msg' = [r \in Requests |-> NoMsg]
    /\ todo' = [w \in Writers |-> Empty]
    /\ inHand' = [w \in Writers |-> None]
    /\ UNCHANGED <<db, clock, contact, unwritten>>

\* An installation whose clients are not yet known.
RInit ==
    /\ realtime = Empty /\ ids = {} /\ liveOS = Empty
    /\ clock = 1
    /\ at = [r \in Requests |-> "idle"]
    /\ msg = [r \in Requests |-> NoMsg]
    /\ todo = [w \in Writers |-> Empty]
    /\ inHand = [w \in Writers |-> None]
    /\ contact = [t \in Tags |-> 0]
    /\ unwritten = {}

\* Steps of client requests.
Arrival ==
    \/ \E r \in Requests, t \in Tags, v \in 1..(MaxTime + Skew + 1) : LastHeardArrives(r, t, v)
    \/ \E t \in Tags : InitClient(t) \/ ReportUsage(t) \/ SetClientUptime(t)
                       \/ UploadLiveImage(t)

HandlerStep ==
    \E r \in Requests : \/ LookupUUID(r) \/ ResolveUUID(r) \/ ResolveFails(r)
                        \/ StoreLastHeard(r)

\* A pass of the writers; both may be under way at once.
WriterStep ==
    \E w \in Writers : \/ Snapshot(w) \/ StopWriting(w)
                       \/ \E t \in Tags : \/ UpdateClientLastHeard(w, t)
                                          \/ UpdateFails(w, t) \/ CommitLastHeard(w, t)

\* The process ends at any moment and is started again.
Restart ==
    /\ realtime' = FromDB
    /\ at' = [r \in Requests |-> "idle"]
    /\ msg' = [r \in Requests |-> NoMsg]
    /\ todo' = [w \in Writers |-> Empty]
    /\ inHand' = [w \in Writers |-> None]
    /\ UNCHANGED <<db, clock, contact, unwritten>>

RNext ==
    \/ Arrival \/ HandlerStep \/ WriterStep
    \/ ClearOfflineLiveImageBytes \/ TimePasses \/ Restart

\* The component on its own; UitApi says which of its steps happen when.
RSpec == RInit /\ [][RNext]_rvars

-----------------------------------------------------------------------------
\* LastHeardUpdatedInDB never lies: an entry that carries it is skipped by
\* writeLastHeardToDB, and the database does hold its value
\* (background-processes.go:267, realtime_helpers.go:141).
FlagTruthful ==
    \A t \in DOMAIN realtime :
        realtime[t].inDB => t \in DOMAIN liveOS /\ liveOS[t] = realtime[t].heard

\* A client that counts as online made contact not long ago, even if its
\* clock runs ahead, its messages overtake each other, or the server was
\* restarted with what it had saved (post.go:527, realtime_helpers.go:168).
OnlineIsRecent ==
    \A t \in DOMAIN realtime :
        Online(realtime[t], clock) => clock <= contact[t] + Skew + LastHeardTimeout

-----------------------------------------------------------------------------
\* The inductive invariants behind the theorems of RealtimeProofs.

\* A handler past its checks knows the tag it serves, and a transaction in hand
\* is about a row, and a value its pass has yet to write.
TypeIInv ==
    /\ RTypeOK
    /\ \A r \in Requests : at[r] # "idle" => msg[r].tag \in Tags
    /\ \A w \in Writers :
          inHand[w] # None => inHand[w] \in DOMAIN todo[w] \cap DOMAIN liveOS

\* What a pass has yet to write belongs to entries that do not claim to be
\* saved, so writing it cannot make a claim false.
Pending == \A w \in Writers : \A t \in DOMAIN todo[w] :
              t \in DOMAIN realtime /\ ~realtime[t].inDB

FlagIInv == FlagTruthful /\ Pending

\* Wherever a last_heard value of t is kept, it is not far ahead of the moment
\* t last called.
Plausible(t, v) == v <= contact[t] + Skew

RecentIInv ==
    /\ \A t \in Tags : contact[t] <= clock
    /\ \A r \in Requests : at[r] # "idle" => Plausible(msg[r].tag, msg[r].heard)
    /\ \A t \in DOMAIN realtime : Plausible(t, realtime[t].heard)
    /\ \A t \in DOMAIN liveOS : Plausible(t, liveOS[t])
    /\ \A w \in Writers : \A t \in DOMAIN todo[w] : Plausible(t, todo[w][t])
=============================================================================
