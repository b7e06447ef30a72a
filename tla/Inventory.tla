----------------------------- MODULE Inventory -----------------------------
(***************************************************************************)
(* Updates of the inventory under concurrency: the pgx pool with its fixed *)
(* number of connections, READ COMMITTED transactions and their row locks, *)
(* the handlers InsertInventoryUpdate (four transactions per request) and  *)
(* BulkUpdateInventoryLocation (one per client), and the functions that    *)
(* look a client up on a second connection inside a transaction.           *)
(* The database/sql pool serves transactions that never wait for a second  *)
(* connection and is left out; each of those is one step.                  *)
(***************************************************************************)
EXTENDS Naturals, FiniteSets

CONSTANTS Updates,  \* requests of POST /api/inventory/update_client_data
          Bulks,    \* requests of POST /api/inventory/bulk_update_location
          Lookups,  \* UpdateClientLastHeard, UpdateClientBatteryChargePcnt,
                    \* UpsertClientCPUMHz, DeleteOSInfoByTagnumber
          Tags,     \* valid tag numbers
          None,     \* no request, no tag
          PoolSize  \* poolConfig.MaxConns, 30

Requests == Updates \cup Bulks \cup Lookups

ASSUME KindAssumption == /\ Updates \cap Bulks = {} /\ Updates \cap Lookups = {}
                         /\ Bulks \cap Lookups = {}
                         /\ IsFiniteSet(Requests)
ASSUME NoneAssumption == None \notin Requests \cup Tags
ASSUME PoolAssumption == PoolSize \in Nat \ {0}

VARIABLES ids,       \* tags with a committed row in the table ids
          inserted,  \* updates whose transaction holds an uncommitted row of ids
          location,  \* location[t]: which request wrote the place, and the rest
          holder,    \* holder[t]: the transaction that has locked t's location row
          hardware, health, \* who wrote t's row last, None: no row
          checkout,  \* checkout[t]: the updates with a row in checkout_log
          free,      \* idle connections of the pool
          pc, tag,   \* where each request is, and the client it works on
          left,      \* tags a bulk request has yet to come to
          copy,      \* the rest of the row as a bulk request's SELECT saw it
          before     \* before[r]: updates that had ended when r arrived

vars == <<ids, inserted, location, holder, hardware, health, checkout, free, pc, tag,
          left, copy, before>>
tables == <<location, hardware, health, checkout>>

Writer  == Requests \cup {None}
TxSteps == {"insert", "lookup", "scan", "serial", "write", "commit"}
Steps   == {"new", "begin", "hardware", "health", "checkout", "next", "copied",
            "ok", "failed"} \cup TxSteps

TypeOK ==
    /\ ids \subseteq Tags
    /\ inserted \subseteq Updates
    /\ location \in [Tags -> [place : Writer, rest : Writer]]
    /\ holder \in [Tags -> Writer]
    /\ hardware \in [Tags -> Writer] /\ health \in [Tags -> Writer]
    /\ checkout \in [Tags -> SUBSET Requests]
    /\ free \in 0..PoolSize
    /\ pc \in [Requests -> Steps]
    /\ tag \in [Requests -> Tags \cup {None}]
    /\ left \in [Requests -> SUBSET Tags]
    /\ copy \in [Requests -> Writer]
    /\ before \in [Requests -> SUBSET Requests]

-----------------------------------------------------------------------------
InTx(r)  == pc[r] \in TxSteps
Ended(r) == pc[r] \in {"ok", "failed"}
Goto(r, l) == pc' = [pc EXCEPT ![r] = l]

\* The transaction of r is over: its locks and uncommitted rows are gone.
Release(r) ==
    /\ holder' = [t \in Tags |-> IF holder[t] = r THEN None ELSE holder[t]]
    /\ inserted' = inserted \ {r}

\* A request comes in; a bulk request brings several tags.
Arrives(r) ==
    /\ pc[r] = "new"
    /\ IF r \in Bulks
         THEN /\ \E S \in (SUBSET Tags) \ {{}} : left' = [left EXCEPT ![r] = S]
              /\ Goto(r, "next")
              /\ UNCHANGED tag
         ELSE /\ \E t \in Tags : tag' = [tag EXCEPT ![r] = t]
              /\ Goto(r, "begin")
              /\ UNCHANGED left
    /\ before' = [before EXCEPT ![r] = {q \in Updates \cup Bulks : Ended(q)}]
    /\ UNCHANGED <<ids, inserted, tables, holder, free, copy>>

\* Fault: the pool opens one connection too many.
BeginUncounted(r) ==
    /\ pc[r] = "begin"
    /\ free' = free - 1
    /\ Goto(r, IF r \in Updates THEN "insert" ELSE "lookup")
    /\ UNCHANGED <<ids, inserted, tables, holder, tag, left, copy, before>>

\* pgxPool.BeginTx waits for a free connection.
Begin(r) ==
    /\ pc[r] = "begin"
    /\ free > 0
    /\ free' = free - 1
    /\ Goto(r, IF r \in Updates THEN "insert" ELSE "lookup")
    /\ UNCHANGED <<ids, inserted, tables, holder, tag, left, copy, before>>

\* INSERT INTO ids ... ON CONFLICT (tagnumber) DO NOTHING: waits for whoever
\* has inserted the same tag and is still undecided.
InsertIds(r) ==
    /\ pc[r] = "insert"
    /\ \A q \in inserted : tag[q] # tag[r]
    /\ inserted' = IF tag[r] \in ids THEN inserted ELSE inserted \cup {r}
    /\ Goto(r, "lookup")
    /\ UNCHANGED <<ids, tables, holder, free, tag, left, copy, before>>

\* GetClientUUIDByTag(ctx, pgxPool, tag): a second connection of the pool.
Lookup(r) ==
    /\ pc[r] = "lookup"
    /\ free > 0
    /\ free' = free - 1
    /\ Goto(r, "scan")
    /\ UNCHANGED <<ids, inserted, tables, holder, tag, left, copy, before>>

\* Fault: the connection of the transaction is not given back when no client
\* is found.
ScanLeaks(r) ==
    /\ pc[r] = "scan"
    /\ free' = free + 1
    /\ IF tag[r] \in ids
         THEN /\ Goto(r, IF r \in Updates THEN "write" ELSE "commit")
              /\ UNCHANGED <<inserted, holder>>
         ELSE /\ Goto(r, "failed")
              /\ Release(r)
    /\ UNCHANGED <<ids, tables, tag, left, copy, before>>

\* It sees committed rows only, and gives its connection back.  Without a row
\* the transaction is rolled back.
Scan(r) ==
    /\ pc[r] = "scan"
    /\ IF tag[r] \in ids
         THEN /\ free' = free + 1
              /\ \/ r \in Updates /\ Goto(r, "write")
                 \/ r \in Lookups /\ (Goto(r, "commit") \/ Goto(r, "serial"))
              /\ UNCHANGED <<inserted, holder>>
         ELSE /\ free' = free + 2
              /\ Goto(r, "failed")
              /\ Release(r)
    /\ UNCHANGED <<ids, tables, tag, left, copy, before>>

\* DeleteOSInfoByTagnumber looks the client up by its serial number as well,
\* on a connection it takes and gives back with nothing to wait for in between.
LookupSerial(r) ==
    /\ pc[r] = "serial"
    /\ free > 0
    /\ Goto(r, "commit")
    /\ UNCHANGED <<ids, inserted, tables, holder, free, tag, left, copy, before>>

\* INSERT INTO locations ... ON CONFLICT (client_uuid) DO UPDATE locks the row.
WriteLocation(r) ==
    /\ pc[r] = "write"
    /\ holder[tag[r]] = None
    /\ holder' = [holder EXCEPT ![tag[r]] = r]
    /\ Goto(r, "commit")
    /\ UNCHANGED <<ids, inserted, tables, free, tag, left, copy, before>>

\* cleanupPGXTx commits.
Commit(r) ==
    /\ pc[r] = "commit"
    /\ free' = free + 1
    /\ Release(r)
    /\ IF r \in Updates
         THEN /\ location' = [location EXCEPT ![tag[r]] = [place |-> r, rest |-> r]]
              /\ ids' = ids \cup {tag[q] : q \in inserted \cap {r}}
              /\ Goto(r, "hardware")
         ELSE /\ Goto(r, "ok")
              /\ UNCHANGED <<location, ids>>
    /\ UNCHANGED <<hardware, health, checkout, tag, left, copy, before>>

-----------------------------------------------------------------------------
\* The other three transactions of InsertInventoryUpdate, one statement each.

UpdateHardware(r) ==
    /\ pc[r] = "hardware"
    /\ hardware' = [hardware EXCEPT ![tag[r]] = r]
    /\ Goto(r, "health")
    /\ UNCHANGED <<ids, inserted, location, holder, health, checkout, free, tag, left,
                   copy, before>>

\* Fault: an error is logged, and the request goes on.
UpdateHealthOrNot(r) ==
    /\ pc[r] = "health"
    /\ health' = [health EXCEPT ![tag[r]] = r] \/ UNCHANGED health
    /\ Goto(r, "checkout")
    /\ UNCHANGED <<ids, inserted, location, holder, hardware, checkout, free, tag, left,
                   copy, before>>

UpdateHealth(r) ==
    /\ pc[r] = "health"
    /\ health' = [health EXCEPT ![tag[r]] = r]
    /\ Goto(r, "checkout")
    /\ UNCHANGED <<ids, inserted, location, holder, hardware, checkout, free, tag, left,
                   copy, before>>

InsertCheckout(r) ==
    /\ pc[r] = "checkout"
    /\ checkout' = [checkout EXCEPT ![tag[r]] = @ \cup {r}]
    /\ Goto(r, "ok")
    /\ UNCHANGED <<ids, inserted, location, holder, hardware, health, free, tag, left,
                   copy, before>>

-----------------------------------------------------------------------------
\* BulkUpdateInventoryLocation: one transaction per tag, which copies the row
\* it finds and changes the place; a tag without a row ends the request.

\* Fault: the row is locked when it is read, on a connection of its own.
CopiesForUpdate(r) ==
    /\ pc[r] = "next"
    /\ \E t \in left[r] :
         /\ holder[t] = None
         /\ tag' = [tag EXCEPT ![r] = t]
         /\ left' = [left EXCEPT ![r] = @ \ {t}]
         /\ IF location[t].place = None
              THEN Goto(r, "failed") /\ UNCHANGED <<copy, holder>>
              ELSE /\ Goto(r, "copied")
                   /\ copy' = [copy EXCEPT ![r] = location[t].rest]
                   /\ holder' = [holder EXCEPT ![t] = r]
    /\ UNCHANGED <<ids, inserted, tables, free, before>>

BulkCopies(r) ==
    /\ pc[r] = "next"
    /\ \E t \in left[r] :
         /\ tag' = [tag EXCEPT ![r] = t]
         /\ left' = [left EXCEPT ![r] = @ \ {t}]
         /\ IF location[t].place = None
              THEN Goto(r, "failed") /\ UNCHANGED copy
              ELSE /\ Goto(r, "copied")
                   /\ copy' = [copy EXCEPT ![r] = location[t].rest]
    /\ UNCHANGED <<ids, inserted, tables, holder, free, before>>

\* The upsert waits for the row, then overwrites it with what it copied.
BulkWrites(r) ==
    /\ pc[r] = "copied"
    /\ holder[tag[r]] = None
    /\ location' = [location EXCEPT ![tag[r]] = [place |-> r, rest |-> copy[r]]]
    /\ Goto(r, "next")
    /\ UNCHANGED <<ids, inserted, holder, hardware, health, checkout, free, tag, left,
                   copy, before>>

BulkDone(r) ==
    /\ pc[r] = "next"
    /\ left[r] = {}
    /\ Goto(r, "ok")
    /\ UNCHANGED <<ids, inserted, tables, holder, free, tag, left, copy, before>>

-----------------------------------------------------------------------------
\* Waiting for a connection of the pool.
Waits(r) == pc[r] \in {"begin", "lookup", "serial"}

\* Connections r holds: its transaction's, and the one of its lookup.
Held(r) == IF pc[r] = "scan" THEN 2 ELSE IF InTx(r) THEN 1 ELSE 0

\* Fault: a wait for a connection that runs out starts the transaction again.
FailAndRetry(r) ==
    /\ ~Ended(r) /\ pc[r] # "new"
    /\ free' = free + Held(r)
    /\ Release(r)
    /\ Goto(r, IF Waits(r) THEN "begin" ELSE "failed")
    /\ UNCHANGED <<ids, tables, tag, left, copy, before>>

\* Fault: a first transaction that fails does not end the request.
FailAndGoOn(r) ==
    /\ ~Ended(r) /\ pc[r] # "new"
    /\ free' = free + Held(r)
    /\ Release(r)
    /\ Goto(r, IF InTx(r) THEN "hardware" ELSE "failed")
    /\ UNCHANGED <<ids, tables, tag, left, copy, before>>

\* Any wait or statement may fail, at the latest when the request's context
\* ends.  The transaction is rolled back; what was committed stays.
Fail(r) ==
    /\ ~Ended(r) /\ pc[r] # "new"
    /\ free' = free + Held(r)
    /\ Release(r)
    /\ Goto(r, "failed")
    /\ UNCHANGED <<ids, tables, tag, left, copy, before>>

\* InitClient, the other way into the table ids.
InitClient(t) ==
    /\ \A q \in inserted : tag[q] # t
    /\ ids' = ids \cup {t}
    /\ UNCHANGED <<inserted, tables, holder, free, pc, tag, left, copy, before>>

Init ==
    /\ ids = {} /\ inserted = {}
    /\ location = [t \in Tags |-> [place |-> None, rest |-> None]]
    /\ holder = [t \in Tags |-> None]
    /\ hardware = [t \in Tags |-> None] /\ health = [t \in Tags |-> None]
    /\ checkout = [t \in Tags |-> {}]
    /\ free = PoolSize
    /\ pc = [r \in Requests |-> "new"]
    /\ tag = [r \in Requests |-> None]
    /\ left = [r \in Requests |-> {}]
    /\ copy = [r \in Requests |-> None]
    /\ before = [r \in Requests |-> {}]

TxStep(r) == \/ Begin(r) \/ InsertIds(r) \/ Lookup(r) \/ Scan(r) \/ LookupSerial(r)
             \/ WriteLocation(r) \/ Commit(r)

UpdateStep(r) == UpdateHardware(r) \/ UpdateHealth(r) \/ InsertCheckout(r)

BulkStep(r) == BulkCopies(r) \/ BulkWrites(r) \/ BulkDone(r)

Next ==
    \/ \E r \in Requests : \/ Arrives(r) \/ TxStep(r) \/ UpdateStep(r) \/ BulkStep(r)
                           \/ Fail(r)
    \/ \E t \in Tags : InitClient(t)

Spec == Init /\ [][Next]_vars

\* The database executes what it is given and hands out locks that become
\* free; APITimeoutMiddleware puts a deadline on the context of every request,
\* which ends a wait for a connection.
FairSpec ==
    /\ Spec
    /\ \A r \in Requests : /\ WF_vars(TxStep(r) \/ UpdateStep(r) \/ BulkStep(r))
                            /\ WF_vars(Waits(r) /\ Fail(r))

-----------------------------------------------------------------------------
\* No path loses or invents a connection: what is not free is held by exactly
\* one transaction or lookup (cleanupPGXTx, update-repo.go:121-137).
Conserved ==
    free + Cardinality({r \in Requests : InTx(r)})
         + Cardinality({r \in Requests : pc[r] = "scan"}) = PoolSize

\* Rows of the inventory belong to known clients, although the first of four
\* transactions creates the client and may be rolled back (post.go:731-755).
NoOrphans ==
    \A t \in Tags \ ids :
        location[t].place = None /\ hardware[t] = None /\ health[t] = None
        /\ checkout[t] = {}

\* An update answered with success is in all four tables and is not undone by
\* one that had ended before it came.  One exception: a bulk request that ran
\* at the same time may put back the fields it copied (update-repo.go:2057-2107).
Overlapped(r) ==
    \E b \in Bulks : pc[b] # "new" /\ b \notin before[r] /\ r \notin before[b]

AcknowledgedStays ==
    \A r \in Updates : pc[r] = "ok" =>
        /\ {location[tag[r]].place, hardware[tag[r]], health[tag[r]]}
              \cap (before[r] \cup {None}) = {}
        /\ r \in checkout[tag[r]]
        /\ location[tag[r]].rest \in before[r] \cup {None} => Overlapped(r)

\* Whom r waits for: the update that has inserted its client and is undecided,
\* or the transaction that has locked its row.
Blockers(r) ==
    IF pc[r] = "insert" THEN {q \in inserted : tag[q] = tag[r]}
    ELSE IF pc[r] \in {"write", "copied"} THEN {holder[tag[r]]} \ {None}
    ELSE {}

\* Transactions never wait for one another's rows in a circle, which PostgreSQL
\* would break with an error, in whatever order updates, bulk changes and lookups
\* come to the tables (update-repo.go:414-560, 1984-2107).
NoLockCycle ==
    \A S \in SUBSET Requests : S # {} => \E r \in S : Blockers(r) \cap S = {}

\* Every request ends, although all connections may be held by transactions that
\* wait for another one (update-repo.go:438, 1107, 1903, 1940, 2761): the
\* deadline of those that wait is enough, for locks never wait in a circle.
RequestEnds == \A r \in Requests : pc[r] # "new" ~> Ended(r)

\* "Insert/update ids table" (update-repo.go:414): an update finds the client
\* its own transaction has just inserted.
InsertedClientIsFound ==
    [][\A r \in Updates : Scan(r) /\ r \in inserted => pc'[r] = "write"]_vars
=============================================================================
