------------------------------ MODULE JobQueue ------------------------------
(***************************************************************************)
(* The queue of jobs: the table job_queue, the handlers that give jobs to  *)
(* one client or to all that are online, the telemetry that shares the     *)
(* table, and what a client is told of its job.  When a job was queued,    *)
(* the places in the queue and the job queue page, which read the times    *)
(* and the list of online clients but write nothing, are left out.         *)
(* Transactions are READ COMMITTED.  One that writes a single row is one   *)
(* step that waits for the row; SetAllOnlineClientJobs takes its rows one  *)
(* by one and keeps them until it commits.                                 *)
(* Job names are the members of Jobs; clients are their tags, which are    *)
(* unique in ids (update-repo.go:427).                                     *)
(***************************************************************************)
CONSTANTS Clients,   \* valid tags
          Staff,     \* requests of POST /api/job_queue/all_clients/update_job
          Jobs,      \* job names
          None       \* no name

ASSUME NoneAssumption == None \notin Jobs

VARIABLES ids,      \* clients with a row in ids
          job,      \* job_queue, a partial function of clients
          liveOS,   \* clients with a row in live_os_data
          recent,   \* of those, the ones whose last_heard is at most 10 s old
          online,   \* clients GetAllOnlineClientUUIDs returns
          all,      \* all[w]: the transaction of SetAllOnlineClientJobs w is in
          assigned  \* the job SetClientJob last gave a client and nobody ended

vars == <<ids, job, liveOS, recent, online, all, assigned>>
presence == <<ids, liveOS, recent, online>>

\* A row that telemetry has made has no job.  job_active is FALSE throughout:
\* nothing in this program sets it.
Row   == [name : Jobs \cup {None}, queued : BOOLEAN]
NoJob == [name |-> None, queued |-> FALSE]

Pass == [name : Jobs \cup {None}, todo : SUBSET Clients, done : SUBSET Clients]
Idle == [name |-> None, todo |-> {}, done |-> {}]

TypeOK ==
    /\ ids \subseteq Clients
    /\ DOMAIN job \subseteq ids /\ job \in [DOMAIN job -> Row]
    /\ liveOS \subseteq ids /\ recent \subseteq liveOS /\ online \subseteq ids
    /\ all \in [Staff -> Pass]
    /\ assigned \in [Clients -> Jobs \cup {None}]

-----------------------------------------------------------------------------
\* What clients report.  A request without a valid tag, or without the number
\* where the handler insists on one, ends in the handler.

\* The row is locked by a transaction that has changed it.
Locked(c) == \E w \in Staff : c \in all[w].done

WithRow(c, row) == [d \in DOMAIN job \cup {c} |-> IF d = c THEN row ELSE job[d]]

\* lockClientRowByTagnumber, then INSERT INTO live_os_data ... ON CONFLICT
\* (client_uuid) DO UPDATE: an unknown tag is an error.
UpsertLive(c) ==
    /\ c \in ids
    /\ liveOS' = liveOS \cup {c}
    /\ UNCHANGED <<ids, job, recent, online, all, assigned>>

UpsertClientMemoryUsageKB(c) == UpsertLive(c)
UpsertClientCPUUsage(c)      == UpsertLive(c)
UpdateClientNetworkUsage(c)  == UpsertLive(c)

\* INSERT INTO job_queue ... ON CONFLICT (client_uuid) DO UPDATE of one number:
\* a client's first report makes its row, later ones leave its job alone.
UpsertRow(c) ==
    /\ c \in ids
    /\ ~Locked(c)
    /\ job' = IF c \in DOMAIN job THEN job ELSE WithRow(c, NoJob)
    /\ UNCHANGED <<presence, all, assigned>>

UpsertClientMemoryCapacityKB(c) == UpsertRow(c)
UpsertClientCPUMHz(c)           == UpsertRow(c)
UpsertClientCPUTemperature(c)   == UpsertRow(c)

\* UPDATE job_queue SET battery_charge_pcnt or job_queued_at: without a row, an
\* error.
UpdateRow(c) == c \in DOMAIN job /\ UpsertRow(c)

UpdateClientBatteryChargePcnt(c) == UpdateRow(c)
UpdateJobQueuedAt(c)             == UpdateRow(c)

SetClientMemoryUsageKB(c)      == UpsertClientMemoryUsageKB(c)
SetClientMemoryCapacityKB(c)   == UpsertClientMemoryCapacityKB(c)
SetClientCPUUsage(c)           == UpsertClientCPUUsage(c)
SetClientCPUMHz(c)             == UpsertClientCPUMHz(c)
SetClientCPUTemperature(c)     == UpsertClientCPUTemperature(c)
SetClientNetworkUsage(c)       == UpdateClientNetworkUsage(c)
POSTClientBatteryChargePcnt(c) == UpdateClientBatteryChargePcnt(c)
SetJobQueuedAt(c)              == UpdateJobQueuedAt(c)

\* InitClient.
InitClient(c) ==
    /\ ids' = ids \cup {c}
    /\ UNCHANGED <<job, liveOS, recent, online, all, assigned>>

-----------------------------------------------------------------------------
\* Who is online: the map in memory says so for 20 seconds after a message,
\* the column last_heard for 10 seconds after a value that was written to it.

SetClientLastHeard(c) ==
    /\ c \in ids
    /\ online' = online \cup {c}
    /\ UNCHANGED <<ids, job, liveOS, recent, all, assigned>>

\* Twenty seconds pass, or the client's clock goes back.
FallsSilent(c) ==
    /\ online' = online \ {c}
    /\ UNCHANGED <<ids, job, liveOS, recent, all, assigned>>

\* Fault: a missing row is made.
UpsertLastHeard(c) ==
    /\ c \in online
    /\ recent' = recent \cup {c}
    /\ UNCHANGED <<ids, job, liveOS, online, all, assigned>>

\* A pass of writeLastHeardToDB: an UPDATE, which needs a row.
UpdateClientLastHeard(c) ==
    /\ c \in liveOS \cap online
    /\ recent' = recent \cup {c}
    /\ UNCHANGED <<ids, job, liveOS, online, all, assigned>>

LastHeardAges(c) ==
    /\ recent' = recent \ {c}
    /\ UNCHANGED <<ids, job, liveOS, online, all, assigned>>

-----------------------------------------------------------------------------
\* Giving out jobs.  A request without uuid, tag or serial number ends in
\* JobQueueDBRow.ToDTO, even where the handler needs none of them.
ToDTO(c, j) == [tag |-> c, name |-> j]

\* Fault: only the name is written.
Named(row, j) == [row EXCEPT !.name = j]

\* SET job_queued = TRUE, job_name = $1, job_active = FALSE.
Queued(row, j) == [row EXCEPT !.name = j, !.queued = TRUE]

SetClientJob(o) ==
    /\ o.tag \in DOMAIN job /\ ~Locked(o.tag)
    /\ job' = WithRow(o.tag, Queued(job[o.tag], o.name))
    /\ assigned' = [assigned EXCEPT ![o.tag] = o.name]
    /\ UNCHANGED <<presence, all>>

\* job_active = FALSE AND job_queued = FALSE.
Free(c) == ~job[c].queued

\* SetAllJobs, and the rows the statement's snapshot selects.
SetAllJobs(w, o) ==
    /\ all[w] = Idle
    /\ all' = [all EXCEPT ![w] = [name |-> o.name, done |-> {},
                                  todo |-> {c \in DOMAIN job : Free(c) /\ c \in recent}]]
    /\ UNCHANGED <<presence, job, assigned>>

\* Fault: a row that had to be waited for is not looked at again.
UpdateUnchecked(w, c) ==
    /\ c \in all[w].todo
    /\ ~Locked(c)
    /\ all' = [all EXCEPT ![w].todo = @ \ {c}, ![w].done = @ \cup {c}]
    /\ UNCHANGED <<presence, job, assigned>>

\* The statement comes to a row: it waits for the lock and looks at the row
\* again, as READ COMMITTED does.
UpdateNextRow(w, c) ==
    /\ c \in all[w].todo
    /\ ~Locked(c)
    /\ all' = [all EXCEPT ![w].todo = @ \ {c},
                          ![w].done = IF Free(c) THEN @ \cup {c} ELSE @]
    /\ UNCHANGED <<presence, job, assigned>>

CommitAll(w) ==
    /\ all[w] # Idle /\ all[w].todo = {}
    /\ job' = [c \in DOMAIN job |-> IF c \in all[w].done
                                      THEN [job[c] EXCEPT !.name = all[w].name]
                                      ELSE job[c]]
    /\ all' = [all EXCEPT ![w] = Idle]
    /\ UNCHANGED <<presence, assigned>>

\* An error, a deadline, or the database breaking a deadlock: rollback.
RollBackAll(w) ==
    /\ all[w] # Idle
    /\ all' = [all EXCEPT ![w] = Idle]
    /\ UNCHANGED <<presence, job, assigned>>

\* Whoever runs the jobs takes the job out of the row; nothing in this program
\* does.
JobEnds(c) ==
    /\ c \in DOMAIN job /\ ~Locked(c)
    /\ job' = WithRow(c, [job[c] EXCEPT !.queued = FALSE, !.name = None])
    /\ assigned' = [assigned EXCEPT ![c] = None]
    /\ UNCHANGED <<presence, all>>

-----------------------------------------------------------------------------
\* What a client is told of its job.

\* No row at all is an error: the driver answers sql.ErrNoRows, and the code
\* compares with pgx.ErrNoRows.
SelectIsClientJobAvailable(c) ==
    IF c \notin DOMAIN job THEN "error"
    ELSE IF ~job[c].queued /\ job[c].name = None THEN "yes" ELSE "no"

SelectJobName(c) == IF c \in DOMAIN job THEN job[c].name ELSE None

-----------------------------------------------------------------------------
Init ==
    /\ ids = {} /\ liveOS = {} /\ recent = {} /\ online = {}
    /\ job = [c \in {} |-> NoJob]
    /\ all = [w \in Staff |-> Idle]
    /\ assigned = [c \in Clients |-> None]

Report(c) ==
    \/ SetClientMemoryUsageKB(c) \/ SetClientMemoryCapacityKB(c)
    \/ SetClientCPUUsage(c) \/ SetClientCPUMHz(c) \/ SetClientCPUTemperature(c)
    \/ SetClientNetworkUsage(c) \/ POSTClientBatteryChargePcnt(c) \/ SetJobQueuedAt(c)

Presence(c) == \/ InitClient(c) \/ SetClientLastHeard(c) \/ FallsSilent(c)
               \/ UpdateClientLastHeard(c) \/ LastHeardAges(c)

SetAllStep(w) == (\E c \in Clients : UpdateNextRow(w, c)) \/ CommitAll(w)

Next ==
    \/ \E c \in Clients : Report(c) \/ Presence(c) \/ JobEnds(c)
    \/ \E c \in Clients, j \in Jobs : SetClientJob(ToDTO(c, j))
    \/ \E w \in Staff, c \in Clients, j \in Jobs : SetAllJobs(w, ToDTO(c, j))
    \/ \E w \in Staff : SetAllStep(w) \/ RollBackAll(w)

Spec == Init /\ [][Next]_vars

-----------------------------------------------------------------------------
\* A job given to one client stays that client's job until it is ended: the
\* client is told its name and not that it is free, however many requests for
\* all clients run over the table and whatever telemetry shares its row.
AssignedStays ==
    \A c \in Clients : assigned[c] # None =>
        /\ SelectJobName(c) = assigned[c]
        /\ SelectIsClientJobAvailable(c) = "no"

\* "All client jobs set successfully" (post.go:1418): a request for all online
\* clients reaches every online client that has no job queued or active.
SetAllReachesOnline ==
    [][\A w \in Staff : all[w] = Idle /\ all'[w] # Idle =>
          {c \in DOMAIN job \cap online : Free(c)} \subseteq all'[w].todo]_vars

-----------------------------------------------------------------------------
\* What the rows say of jobs; a row without a job says what a missing one says.
Posted(c) == IF c \in DOMAIN job THEN [name |-> job[c].name, queued |-> job[c].queued]
             ELSE [name |-> None, queued |-> FALSE]
Board     == [c \in Clients |-> Posted(c)]
Posting   == INSTANCE JobBoard WITH board <- Board

\* A request for all clients takes its rows one by one, waits for others and
\* may end halfway; it still works as if all at once, on clients none of which
\* has a job of its own at that moment (update-repo.go:809-872).
ImplementsJobBoard == Posting!BoardSpec

-----------------------------------------------------------------------------
\* What makes AssignedStays inductive: SetAllOnlineClientJobs has changed free
\* rows only, and a row with a job given to its client is not free.
RowsTaken ==
    \A w \in Staff : /\ all[w].todo \subseteq DOMAIN job
                     /\ \A c \in all[w].done : c \in DOMAIN job /\ Free(c)

JobsKept ==
    \A c \in Clients : assigned[c] # None =>
        c \in DOMAIN job /\ job[c].queued /\ job[c].name = assigned[c]

IInv == TypeOK /\ RowsTaken /\ JobsKept
=============================================================================
