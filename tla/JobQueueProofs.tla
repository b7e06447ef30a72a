--------------------------- MODULE JobQueueProofs ---------------------------
(***************************************************************************)
(* Theorems about JobQueue for any clients, requests and job names: its    *)
(* types, that a job given to a client stays, and that the queue works as  *)
(* if a request for all clients were a single step.                        *)
(***************************************************************************)
EXTENDS JobQueue, TLAPS

-----------------------------------------------------------------------------
\* Lemmas about rows.

LEMMA NoJobType == NoJob \in Row
  BY DEF NoJob, Row

\* The handlers' changes of a row.
LEMMA QueuedType ==
    ASSUME NEW row \in Row, NEW j \in Jobs
    PROVE  /\ Queued(row, j) \in Row
           /\ Queued(row, j).queued /\ Queued(row, j).name = j
  BY DEF Row, Queued

LEMMA NamedType ==
    ASSUME NEW row \in Row, NEW j \in Jobs \cup {None}
    PROVE  /\ [row EXCEPT !.name = j] \in Row
           /\ [row EXCEPT !.name = j].queued = row.queued
  BY DEF Row

LEMMA WithRowType ==
    ASSUME DOMAIN job \subseteq ids, job \in [DOMAIN job -> Row],
           NEW c \in ids, NEW row \in Row
    PROVE  /\ DOMAIN WithRow(c, row) = DOMAIN job \cup {c}
           /\ DOMAIN WithRow(c, row) \subseteq ids
           /\ WithRow(c, row) \in [DOMAIN WithRow(c, row) -> Row]
           /\ WithRow(c, row)[c] = row
           /\ \A d \in DOMAIN job : d # c => WithRow(c, row)[d] = job[d]
  BY DEF WithRow

\* Changing an unlocked row leaves the rows a transaction has changed alone, and
\* the jobs of the other clients.
LEMMA RowChanges ==
    ASSUME IInv, NEW c \in ids, NEW row \in Row, ~Locked(c),
           job' = WithRow(c, row), UNCHANGED <<ids, all>>
    PROVE  /\ DOMAIN job' \subseteq ids /\ job' \in [DOMAIN job' -> Row]
           /\ RowsTaken'
           /\ \A d \in DOMAIN job : d # c => d \in DOMAIN job' /\ job'[d] = job[d]
           /\ c \in DOMAIN job' /\ job'[c] = row
  <1>1. /\ DOMAIN job \subseteq ids /\ job \in [DOMAIN job -> Row]
    BY DEF IInv, TypeOK
  <1>2. /\ DOMAIN job' = DOMAIN job \cup {c} /\ DOMAIN job' \subseteq ids
        /\ job' \in [DOMAIN job' -> Row] /\ job'[c] = row
        /\ \A d \in DOMAIN job : d # c => job'[d] = job[d]
    BY <1>1, WithRowType
  <1>3. RowsTaken'
    <2>1. SUFFICES ASSUME NEW w \in Staff, NEW d \in all[w].done
                   PROVE  d \in DOMAIN job' /\ Free(d)'
      BY <1>2 DEF RowsTaken, IInv
    <2>2. d # c
      BY <2>1 DEF Locked
    <2>3. d \in DOMAIN job /\ Free(d)
      BY <2>1 DEF IInv, RowsTaken
    <2>4. QED
      BY <1>2, <2>2, <2>3 DEF Free
  <1>4. QED
    BY <1>2, <1>3

LEMMA AllType ==
    ASSUME TypeOK, NEW w \in Staff
    PROVE  /\ all[w].name \in Jobs \cup {None}
           /\ all[w].todo \in SUBSET Clients /\ all[w].done \in SUBSET Clients
  BY DEF TypeOK, Pass

-----------------------------------------------------------------------------
\* IInv is inductive.

LEMMA InitIInv == Init => IInv
  <1>1. ASSUME Init PROVE IInv
    <2>1. TypeOK
      BY <1>1 DEF Init, TypeOK, Idle, Pass
    <2>2. RowsTaken /\ JobsKept
      BY <1>1 DEF Init, RowsTaken, JobsKept, Idle
    <2>3. QED
      BY <2>1, <2>2 DEF IInv
  <1>2. QED
    BY <1>1

\* Steps that change nothing but who is known or online.
LEMMA PresenceStep ==
    ASSUME IInv, NEW c \in Clients, Presence(c)
    PROVE  IInv'
  <1> USE DEF IInv
  <1>1. CASE InitClient(c)
    BY <1>1 DEF InitClient, TypeOK, RowsTaken, JobsKept, Free
  <1>2. CASE SetClientLastHeard(c)
    BY <1>2 DEF SetClientLastHeard, TypeOK, RowsTaken, JobsKept, Free
  <1>3. CASE FallsSilent(c)
    BY <1>3 DEF FallsSilent, TypeOK, RowsTaken, JobsKept, Free
  <1>4. CASE UpdateClientLastHeard(c)
    BY <1>4 DEF UpdateClientLastHeard, TypeOK, RowsTaken, JobsKept, Free
  <1>5. CASE LastHeardAges(c)
    BY <1>5 DEF LastHeardAges, TypeOK, RowsTaken, JobsKept, Free
  <1>6. QED
    BY <1>1, <1>2, <1>3, <1>4, <1>5 DEF Presence

LEMMA UpsertLiveStep ==
    ASSUME IInv, NEW c \in Clients, UpsertLive(c)
    PROVE  IInv'
  BY DEF IInv, UpsertLive, TypeOK, RowsTaken, JobsKept, Free

LEMMA UpsertRowStep ==
    ASSUME IInv, NEW c \in Clients, UpsertRow(c)
    PROVE  IInv'
  <1>1. CASE c \in DOMAIN job
    BY <1>1 DEF IInv, UpsertRow, presence, TypeOK, RowsTaken, JobsKept, Free
  <1>2. CASE c \notin DOMAIN job
    <2>1. /\ DOMAIN job' \subseteq ids /\ job' \in [DOMAIN job' -> Row]
          /\ RowsTaken'
          /\ \A d \in DOMAIN job : d # c => d \in DOMAIN job' /\ job'[d] = job[d]
      BY <1>2, NoJobType, RowChanges DEF UpsertRow, presence
    <2>2. JobsKept'
      BY <1>2, <2>1 DEF IInv, JobsKept, UpsertRow
    <2>3. TypeOK'
      BY <2>1 DEF IInv, UpsertRow, presence, TypeOK
    <2>4. QED
      BY <2>1, <2>2, <2>3 DEF IInv
  <1>3. QED
    BY <1>1, <1>2

LEMMA ReportStep ==
    ASSUME IInv, NEW c \in Clients, Report(c)
    PROVE  IInv'
  <1>1. UpsertLive(c) \/ UpsertRow(c)
    BY DEF Report, SetClientMemoryUsageKB, SetClientMemoryCapacityKB, SetClientCPUUsage,
           SetClientCPUMHz, SetClientCPUTemperature, SetClientNetworkUsage,
           POSTClientBatteryChargePcnt, UpsertClientMemoryUsageKB,
           UpsertClientMemoryCapacityKB, UpsertClientCPUUsage, UpsertClientCPUMHz,
           UpsertClientCPUTemperature, UpdateClientNetworkUsage,
           UpdateClientBatteryChargePcnt, SetJobQueuedAt, UpdateJobQueuedAt, UpdateRow
  <1>2. QED
    BY <1>1, UpsertLiveStep, UpsertRowStep

LEMMA SetClientJobStep ==
    ASSUME IInv, NEW c \in Clients, NEW j \in Jobs, SetClientJob(ToDTO(c, j))
    PROVE  IInv'
  <1>1. /\ c \in DOMAIN job /\ c \in ids /\ ~Locked(c)
        /\ job' = WithRow(c, Queued(job[c], j))
        /\ assigned' = [assigned EXCEPT ![c] = j]
        /\ UNCHANGED <<ids, liveOS, recent, online, all>>
    BY DEF SetClientJob, ToDTO, presence, IInv, TypeOK
  <1>2. job[c] \in Row
    BY <1>1 DEF IInv, TypeOK
  <1>3. Queued(job[c], j) \in Row /\ Queued(job[c], j).queued /\ Queued(job[c], j).name = j
    BY <1>2, QueuedType
  <1>4. /\ DOMAIN job' \subseteq ids /\ job' \in [DOMAIN job' -> Row]
        /\ RowsTaken'
        /\ \A d \in DOMAIN job : d # c => d \in DOMAIN job' /\ job'[d] = job[d]
        /\ c \in DOMAIN job' /\ job'[c] = Queued(job[c], j)
    BY <1>1, <1>3, RowChanges
  <1>5. assigned' \in [Clients -> Jobs \cup {None}] /\ assigned'[c] = j
        /\ \A d \in Clients : d # c => assigned'[d] = assigned[d]
    BY <1>1 DEF IInv, TypeOK
  <1>6. JobsKept'
    <2>1. SUFFICES ASSUME NEW d \in Clients, assigned'[d] # None
                   PROVE  d \in DOMAIN job' /\ job'[d].queued /\ job'[d].name = assigned'[d]
      BY DEF JobsKept
    <2>2. CASE d = c
      BY <1>3, <1>4, <1>5, <2>2
    <2>3. CASE d # c
      BY <1>4, <1>5, <2>1, <2>3 DEF IInv, JobsKept
    <2>4. QED
      BY <2>2, <2>3
  <1>7. TypeOK'
    BY <1>1, <1>4, <1>5 DEF IInv, TypeOK
  <1>8. QED
    BY <1>4, <1>6, <1>7 DEF IInv

LEMMA JobEndsStep ==
    ASSUME IInv, NEW c \in Clients, JobEnds(c)
    PROVE  IInv'
  <1> DEFINE row == [job[c] EXCEPT !.queued = FALSE, !.name = None]
  <1>1. /\ c \in DOMAIN job /\ c \in ids /\ ~Locked(c)
        /\ job' = WithRow(c, row)
        /\ assigned' = [assigned EXCEPT ![c] = None]
        /\ UNCHANGED <<ids, liveOS, recent, online, all>>
    BY DEF JobEnds, presence, IInv, TypeOK
  <1>2. job[c] \in Row
    BY <1>1 DEF IInv, TypeOK
  <1>3. row \in Row
    BY <1>2 DEF Row
  <1> HIDE DEF row
  <1>4. /\ DOMAIN job' \subseteq ids /\ job' \in [DOMAIN job' -> Row]
        /\ RowsTaken'
        /\ \A d \in DOMAIN job : d # c => d \in DOMAIN job' /\ job'[d] = job[d]
    BY <1>1, <1>3, RowChanges
  <1>5. assigned' \in [Clients -> Jobs \cup {None}] /\ assigned'[c] = None
        /\ \A d \in Clients : d # c => assigned'[d] = assigned[d]
    BY <1>1 DEF IInv, TypeOK
  <1>6. JobsKept'
    BY <1>4, <1>5 DEF IInv, JobsKept
  <1>7. TypeOK'
    BY <1>1, <1>4, <1>5 DEF IInv, TypeOK
  <1>8. QED
    BY <1>4, <1>6, <1>7 DEF IInv

\* A statement for all clients that begins, ends or takes a row.
LEMMA SetAllJobsStep ==
    ASSUME IInv, NEW w \in Staff, NEW j \in Jobs, NEW o, o.name = j, SetAllJobs(w, o)
    PROVE  IInv'
  <1> DEFINE free == {c \in DOMAIN job : Free(c) /\ c \in recent}
             pass == [name |-> j, done |-> {}, todo |-> free]
  <1>1. /\ all' = [all EXCEPT ![w] = pass]
        /\ UNCHANGED <<ids, liveOS, recent, online, job, assigned>>
    BY DEF SetAllJobs, presence
  <1>2. free \subseteq Clients
    BY DEF IInv, TypeOK
  <1>3. pass \in Pass /\ pass.done = {} /\ pass.todo \subseteq DOMAIN job
    BY <1>2 DEF Pass
  <1> HIDE DEF pass
  <1>4. all' \in [Staff -> Pass]
    BY <1>1, <1>3 DEF IInv, TypeOK
  <1>5. RowsTaken'
    BY <1>1, <1>3 DEF IInv, TypeOK, RowsTaken, Free
  <1>6. QED
    BY <1>1, <1>4, <1>5 DEF IInv, TypeOK, JobsKept

\* What UpdateNextRow does to a transaction, field by field.
LEMMA PassMoves ==
    ASSUME all \in [Staff -> Pass], NEW w \in Staff, NEW c \in Clients, UpdateNextRow(w, c)
    PROVE  /\ all' \in [Staff -> Pass]
           /\ all'[w].name = all[w].name
           /\ all'[w].todo = all[w].todo \ {c}
           /\ all'[w].done = IF Free(c) THEN all[w].done \cup {c} ELSE all[w].done
           /\ \A v \in Staff : v # w => all'[v] = all[v]
  <1> DEFINE p == [all[w] EXCEPT !.todo = @ \ {c}]
             q == [p EXCEPT !.done = IF Free(c) THEN @ \cup {c} ELSE @]
  <1>1. /\ p \in Pass /\ p.name = all[w].name
        /\ p.todo = all[w].todo \ {c} /\ p.done = all[w].done
    BY DEF Pass
  <1>2. /\ q \in Pass /\ q.name = p.name /\ q.todo = p.todo
        /\ q.done = IF Free(c) THEN p.done \cup {c} ELSE p.done
    <2> HIDE DEF p
    <2>1. QED
      BY <1>1 DEF Pass
  <1>3. all' = [all EXCEPT ![w] = q]
    BY DEF UpdateNextRow
  <1> HIDE DEF p, q
  <1>4. QED
    BY <1>1, <1>2, <1>3

LEMMA UpdateNextRowStep ==
    ASSUME IInv, NEW w \in Staff, NEW c \in Clients, UpdateNextRow(w, c)
    PROVE  IInv'
  <1>1. /\ all \in [Staff -> Pass] /\ c \in all[w].todo /\ c \in DOMAIN job
        /\ UNCHANGED <<ids, liveOS, recent, online, job, assigned>>
    BY DEF IInv, TypeOK, RowsTaken, UpdateNextRow, presence
  <1>2. /\ all' \in [Staff -> Pass]
        /\ all'[w].todo = all[w].todo \ {c}
        /\ all'[w].done = IF Free(c) THEN all[w].done \cup {c} ELSE all[w].done
        /\ \A v \in Staff : v # w => all'[v] = all[v]
    BY <1>1, PassMoves
  <1>3. RowsTaken'
    <2>1. \A v \in Staff : all'[v].todo \subseteq DOMAIN job
      BY <1>1, <1>2 DEF IInv, RowsTaken
    <2>2. \A v \in Staff : \A d \in all'[v].done : d \in DOMAIN job /\ Free(d)
      BY <1>1, <1>2 DEF IInv, RowsTaken
    <2>3. QED
      BY <1>1, <2>1, <2>2 DEF RowsTaken, Free
  <1>4. QED
    BY <1>1, <1>2, <1>3 DEF IInv, TypeOK, JobsKept

\* A transaction that has ended holds nothing.
LEMMA AllEnds ==
    ASSUME IInv, NEW w \in Staff, all' = [all EXCEPT ![w] = Idle]
    PROVE  /\ all' \in [Staff -> Pass]
           /\ all'[w].todo = {} /\ all'[w].done = {}
           /\ \A v \in Staff : v # w => all'[v] = all[v]
  <1>1. Idle \in Pass /\ Idle.todo = {} /\ Idle.done = {}
    BY DEF Idle, Pass
  <1>2. QED
    BY <1>1 DEF IInv, TypeOK

LEMMA CommitAllStep ==
    ASSUME IInv, NEW w \in Staff, CommitAll(w)
    PROVE  IInv'
  <1> DEFINE row(c) == [job[c] EXCEPT !.name = all[w].name]
  <1>1. /\ job' = [c \in DOMAIN job |-> IF c \in all[w].done THEN row(c) ELSE job[c]]
        /\ all' = [all EXCEPT ![w] = Idle]
        /\ UNCHANGED <<ids, liveOS, recent, online, assigned>>
    BY DEF CommitAll, presence
  <1>2. /\ all' \in [Staff -> Pass]
        /\ all'[w].todo = {} /\ all'[w].done = {}
        /\ \A v \in Staff : v # w => all'[v] = all[v]
    BY <1>1, AllEnds
  <1>3. \A c \in DOMAIN job : row(c) \in Row /\ row(c).queued = job[c].queued
    BY NamedType, AllType DEF IInv, TypeOK
  <1> HIDE DEF row
  <1>4. /\ DOMAIN job' = DOMAIN job /\ job' \in [DOMAIN job' -> Row]
        /\ \A c \in DOMAIN job : job'[c].queued = job[c].queued
        /\ \A c \in DOMAIN job : c \notin all[w].done => job'[c] = job[c]
    BY <1>1, <1>3 DEF IInv, TypeOK
  <1>5. RowsTaken'
    <2>1. \A v \in Staff : all'[v].todo \subseteq DOMAIN job
      BY <1>2 DEF IInv, RowsTaken
    <2>2. \A v \in Staff : \A d \in all'[v].done : d \in DOMAIN job /\ ~job[d].queued
      BY <1>2 DEF IInv, RowsTaken, Free
    <2>3. QED
      BY <1>4, <2>1, <2>2 DEF RowsTaken, Free
  <1>6. JobsKept'
    <2>1. SUFFICES ASSUME NEW c \in Clients, assigned[c] # None
                   PROVE  c \in DOMAIN job' /\ job'[c].queued /\ job'[c].name = assigned[c]
      BY <1>1 DEF JobsKept
    <2>2. c \in DOMAIN job /\ job[c].queued /\ job[c].name = assigned[c]
      BY <2>1 DEF IInv, JobsKept
    <2>3. c \notin all[w].done
      BY <2>2 DEF IInv, RowsTaken, Free
    <2>4. QED
      BY <1>4, <2>2, <2>3
  <1>7. QED
    BY <1>1, <1>2, <1>4, <1>5, <1>6 DEF IInv, TypeOK

LEMMA RollBackAllStep ==
    ASSUME IInv, NEW w \in Staff, RollBackAll(w)
    PROVE  IInv'
  <1>1. /\ all' = [all EXCEPT ![w] = Idle]
        /\ UNCHANGED <<ids, liveOS, recent, online, job, assigned>>
    BY DEF RollBackAll, presence
  <1>2. /\ all' \in [Staff -> Pass]
        /\ all'[w].todo = {} /\ all'[w].done = {}
        /\ \A v \in Staff : v # w => all'[v] = all[v]
    BY <1>1, AllEnds
  <1>3. RowsTaken'
    BY <1>1, <1>2 DEF IInv, RowsTaken, Free
  <1>4. QED
    BY <1>1, <1>2, <1>3 DEF IInv, TypeOK, JobsKept

LEMMA StepIInv == IInv /\ [Next]_vars => IInv'
  <1>1. ASSUME IInv, UNCHANGED vars PROVE IInv'
    BY <1>1 DEF IInv, vars, TypeOK, RowsTaken, JobsKept, Free
  <1>2. ASSUME IInv, NEW c \in Clients, Report(c) \/ Presence(c) \/ JobEnds(c) PROVE IInv'
    BY <1>2, ReportStep, PresenceStep, JobEndsStep
  <1>3. ASSUME IInv, NEW c \in Clients, NEW j \in Jobs, SetClientJob(ToDTO(c, j))
        PROVE  IInv'
    BY <1>3, SetClientJobStep
  <1>4. ASSUME IInv, NEW w \in Staff, NEW c \in Clients, NEW j \in Jobs,
               SetAllJobs(w, ToDTO(c, j))
        PROVE  IInv'
    <2>1. ToDTO(c, j).name = j
      BY DEF ToDTO
    <2>2. QED
      BY <1>4, <2>1, SetAllJobsStep
  <1>5. ASSUME IInv, NEW w \in Staff, SetAllStep(w) \/ RollBackAll(w) PROVE IInv'
    BY <1>5, UpdateNextRowStep, CommitAllStep, RollBackAllStep DEF SetAllStep
  <1>6. QED
    BY <1>1, <1>2, <1>3, <1>4, <1>5 DEF Next

\* The inductive invariant: a request for all clients has taken free rows only,
\* and a client's own job is in its row (update-repo.go:809-902).
THEOREM Inductive == Spec => []IInv
  BY InitIInv, StepIInv, PTL DEF Spec

\* The types, for any constants: among others, every row of job_queue and
\* live_os_data belongs to a client that ids has.
THEOREM Typing == Spec => []TypeOK
  <1>1. IInv => TypeOK
    BY DEF IInv
  <1>2. QED
    BY <1>1, Inductive, PTL

-----------------------------------------------------------------------------
\* A job given to one client stays that client's job until it ends, whatever
\* requests for all clients do meanwhile (update-repo.go:841).
THEOREM AssignedHolds == Spec => []AssignedStays
  <1>1. IInv => AssignedStays
    BY DEF IInv, JobsKept, AssignedStays, SelectJobName, SelectIsClientJobAvailable
  <1>2. QED
    BY <1>1, Inductive, PTL

-----------------------------------------------------------------------------
\* JobQueue implements JobBoard.  What a step posts is said client by client.

\* A transaction under way has a job to give.
NamesGiven == \A w \in Staff : all[w].todo \cup all[w].done # {} => all[w].name \in Jobs

LEMMA NamesNext ==
    ASSUME IInv, NamesGiven, [Next]_vars
    PROVE  NamesGiven'
  <1> USE DEF NamesGiven
  <1>1. all \in [Staff -> Pass]
    BY DEF IInv, TypeOK
  <1>2. ASSUME NEW w \in Staff, NEW j \in Jobs, NEW o, o.name = j, SetAllJobs(w, o)
        PROVE  NamesGiven'
    <2>1. \A v \in Staff : all'[v] = all[v] \/ all'[v].name = j
      BY <1>1, <1>2 DEF SetAllJobs
    <2>2. QED
      BY <2>1
  <1>3. ASSUME NEW w \in Staff, NEW c \in Clients, UpdateNextRow(w, c) PROVE NamesGiven'
    <2>1. c \in all[w].todo
      BY <1>3 DEF UpdateNextRow
    <2>2. /\ \A v \in Staff : v # w => all'[v] = all[v]
          /\ all'[w].name = all[w].name
      BY <1>1, <1>3, PassMoves
    <2>3. QED
      BY <2>1, <2>2
  <1>4. ASSUME NEW w \in Staff, all' = [all EXCEPT ![w] = Idle] PROVE NamesGiven'
    BY <1>4, AllEnds
  <1>5. CASE UNCHANGED all
    BY <1>5
  <1>6. ASSUME NEW c \in Clients, Report(c) \/ Presence(c) \/ JobEnds(c) PROVE UNCHANGED all
    <2>1. CASE Report(c)
      BY <2>1 DEF Report, SetClientMemoryUsageKB, SetClientMemoryCapacityKB,
                  SetClientCPUUsage, SetClientCPUMHz, SetClientCPUTemperature,
                  SetClientNetworkUsage, POSTClientBatteryChargePcnt,
                  UpsertClientMemoryUsageKB, UpsertClientMemoryCapacityKB,
                  UpsertClientCPUUsage, UpsertClientCPUMHz, UpsertClientCPUTemperature,
                  UpdateClientNetworkUsage, UpdateClientBatteryChargePcnt,
                  SetJobQueuedAt, UpdateJobQueuedAt, UpdateRow, UpsertLive, UpsertRow
    <2>2. CASE Presence(c) \/ JobEnds(c)
      BY <2>2 DEF Presence, InitClient, SetClientLastHeard, FallsSilent,
                  UpdateClientLastHeard, LastHeardAges, JobEnds
    <2>3. QED
      BY <1>6, <2>1, <2>2
  <1>7. ASSUME NEW o, SetClientJob(o) PROVE UNCHANGED all
    BY <1>7 DEF SetClientJob
  <1>8. ASSUME NEW w \in Staff, CommitAll(w) \/ RollBackAll(w) PROVE NamesGiven'
    BY <1>4, <1>8 DEF CommitAll, RollBackAll
  <1>9. CASE UNCHANGED vars
    BY <1>5, <1>9 DEF vars
  <1>10. ASSUME NEW c, NEW j PROVE ToDTO(c, j).name = j
    BY DEF ToDTO
  <1>11. QED
    BY <1>2, <1>3, <1>5, <1>6, <1>7, <1>8, <1>9, <1>10 DEF Next, SetAllStep

\* The posting of every client is one of a row or of none.
LEMMA BoardKept ==
    ASSUME \A c \in Clients : Posted(c)' = Posted(c)
    PROVE  UNCHANGED Board
  BY DEF Board

LEMMA BoardOne ==
    ASSUME NEW c \in Clients, NEW v, Posted(c)' = v,
           \A d \in Clients \ {c} : Posted(d)' = Posted(d)
    PROVE  Board' = [Board EXCEPT ![c] = v]
  BY DEF Board

\* A row of c that is written anew is all that changes on the board.
LEMMA PostedRow ==
    ASSUME IInv, NEW c \in ids, NEW row \in Row, ~Locked(c),
           job' = WithRow(c, row), UNCHANGED <<ids, all>>
    PROVE  /\ Posted(c)' = [name |-> row.name, queued |-> row.queued]
           /\ \A d \in Clients \ {c} : Posted(d)' = Posted(d)
  <1>1. DOMAIN job \subseteq ids /\ job \in [DOMAIN job -> Row]
    BY DEF IInv, TypeOK
  <1>2. /\ DOMAIN job' = DOMAIN job \cup {c} /\ job'[c] = row
        /\ \A d \in DOMAIN job : d # c => job'[d] = job[d]
    BY <1>1, WithRowType
  <1>3. QED
    BY <1>2 DEF Posted

LEMMA BoardStutter ==
    ASSUME UNCHANGED <<job, assigned>>
    PROVE  UNCHANGED Posting!boardVars
  BY DEF Posting!boardVars, Board, Posted

LEMMA ReportPosts ==
    ASSUME IInv, NEW c \in Clients, Report(c)
    PROVE  UNCHANGED Posting!boardVars
  <1>1. UpsertLive(c) \/ UpsertRow(c)
    BY DEF Report, SetClientMemoryUsageKB, SetClientMemoryCapacityKB, SetClientCPUUsage,
           SetClientCPUMHz, SetClientCPUTemperature, SetClientNetworkUsage,
           POSTClientBatteryChargePcnt, UpsertClientMemoryUsageKB,
           UpsertClientMemoryCapacityKB, UpsertClientCPUUsage, UpsertClientCPUMHz,
           UpsertClientCPUTemperature, UpdateClientNetworkUsage,
           UpdateClientBatteryChargePcnt, SetJobQueuedAt, UpdateJobQueuedAt, UpdateRow
  <1>2. CASE UpsertLive(c) \/ c \in DOMAIN job
    BY <1>1, <1>2, BoardStutter DEF UpsertLive, UpsertRow
  <1>3. CASE UpsertRow(c) /\ c \notin DOMAIN job
    <2>1. /\ c \in ids /\ ~Locked(c) /\ job' = WithRow(c, NoJob)
          /\ UNCHANGED <<ids, all, assigned>>
      BY <1>3 DEF UpsertRow, presence
    <2>2. /\ Posted(c)' = [name |-> NoJob.name, queued |-> NoJob.queued]
          /\ \A d \in Clients \ {c} : Posted(d)' = Posted(d)
      BY <2>1, NoJobType, PostedRow
    <2>3. Posted(c)' = Posted(c)
      BY <1>3, <2>2 DEF Posted, NoJob
    <2>4. QED
      BY <2>1, <2>2, <2>3, BoardKept DEF Posting!boardVars
  <1>4. QED
    BY <1>1, <1>2, <1>3

LEMMA SetClientJobPosts ==
    ASSUME IInv, NEW c \in Clients, NEW j \in Jobs, SetClientJob(ToDTO(c, j))
    PROVE  Posting!GiveOne(c, j)
  <1>1. /\ c \in DOMAIN job /\ c \in ids /\ ~Locked(c)
        /\ job' = WithRow(c, Queued(job[c], j))
        /\ assigned' = [assigned EXCEPT ![c] = j]
        /\ UNCHANGED <<ids, all>>
    BY DEF SetClientJob, ToDTO, presence, IInv, TypeOK
  <1>2. job[c] \in Row
    BY <1>1 DEF IInv, TypeOK
  <1>3. /\ Queued(job[c], j) \in Row
        /\ Queued(job[c], j).queued = TRUE /\ Queued(job[c], j).name = j
    BY <1>2 DEF Row, Queued
  <1>4. /\ Posted(c)' = [name |-> j, queued |-> TRUE]
        /\ \A d \in Clients \ {c} : Posted(d)' = Posted(d)
    BY <1>1, <1>3, PostedRow
  <1>5. QED
    BY <1>1, <1>4, BoardOne DEF Posting!GiveOne

LEMMA JobEndsPosts ==
    ASSUME IInv, NEW c \in Clients, JobEnds(c)
    PROVE  Posting!TakeOff(c)
  <1> DEFINE row == [job[c] EXCEPT !.queued = FALSE, !.name = None]
  <1>1. /\ c \in DOMAIN job /\ c \in ids /\ ~Locked(c)
        /\ job' = WithRow(c, row)
        /\ assigned' = [assigned EXCEPT ![c] = None]
        /\ UNCHANGED <<ids, all>>
    BY DEF JobEnds, presence, IInv, TypeOK
  <1>2. job[c] \in Row
    BY <1>1 DEF IInv, TypeOK
  <1>3. row \in Row /\ row.queued = FALSE /\ row.name = None
    BY <1>2 DEF Row
  <1> HIDE DEF row
  <1>4. /\ Posted(c)' = [name |-> None, queued |-> FALSE]
        /\ \A d \in Clients \ {c} : Posted(d)' = Posted(d)
    BY <1>1, <1>3, PostedRow
  <1>5. QED
    BY <1>1, <1>4, BoardOne DEF Posting!TakeOff, Posting!Nothing

\* The commit of a request for all clients is the one step it takes.
LEMMA CommitAllPosts ==
    ASSUME IInv, NamesGiven, NEW w \in Staff, CommitAll(w)
    PROVE  Posting!BoardNext \/ UNCHANGED Posting!boardVars
  <1> DEFINE S == all[w].done
             j == all[w].name
             row(c) == [job[c] EXCEPT !.name = j]
  <1>1. /\ job' = [c \in DOMAIN job |-> IF c \in S THEN row(c) ELSE job[c]]
        /\ UNCHANGED assigned
    BY DEF CommitAll
  <1>2. S \subseteq Clients /\ S \subseteq DOMAIN job /\ \A c \in S : job[c].queued = FALSE
    <2>1. all \in [Staff -> Pass] /\ \A c \in DOMAIN job : job[c].queued \in BOOLEAN
      BY DEF IInv, TypeOK, Row
    <2>2. \A c \in S : c \in DOMAIN job /\ ~job[c].queued
      BY DEF IInv, RowsTaken, Free
    <2>3. QED
      BY <2>1, <2>2, AllType DEF IInv
  <1>3. CASE S = {}
    <2>1. job' = [c \in DOMAIN job |-> job[c]]
      BY <1>1, <1>3
    <2>2. job' = job
      BY <2>1 DEF IInv, TypeOK
    <2>3. QED
      BY <1>1, <2>2, BoardStutter
  <1>4. CASE S # {}
    <2>1. j \in Jobs
      BY <1>4 DEF NamesGiven
    <2>2. \A c \in DOMAIN job : row(c).name = j /\ row(c).queued = job[c].queued
      BY DEF IInv, TypeOK, Row
    <2> HIDE DEF row
    <2>3. \A c \in S : Posted(c)' = [name |-> j, queued |-> FALSE]
      BY <1>1, <1>2, <2>2 DEF Posted
    <2>4. \A c \in Clients \ S : Posted(c)' = Posted(c)
      BY <1>1 DEF Posted
    <2>5. \A c \in S : ~Board[c].queued
      BY <1>2 DEF Board, Posted
    <2>6. Board' = [c \in Clients |-> IF c \in S THEN [name |-> j, queued |-> FALSE]
                                      ELSE Board[c]]
      BY <1>2, <2>3, <2>4 DEF Board
    <2>7. Posting!GiveAll(S, j)
      BY <1>1, <2>5, <2>6 DEF Posting!GiveAll
    <2>8. QED
      BY <1>2, <2>1, <2>7 DEF Posting!BoardNext
  <1>5. QED
    BY <1>3, <1>4

LEMMA BoardNextStep ==
    ASSUME IInv, NamesGiven, [Next]_vars
    PROVE  Posting!BoardNext \/ UNCHANGED Posting!boardVars
  <1>1. ASSUME NEW c \in Clients, Report(c) \/ Presence(c)
        PROVE  UNCHANGED Posting!boardVars
    <2>1. CASE Presence(c)
      BY <2>1, BoardStutter DEF Presence, InitClient, SetClientLastHeard, FallsSilent,
                                UpdateClientLastHeard, LastHeardAges
    <2>2. QED
      BY <1>1, <2>1, ReportPosts
  <1>2. ASSUME NEW c \in Clients, JobEnds(c) PROVE Posting!BoardNext
    BY <1>2, JobEndsPosts DEF Posting!BoardNext
  <1>3. ASSUME NEW c \in Clients, NEW j \in Jobs, SetClientJob(ToDTO(c, j))
        PROVE  Posting!BoardNext
    BY <1>3, SetClientJobPosts DEF Posting!BoardNext
  <1>4. ASSUME NEW w \in Staff, NEW o, SetAllJobs(w, o)
        PROVE  UNCHANGED Posting!boardVars
    BY <1>4, BoardStutter DEF SetAllJobs
  <1>5. ASSUME NEW w \in Staff, NEW c \in Clients, UpdateNextRow(w, c)
        PROVE  UNCHANGED Posting!boardVars
    BY <1>5, BoardStutter DEF UpdateNextRow
  <1>6. ASSUME NEW w \in Staff, RollBackAll(w) PROVE UNCHANGED Posting!boardVars
    BY <1>6, BoardStutter DEF RollBackAll
  <1>7. CASE UNCHANGED vars
    BY <1>7, BoardStutter DEF vars
  <1>8. QED
    BY <1>1, <1>2, <1>3, <1>4, <1>5, <1>6, <1>7, CommitAllPosts DEF Next, SetAllStep

\* A request for all clients is a single step for whoever looks at the jobs: it
\* gives one job to clients none of which has its own (update-repo.go:809-872).
THEOREM QueueImplementsBoard == Spec => ImplementsJobBoard
  <1>1. Init => NamesGiven /\ Posting!BoardInit
    <2>1. SUFFICES ASSUME Init PROVE NamesGiven /\ Posting!BoardInit
      OBVIOUS
    <2>2. NamesGiven
      BY <2>1 DEF Init, NamesGiven, Idle
    <2>3. \A c \in Clients : Posted(c) = [name |-> None, queued |-> FALSE]
      BY <2>1 DEF Init, Posted
    <2>4. QED
      BY <2>1, <2>2, <2>3 DEF Init, Board, Posting!BoardInit, Posting!Nothing
  <1>2. IInv /\ NamesGiven /\ [Next]_vars => NamesGiven'
    BY NamesNext
  <1>3. IInv /\ NamesGiven /\ [Next]_vars => [Posting!BoardNext]_(Posting!boardVars)
    BY BoardNextStep
  <1>4. QED
    BY <1>1, <1>2, <1>3, Inductive, PTL DEF Spec, ImplementsJobBoard, Posting!BoardSpec
=============================================================================
