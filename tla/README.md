# uit-api: a TLA+ model

uit-api (`src/uit-api_1.0-1_amd64/opt/uit-toolbox/uit-api/`, abbreviated `uit-api/` below) is the web server of an
inventory and imaging system: browsers of technicians and the laboratory's computers ("clients", known by a tag
number) talk to it over HTTPS; PostgreSQL keeps what must last; three in-memory maps behind mutexes keep web sessions,
rate limits and the state of every client that has called lately. This directory holds TLA+ modules of those parts,
TLC configurations that check them, and TLAPS proofs.

The repository has no tests and no written design. What the code is meant to do is taken from its comments, its log
and error messages, and the way its parts use each other.

## Inventory

| Component | State | Operations | What must hold |
|---|---|---|---|
| Web sessions (`auth/auth.go`, `CookieAuthMiddleware`, `WebAuthEndpoint`) | map session id → address, two token expiries; at most 1000 | login, validate and renew, logout, expiry by the cleaner and by every request | ended sessions stay ended; a handler begins only for the owner of a live session; expiry is bounded; capacity overshoot is bounded |
| Rate limiter and bans (`auth/limiters.go`, `RateLimitMiddleware`) | per type a map address → token bucket and last-seen time; map of bans | admit or ban, push a ban back, two cleaners | rate bound in every window although entries come and go; bans are kept and end |
| Realtime client state (`appstate/`, `SetClientLastHeard`, `SetClientUptime`, `UploadLiveImage`, `writeLastHeardToDB`) | map tag → last_heard, flag "saved", UUID, live image; table `live_os_data` | update, online test, periodic and final write, image cleaner, load at start | the flag never hides an unsaved value; "online" means recent contact; what the final write should save is saved |
| Process lifecycle (`main.go`, `webserver/`, `background-processes.go`) | root context, background group's context, `rootErrChan` (10), goroutines | start, signal, server failure, shutdown, 20 s drain, crash | a signal ends the process; failures are noticed; no flush is undone |
| Inventory images (`UploadClientImage`, `DeleteImage`, `GetClientImagesManifest`, `GetImage`, `TogglePinImage`) | files in `/opt/inventory_images`, table `client_images` | upload, delete, list, download, pin | the two stores agree after any failure or crash; what is shown could be seen |
| Job queue (`SetClientJob`, `SetJobQueuedAt`, `SetAllOnlineClientJobs`, telemetry, job queue page) | tables `job_queue`, `live_os_data` | give a job to one client or to all that are online, tell a client its job and place, show the table | a client's own job is not overwritten; a request for all clients works as if all at once |
| Client reports (`SetClientHardwareData`, health checks, `ReceiveWindowsClientInfo`, `UpdateJobStats`) | `hardware_data`, `client_health`, `os_info`, `jobstats` and five histories | one transaction per report, in any order and repeated | reports are whole; rows name only clients that reported under their id; what is known stays known |
| Inventory updates (`InsertInventoryUpdate`, bulk location, `InitClient`) | tables `ids`, `locations`, `hardware_data`, `client_health`, `checkout_log` and others | four transactions per update, one per client of a bulk change | no row without its client; an acknowledged update is complete and stays |
| Connection pools (`database/connection.go`, `cleanupPGXTx`) | two pools of 30 connections | acquire, release, transactions that look something up on a second connection | no connection is lost; every request ends |
| HTTP middleware and routes | endpoint table, constraints (constant) | a fixed chain per route | partly: the two middlewares with state; the others decide on the request alone |
| Read-only queries (`database/select-repo.go`) | none | SELECT | partly: the ones whose answers a property needs stand with the component they read |
| Log buffers, configuration, types | buffers; constants; none | flush; read once; validate | conversions only where a property needs them, the others not at all |

The parts meet in three places. Every request passes the rate limiter, then, on the HTTPS server, the session check,
then its handler. The background goroutines (`background-processes.go`) run the cleaners of all three maps and the
periodic write. `main` starts and stops everything and writes `last_heard` on the way out.

What is hard here: goroutines interleave between the critical sections of one operation and go on with what they read
in an earlier one; clock readings are taken once and used later; cleaners delete by key what they found under an
earlier lock; two goroutines receive from one error channel; the shutdown runs while requests are served; two stores
(map and table, files and table) are updated without a common transaction; a statement that changes many rows takes
their locks one by one; reports come late, twice, or not at all; the process may die anywhere. `hazards` in
PROJECT.json lists each with its line.

## Modules

| Module | Models | Notes |
|---|---|---|
| `SessionService` | what the session store promises | abstract: issue, retire, begin and end a handler, restart |
| `AuthSessions` | `auth/auth.go` and its callers | one step per critical section; implements `SessionService` |
| `AuthSessionsProofs` | theorems about `AuthSessions` | TLAPS |
| `RateLimitService` | what the rate limiter promises | abstract: one bucket per address and type that only time fills, bans that are lifted when they are over |
| `RateLimiter` | `auth/limiters.go` and its middleware | implements `RateLimitService`; `golang.org/x/time/rate` is external: a bucket that refills per tick |
| `RateLimiterProofs` | theorems about `RateLimiter` | TLAPS |
| `Realtime` | `ClientRealtimeData`, `live_os_data`, handlers, writers | one step per critical section or transaction; saving a last_heard is two, UPDATE and COMMIT |
| `RealtimeProofs` | theorems about `Realtime` | TLAPS |
| `Lifecycle` | `main`, servers, background group, `rootErrChan` | actions only; it has no specification of its own |
| `UitApi` | `Realtime` and `Lifecycle` together | says which step of the state may happen while which goroutine is alive; implements `Realtime!Spec` |
| `UitApiProofs` | theorems about `UitApi` | TLAPS; uses the lemmas of `RealtimeProofs` |
| `ImageLibrary` | what the image store promises | abstract: the life of an id (file, row, hidden or abandoned), which only goes forward |
| `ImageStore` | upload, deletion, pins, list and download of images | one step per file operation or transaction; implements `ImageLibrary` |
| `ImageStoreProofs` | theorems about `ImageStore` | TLAPS |
| `Inventory` | inventory updates, bulk changes, the pgx pool | one step per statement that waits, or per transaction that does not |
| `InventoryProofs` | theorems about `Inventory` | TLAPS |
| `JobBoard` | what the job queue promises | abstract: one job per client; a request for all clients is one step that takes no client's own job |
| `JobQueue` | `job_queue`, its writers, what a client is told of its job, who counts as online for them | one step per row of the bulk statement, per transaction otherwise; implements `JobBoard` |
| `JobQueueProofs` | theorems about `JobQueue` | TLAPS |
| `ClientReports` | what clients report, the tables it goes to, the pages that combine them | one step per report |
| `ClientReportsProofs` | theorems about `ClientReports` | TLAPS |
| `MC*` | constants and symmetry for TLC | |

Operators named "Fault: ..." stand before the definition they resemble. They are not part of any specification; each
is a plausible mistake in that definition, and putting it in its place must break the property PROJECT.json names.

### State and code

*AuthSessions.* `sessions` is `AuthSessions.M`; `pc[p]` says which critical section goroutine `p` is before, `req[p]`
holds its locals: the captured `time.Now()`, the ids collected as expired, the session copy to write back. Tokens,
cookies and credentials are abstracted to the session id: a request carries the id of a session once issued, or none.
`Restart` empties the map.

*RateLimiter.* `limiters[lt]` are the maps of one type, whose entries point into `buckets`, so that a call may hold a
pointer to a bucket whose entry is gone. `since`, `admitted` and `promised` are an observer's: it counts what was let
through since an arbitrary moment, and remembers the latest time a client was told to wait until.

*Realtime.* A client is what the code's decisions read: whether the UUID is known, the last_heard time, the flag
`LastHeardUpdatedInDB`, whether there is a live image. `todo[w]` is what writer `w` has yet to write of its snapshot.
The memory, CPU and network handlers count as one action, for all they share with this component is the row in
`live_os_data` they may insert. Uptimes are values no decision reads. A pass saves each value in a transaction: the
UPDATE takes the row (`inHand`), and `cleanupPGXTx` commits in a later step, under a context derived from
`context.Background()`, so that it happens whether or not the pass has been cancelled in between. A COMMIT may fail or
lose its answer; that the server carries one out after the client has given up on it is not modelled.

*Lifecycle, UitApi.* A server is up, failed, draining or down. Handlers run until the HTTPS server stops taking
requests, and those in flight as long as the process lives, because `Shutdown` has its own 30 s while main waits 20 s.
`conns` counts the database connections that handlers hold. The process is gone only after main's deferred Close of
the two pools (`MainExits`), which lends nothing more and waits, without a timeout, until every connection is back,
those of the writers' open transactions included. That is how pgxpool's Close works; that of database/sql waits for
less, and counting its connections as well only makes the wait longer.
`late` and `flushing` are an observer's: which acknowledgements came after the final snapshot. Errors of the
initialisation before the first goroutine end the process at once and are not told apart from not starting.

*Inventory.* A row is who wrote it last; a row of `locations` has two writers, that of the place and that of the other
columns, for a bulk change writes one and copies the rest. `inserted` are uncommitted rows of `ids`, `holder` the row
lock of `locations`. The lock tables and commits of PostgreSQL at READ COMMITTED are external: a statement sees what
is committed, an insertion of the same key waits for the undecided one, an upsert waits for the row. The three later
transactions of an update, those of a bulk change and `InitClient` use the database/sql pool and never wait for a
second connection; each is one step, a bulk change two, because its SELECT reads before its upsert has the row lock.
`Lookups` are the other functions that call `GetClientUUIDByTag` inside a transaction; what they write concerns
nothing here. `before` is an observer's: which updates had ended when a request came.

*ImageStore.* File ids are numbered in the order they are generated. Every check that refuses a file before its hash
is taken is the kind "unfit"; every failure after that is a disjunct of the step. A database transaction commits or
does not: a commit whose answer is lost is not modelled. A request names a tag that exists; for one that does not, the
handler panics before it writes anything. A reader selects the rows first and reads their files one by one afterwards;
`unread` are files it could not read though they were there. `removed`, `leaked`, and a reader's `live` (what could be
seen when it asked) and `gone` (what had been removed by then) are an observer's.

*JobQueue.* `job` is the table, `online` the clients `GetAllOnlineClientUUIDs` finds in the map, `recent` those whose
`last_heard` in `live_os_data` is at most ten seconds old: two notions of presence that the code uses side by side.
`SetAllOnlineClientJobs` is `SetAllJobs` (the statement's snapshot), `UpdateNextRow` once per row (READ COMMITTED
waits for the lock and evaluates the condition again) and `CommitAll` or `RollBackAll`; all other writers change one
row in one transaction, which waits while the row is locked. Telemetry counts for the rows it makes. The places in the
queue and the job queue page are left out: they write nothing, and what they show is one query over one list. So is
the time a job was queued, which nothing else reads. Whoever runs the jobs is not in this repository: `JobEnds` is external.
`assigned` is an observer's: the job a client was last given by a request of its own.

*ClientReports.* A field is known or not; a report is a record of what it brings. A report's transaction id is one a
machine sends (`Linux`; the server gives them out, but nothing ties an id to a client, and health checks go by tag,
hardware reports by serial number) or, for a Windows report, one made on arrival (`Fresh`). Each handler locks the
client's row in `ids` first and is one step: a failure between two statements is the database's to roll back. A
report of a master job whose newest image is NULL may fail on `image_name` or refresh nothing; the first is a step
that changes nothing. The tables are keyed as in the database: histories by transaction, the
rest by client. `agreed` and `heard` are an observer's: the Windows reports whose tag and serial number belong to one
client, and the job reports stored. The statements that write columns of the inventory form share rows with the
reports and appear here by that (`UpdateInventoryHardwareData`, `InsertInventoryUpdate`); what they do otherwise is in
`Inventory`.

## What TLC checks

| Run | Instance and bounds | What it shows |
|---|---|---|
| `auth_safety` | 2 requests, 1 session, two outside addresses and one LAN address, TTL 1, clock to 2 | no interleaving of lookups, renewals, logouts, cleanups and restarts brings a session back, pushes an expiry beyond one TTL, or starts a handler for anyone but the owner of a session live at that moment; an expired session is freed or renewed, unless the cleaner has ended |
| `rate_limits` | 2 requests, one address, one type with 2 tokens, clock to 4, ban 2, entry lifetime 3 | rate bound in every window; an attached entry is not cleaned away under a call; bans are kept up to `MaxStall` and end one duration after the last retry (`BansTimed`); all of it is a behaviour of `RateLimitService` |
| `uit_process` | HTTPS server, two workers, channel of capacity 1, 1 handler, 1 tag, clock from 1 to 2, timeout 0, skew 0, no other holder of a connection | flag and online test are truthful; nothing older overwrites what the final write saved, with a periodic transaction that commits after its cancellation, failures, crashes and restarts at any point; the map and the database change as `Realtime` allows |
| `uit_liveness` | two servers, two workers, channel of capacity 1, 1 handler, one connection lent to other requests | shutdown ends the process although main waits for every connection, failures are noticed, and no error is lost before someone stops for it (`ErrorKept`) |
| `uit_server_error` | two servers, channel of capacity 2 | violated: the background listener takes the error and main waits on |
| `uit_shutdown_loss` | as `uit_process` | violated: a value acknowledged after the final snapshot is lost |
| `image_store` | 2 requests, uploads of up to 2 files, 2 ids, quota 1 of each kind | hidden means gone and rows have files (`StoresAgree`), files are accounted for, quota, answers show what could be seen; every id lives one life of `ImageLibrary` |
| `inventory` | 2 updates, 1 bulk change, 1 lookup, 1 tag, 2 connections | no connection lost, no orphans, acknowledged updates stay, nobody waits for rows in a circle, every request ends |
| `inventory_new_client` | 1 update, 1 tag | violated: an update does not find the client it has inserted |
| `job_queue` | 2 clients, 2 requests for all clients, 2 job names | jobs given to a client stay; all of it is a behaviour of `JobBoard` |
| `set_all_jobs` | 1 client, 1 request for all clients | violated: an online client without a job is passed over |
| `client_reports` | 2 clients that run both systems and share one Linux transaction, 2 fresh ids, 3 Windows reports (one whose tag and serial number disagree, one of an unknown tag), 5 job reports on two jobs, clock to 2 | no report is stored in part, rows name clients that reported under their id, nothing known is forgotten; the inventory follows the newest job; only masters refresh images |

Why the bounds are enough to be interesting. Races here are between one operation's critical sections and one other
goroutine's, so two requests and the cleaners meet all of them; a second tag or address would add only independent
copies, for nothing in these components relates two of them. Where something does there are two: addresses for the
ownership in `SessionService`, clients for the row locks of `JobQueue` and the reports of `ClientReports`. The clocks run
past a TTL, a ban and a cleaner's interval, so that everything expires and is renewed at least once. Two connections
are the fewest with which an update can succeed at all and two can block each other. An error channel of capacity 1 is
full after one error, as the code's is after ten. The job reports are regular and irregular ones, an older and a newer
job, a master and an image named later; a third job would repeat one of the two. A theorem that holds for every value
of the constants stands behind all but the liveness properties.

In `uit_process` a client is online only in the tick of its last contact; the clock ends at 2, one tick after the
earliest contact, which is enough for every value to become old, and for the abstract specification to be checked
along. Clients whose clocks run ahead (skew above 0) are the theorem's alone.

`MaxStall` in `RateLimiter` is an assumption on the machine: a call that waits for nothing but short critical sections
returns within that time. Without it a stalled call could write a ban from an arbitrarily old clock reading.
`RefillAssumption` says that an entry's bucket is full again before the entry is discarded as idle, which the code's
constants satisfy by two orders of magnitude. It allows for two stalls: a call may date an entry back to its own clock
reading after another has used it, and the cleaner's reading may be older than that. A first version allowed for one,
no run of this size objected, and the proof could not be completed.

### Fairness

`AuthSessions!FairSpec` is weakly fair to the cleaner's goroutine only: its ticker keeps firing and it waits for
nothing but a mutex. The cleaner may also end for good (`CleanerStops`), as it does when the background group's
listener takes an error while the servers live on; `ExpiredEventuallyFreed` promises nothing after that. Requests owe
nobody an arrival. `UitApi!FairSpec` is weakly fair to main's own steps, to the
goroutines that return when their context is done, to the listener, to the COMMIT of a periodic transaction and to the
end of a request that holds a connection. The first are goroutines that are runnable and will be scheduled. Main waits
20 s at most for the final write and for the drain, but without a timeout for the pools to close; that this ends rests
on the last two, and they on deadlines: 5 s on every write and every COMMIT, `APITimeoutMiddleware`'s on every request. `Inventory!FairSpec` is weakly fair to what the database does with
a statement it has been given, and to the deadline of a request that waits for a connection (`APITimeoutMiddleware`
puts one on every context). Waits for rows need no deadline: whoever holds a row waits for
nothing but connections, and no circle of such waits is possible (`NoLockCycle`, proved).
Errors, crashes, signals and requests are never obliged to happen. The other modules state safety only: nothing in
them waits for more than a row, a lock or a connection.

### Where the code disagrees with itself

* `uit_server_error`: `main` says an error stops all goroutines; `initBackgroundProcesses` receives from the same
  channel, and when it wins, only the background goroutines stop: no cleaner, no periodic write, no log flush, and the
  process lives on without the server that failed.
* `uit_shutdown_loss`: the comment says last_heard values get written on shutdown; the write happens before the
  servers have drained.
* `inventory_new_client`: an update of an unknown tag inserts the client and asks the pool for its uuid, on another
  connection, which cannot see the uncommitted row. The update is rolled back, and so is every later one, until the
  client has been entered in another way.
* `set_all_jobs`: the answer says all client jobs were set; the statement selects the clients by a column that is
  written every half hour, and not by the map that knows who is online.

Seen while modelling, without a run of their own:

* A cleanup deletes expired sessions by id, after it has collected them under an earlier lock; one that a request
  validated just in time and renewed in between is deleted while valid (`CollectExpired`, `DeleteExpired`). A comment
  calls the cleanup a mere release of memory.
* Duplicates in an upload are reported as skipped and stored: two `continue` statements continue the wrong loop, and
  the manifest query does not select the hash it is compared by (`NextFile`, `TimesSeen`).
* A bulk change that overlaps an inventory update puts the fields it copied back, and reports tags it skipped as
  updated.
* The images and videos of an upload are counted as uploaded before they are saved, so that a file that could not be
  saved is both uploaded and failed in the response.
* A thumbnail stays when its file cannot be saved (post.go:1242).
* After a fatal error main returns with status 0, so `Restart=on-failure` does not restart the service.
* The periodic pass waits a second per client and ends after 45: with more clients than that, some are never written
  by it (background-processes.go:250). A bulk location update commits tag by tag and stops at the first failure.
* Places in the queue are counted within the list of online clients of the moment: two clients that ask at the same
  time may be counted against different lists. The job queue page reads the data and the list of online clients under
  two locks, and shows a client that came online in between as online with the zero time (select-repo.go:1605-1612).
* An error of a log flush is assigned to a variable that shadows the one returned, and goes nowhere
  (background-processes.go:104-109).
* `StoreBulkUpdateData` writes any session back by an id from the request's body; no route leads to it.
* Jobs: nothing resets `job_queued_at` or sets `job_active`. `ToDTO` wants a client's uuid, tag and serial number even
  of a request for all clients. A client without a row is answered an error, for the code compares with
  `pgx.ErrNoRows` and the driver returns `sql.ErrNoRows`. One row that cannot be converted makes the whole job queue
  page an error (select-repo.go:1618). Two requests for all clients may deadlock, and PostgreSQL rolls one of them
  back.
* Reports: a Windows report sent twice is stored twice in the histories. Its firmware goes by the tag and everything
  else by the serial number, and nothing compares the two. `ad_sid` is never updated; `clone_master` is reset by any
  later report that leaves it out; a master's report refreshes the image of the client's newest master, whichever that
  is. The inventory form takes what it is given, empty or not, for columns that clients report as well. SKU, chassis
  type and OU name are parsed and not stored.
* The inventory, client info and job queue pages disagree on `os_installed` of a client without finished jobs (NULL,
  TRUE, TRUE), and the job queue alone ignores cancelled jobs. `NeedsErasing` is never reported, because an earlier
  condition continues the loop (select-repo.go:1198-1213).
* Middleware: `AllowedFilesMiddleware` and `CookieAuthMiddleware` call `err.Error()` where only a comparison has
  failed and err is nil: `PanicRecovery` answers 500 in place of 403 or a redirect. The HTTPS server counts a request
  against the rate limit after its base checks, the file server before.

## What is proved

The theorems hold for every value of the constants that satisfies the named assumptions: any number of requests,
addresses, session ids, tags, clients, reports, servers and workers, any rate, quota, TTL, timeout, skew and channel
capacity. tlapm checks every leaf.

*AuthSessionsProofs.* From `ProcAssumption`, `IdAssumption`, `LanAssumption` and `NatAssumption`.

* `Inductive`: `IInv` is an invariant. `TypeOK` alone is not inductive, for a handler puts into the map what it keeps
  in its locals; `IInv` adds what each goroutine's locals hold at each step (`Known`), that a copy has the owner of
  the stored session (`SameOwner`), and that stored ids were issued. `Typing` follows.
* `GoneStaysGone`: `NoResurrection`. Both write-backs test for the entry inside the critical section that writes it,
  and a new entry has an id that was never issued, while every id once stored was.
* `CapacityHolds`: `CapacityBound`. Counting the logins between check and insertion makes the bound inductive: check
  and insertion move a login from one summand to the other, and the check admits one only below the limit.
* `HorizonHolds`: `ExpiryHorizon`. Captured clock readings and pending copies obey the same bound as stored sessions.
* `Refinement`: `AuthSessions` implements `SessionService`. `IInv` is what shows that the write which admits a handler
  happens for the owner of a session that is live at that moment.

*RateLimiterProofs.* From `ProcAssumption`, `RateAssumption`, `TimeAssumption` and `RefillAssumption`.

* `Inductive`: that a token is taken for every request let through says nothing about a window in which an entry is
  discarded and made anew with a full bucket. `BucketsRefilled` closes that gap: a bucket that was last used by a call
  at `lastSeen`, give or take two stalls, holds what has flown in since. An entry the cleaner finds idle therefore has
  a full bucket, and discarding it changes no `Allowance`. `Budget` then says that what has been let through and what
  may still be are together within the bound. `EntriesHeld` gives the other half: an entry that a call is about to use
  is at most two stalls old and hence not idle, so nobody takes tokens from a bucket that is in no map.
* `RateHolds`: `RateBound` from `Budget`. `AttachedHolds`: `AttachedStays` from `EntriesHeld`.
* `BansHold`: `BansTimed`. With `PromisesNear`, every end of a ban is one duration after a clock reading that is at
  most one stall old (`CallsTimed`).
* `LimiterImplementsService`: the refinement, with `Tokens[lt][ip] = Allowance(lt, ip)`: what is in the address's
  bucket, or a full bucket where there is no entry. `IInv` makes the cleaner's step a stutter, for what it discards is
  full, and lets the token a call takes from its pointer be one of the address's own bucket.

*RealtimeProofs.* From `TagAssumption` and `TimeAssumption`.

* `Typing`: a handler past its checks knows its tag (`TypeIInv`).
* `FlagHolds`: `FlagTruthful`. It is not inductive: a writer could overwrite the value an entry is marked with.
  `Pending` excludes that: what a pass has yet to write belongs to entries that are not marked, and nothing but a
  restart marks one.
* `RecentHolds`: `OnlineIsRecent`. Every copy of a last_heard value, in the map, the table, a snapshot or a request,
  is at most `Skew` ahead of the client's last contact (`RecentIInv`).

*UitApiProofs.* From the above and `CapAssumption`.

* `ProcessTyping`, `ProcessFlagHolds`: what holds of the map holds in the process. Loading the map is safe because no
  writer of an earlier process is left (`Stages`).
* `ProcessImplementsRealtime`: every step of the process is one of `Realtime` or a stutter. While no process runs the
  map is mapped to what a start would load (`Seen`). So an exit or a crash, in the middle of any handler or write, is
  one `Restart`, and the start after it a stutter. `ProcessOnlineHolds`: `OnlineIsRecent` of the process, over crashes
  and restarts.
* `ErrorHolds`: `ErrorKept`. It is inductive with `ErrorIInv`, which adds that no goroutine outlives its process; it is the
  safety half of what `FailureIsNoticed` asks. What it does not say is what `uit_server_error` refutes: that main is the one to stop.
* `FlushHolds`: `FlushPersists`. Between the final snapshot and the end, an unsaved value that is not late is still in
  the snapshot, or its write failed, or it has been written and the periodic writer does not hold its row (`Carried`).
  Main leaves its select only with the root context cancelled, and from then on no periodic UPDATE starts. A
  periodic transaction whose UPDATE has run still commits, perhaps an older value and after the final snapshot; but
  the row is its own until then (`OneHolder`), so the final UPDATE of that client comes after it.

*InventoryProofs.* From `KindAssumption`, `NoneAssumption` and `PoolAssumption`.

* `Inductive`: types and `Conserved` are inductive only together, for it is the count of the connections held that
  keeps `free` within the pool; `Kinds` adds which steps belong to which kind of request. Every step of a request
  changes `free` by the difference of what it holds before and after (`EveryStepMoves`), so `Conserved` needs one
  argument about cardinalities for all steps (`MoveConserves`). `Typing` and `PoolConserved` follow.
* `OrphansNever`: `NoOrphans`, from `Resolved`: whoever is about to write a row has found the client committed.
* `NoCircle`: `NoLockCycle`. `LocksInOrder`: who has inserted a row of `ids` is past waiting for another's, and who holds a
  row of `locations` waits for nothing but its commit. So a chain of waits ends after two. The
  fairness of `RequestEnds` rests on it.
* `NewClientFails`: the finding of `inventory_new_client` for every value of the constants.
* `AcknowledgedHolds`: `AcknowledgedStays`. Requests that count as earlier have ended and write no more
  (`EarlierEnded`); a copy a bulk change still holds is as good as the row it was taken from (`CopiesStay`).

*ImageStoreProofs.* From `BoundAssumption` and `NoneAssumption`.

* `Inductive`: `UploadsApart` (an upload at work has an id no other upload and no row has), `DeletionsInOrder` (what
  each step of a deletion knows of its file: once it is past "remove" the file is gone), `RemovedForGood` (a removed
  file is not written again, for ids are not given out twice), `Counted` (what a request stored, with the file in
  hand, is no more than it counted) and `ReadersKnow` (what a reader has shown, missed and has yet to read, against
  what it saw when it asked).
* `StoresHold`, `FilesAccounted`, `QuotaHolds`, `AnswersTrue`: the run's properties, from it.
* `StoreImplementsLibrary`: the refinement. `UploadsApart` shows that a file is written for a new id and a row follows
  its own file, `DeletionsInOrder` that hiding comes after removing, `RemovedForGood` that no life begins twice.

*JobQueueProofs.* From `NoneAssumption`.

* `AssignedHolds`: `AssignedStays`, from `RowsTaken` (a request for all clients holds the locks of free rows only) and
  `JobsKept`.
* `QueueImplementsBoard`: the refinement, with the committed rows as the board. While a request for all clients is
  undecided the board shows nothing of it. Its commit is `GiveAll` of the rows it holds, none of which is a client's own by `RowsTaken`; a
  roll-back and every step before the commit are stutters.

*ClientReportsProofs.* From `ClientAssumption`, `ReportAssumption`, `TxAssumption` and `JobAssumption`.

* `Inductive`: `ReportIInv` says which clients each transaction may have rows of (`LinuxOwned`, `FreshOwned`) and that an id
  not given out yet has none (`FreshUnused`); `JobIInv` that a job's row is what its reports have said, no less
  (`HeardStored`) and no more (`RowsHeard`, `OutcomesHeard`).
* `WholeHolds`, `KnownHolds` (an action property), `RefreshHolds`.
* `StoredForReporterHolds`: `StoredForReporter`. `TxAssumption` says that fresh ids are not ids Linux clients use, and
  nothing of which client uses which: two clients that share an id both have rows under it, but nobody else has. The
  firmware of a Windows report whose tag and serial number disagree is outside the property, for the code stores it
  for the tag's client.
* `InstalledHolds`: `InstalledFollowsNewestJob`. The newest of a client's finished jobs exists because the reports are
  finitely many, and its row has the outcomes of the job that started last.

Every inductive invariant was first checked by TLC as an invariant of the run of its module.

## What is only model-checked

* Liveness (`ExpiredEventuallyFreed`, `SignalStops`, `FailureIsNoticed`, `RequestEnds`): the prover does not reason
  about fairness or ENABLED.
* The violations: they are counterexamples, and TLC shows each. Only `inventory_new_client` has a theorem beside it.

`CapacityBound` is the other way round: it is proved, and no run checks it.

The prover cannot instantiate the induction theorems of its library either, nor work in modules with RECURSIVE
operators; no module here has one.

## What is not modelled, and why

* Contents: JSON, SQL text, header and URL syntax, hashing, thumbnails. What they decide appears as a disjunct.
* `crypto/rand`, `net/http`, `pgx`, `x/time/rate`, `errgroup`: external, modelled by how the code uses them. In
  particular ids do not repeat, and a transaction is atomic.
* The stateless middlewares: each decides on the request and the configuration alone. Which of them a route has is a
  constant table; a module of it would restate the table.
* Queries that read one committed state and format it, log formatting and configuration: nothing they do reaches the
  state the properties speak of.
* Which of many equal fields a report brings, numbers in telemetry, notes: values no decision reads.
* `SetClientHealth` and the database's uptime functions: nothing calls them.
* Session tokens apart from their expiry: the values of the basic and bearer cookies are not compared with the
  session's (the session is looked up by its id alone, and `IsAuthSessionValid` compares it with itself,
  auth.go:236-241), so the model's requests carry an id only.
* The wait for a client's row in `os_info`, which ends the first transaction of an inventory update while it holds the
  client's row of `locations` (update-repo.go:584): whoever else holds a row of `os_info` waits for none of
  `locations`, so it closes no circle.
* Places in the job queue, the job queue page, and the log buffers: nothing a property speaks of depends on them.
* Commits whose answer is lost, connections that break, and the 5 s limit on a commit: a transaction that fails is
  rolled back and its connection comes back. In `Realtime` alone a COMMIT's answer may be lost.
* Who runs a job and when it is done: outside the repository, external in `JobQueue`.

## Plan

Built, in this order: `AuthSessions` over `SessionService`; `RateLimiter`; `Realtime` and `Lifecycle`, composed in
`UitApi`; `ImageStore`; `Inventory`; `JobQueue`; `ClientReports`; then the proofs of `JobQueue`, `ClientReports`,
`ImageStore` and `RateLimiter`; then the abstract specifications `RateLimitService`, `ImageLibrary` and `JobBoard`
with their refinements, that of `Realtime` by the process, `ErrorKept` and `NoLockCycle`. Runs that asked a narrower question were merged into wider ones: session liveness into
`auth_safety`, the map alone into `uit_process`.

What is left, the more useful first:

1. `JobQueue` and `Realtime` share `live_os_data` and the map; a composition like `UitApi` would replace `recent` and
   `online` by them, and could tell how long a client stays out of reach of a request for all clients.
2. Theorems: an abstract specification of `Inventory` and of `ClientReports` (a report arrives as a whole, for one
   client, and a repeated one changes nothing but its time), and an action property of the board: who takes a job away.
3. `LogBuffer`: the two buffered writers and their flushes.
4. The database/sql pool beside pgx's in `Inventory`.
