-------------------------------- MODULE UitApi --------------------------------
(***************************************************************************)
(* The process and its run-time state together: Lifecycle decides which    *)
(* goroutines run, Realtime what they do to the map and the database.      *)
(* Handlers run while the HTTPS server does, the periodic writer and image *)
(* cleaner while their workers are alive, the final write on the way down. *)
(***************************************************************************)
EXTENDS Realtime, Lifecycle

VARIABLES late,     \* tags acknowledged since the shutdown's snapshot was taken
          flushing  \* the final pass has taken its snapshot

vars == <<rvars, lvars, late, flushing>>
observed == <<late, flushing>>

ASSUME PartsAssumption == /\ "https" \in Servers
                          /\ {"lastHeard", "imageCleaner"} \subseteq Workers

TypeOK == RTypeOK /\ LTypeOK /\ late \subseteq Tags /\ flushing \in BOOLEAN

-----------------------------------------------------------------------------
\* A closed pool lends no connection: what needs the database fails.
WithoutDatabase ==
    /\ UNCHANGED db
    /\ \A r \in Requests : at[r] = "resolve" => at'[r] # "store"

\* New requests come in until Shutdown closes the listener; requests in
\* flight go on for as long as the process lives.
Serve ==
    /\ main # "down"
    /\ \/ servers["https"] = "up" /\ Arrival /\ UNCHANGED late
       \/ HandlerStep
          /\ late' = late \cup {t \in Tags : \E r \in Requests :
                at[r] = "store" /\ at'[r] = "idle" /\ msg[r].tag = t /\ flushing}
    /\ main = "close" => WithoutDatabase
    /\ UNCHANGED <<lvars, flushing>>

\* The database is busy with a request, or done with it.
Connects ==
    /\ Borrow \/ GiveBack
    /\ UNCHANGED <<rvars, observed>>

\* The transaction in hand ends: cancellation does not reach its COMMIT.
PeriodicCommit ==
    /\ "lastHeard" \in alive
    /\ \E t \in Tags : CommitLastHeard("background", t)
    /\ UNCHANGED <<lvars, observed>>

\* Fault: the periodic pass does not look at its context.
PeriodicWriteUncancelled ==
    /\ "lastHeard" \in alive
    /\ \/ ~errCtxDone /\ Snapshot("background")
       \/ \E t \in Tags : UpdateClientLastHeard("background", t)
       \/ \E t \in Tags : UpdateFails("background", t)
       \/ StopWriting("background")
    /\ UNCHANGED <<lvars, observed>>

\* The last_heard worker's Exec.  A cancelled context lets no other UPDATE
\* through, and a pass that ends early leaves the rest unwritten.
PeriodicWrite ==
    /\ "lastHeard" \in alive
    /\ \/ ~errCtxDone /\ Snapshot("background")
       \/ ~errCtxDone /\ \E t \in Tags : UpdateClientLastHeard("background", t)
       \/ \E t \in Tags : UpdateFails("background", t)
       \/ StopWriting("background")
    /\ UNCHANGED <<lvars, observed>>

CleanImages ==
    /\ "imageCleaner" \in alive
    /\ ClearOfflineLiveImageBytes
    /\ UNCHANGED <<lvars, observed>>

\* The pass main runs on shutdown, in 20 seconds at most.
FinalWrite ==
    /\ main = "flush"
    /\ \/ ~flushing /\ Snapshot("shutdown") /\ flushing' = TRUE
       \/ \E t \in Tags : /\ \/ UpdateClientLastHeard("shutdown", t)
                             \/ UpdateFails("shutdown", t)
                             \/ CommitLastHeard("shutdown", t)
                          /\ UNCHANGED flushing
       \/ StopWriting("shutdown") /\ UNCHANGED flushing
    /\ UNCHANGED <<lvars, late>>

FinalWriteDone ==
    /\ flushing
    /\ Idle("shutdown")
    /\ FlushDone
    /\ UNCHANGED <<rvars, observed>>

Starts ==
    /\ Start
    /\ LoadFromDB
    /\ late' = {} /\ flushing' = FALSE

\* A worker returns between two Execs only.
Stops ==
    /\ \/ \E s \in Servers : ServerDrains(s) \/ ServerStops(s)
       \/ \E w \in Group : WorkerStops(w) /\ (w = "lastHeard" => Idle("background"))
    /\ UNCHANGED <<rvars, observed>>

Errors ==
    /\ \E s \in Servers : ServerFails(s)
    /\ UNCHANGED <<rvars, observed>>

\* A writer's open transaction holds a connection as well.
Exits ==
    /\ MainExits
    /\ \A w \in Writers : inHand[w] = None
    /\ LoseMemory
    /\ UNCHANGED observed

Crashes ==
    /\ Crash
    /\ LoseMemory
    /\ late' = {} /\ flushing' = FALSE

Signalled == Signal /\ UNCHANGED <<rvars, observed>>
Drains    == Drained /\ UNCHANGED <<rvars, observed>>
Wakes     == MainWakes /\ UNCHANGED <<rvars, observed>>
Listens   == ListenerTakesError /\ UNCHANGED <<rvars, observed>>
Clock     == TimePasses /\ UNCHANGED <<lvars, observed>>

Init == RInit /\ LInit /\ late = {} /\ flushing = FALSE

Next ==
    \/ Serve \/ Connects \/ PeriodicWrite \/ PeriodicCommit \/ CleanImages
    \/ FinalWrite \/ FinalWriteDone \/ Drains
    \/ Starts \/ Stops \/ Errors \/ Exits \/ Crashes
    \/ Signalled \/ Wakes \/ Listens \/ Clock

Spec == Init /\ [][Next]_vars

Returns == GiveBack /\ UNCHANGED <<rvars, observed>>

\* What the process itself does, it does eventually; a transaction ends because
\* every request, every write and every COMMIT has a deadline.
FairSpec ==
    /\ Spec
    /\ WF_vars(Wakes) /\ WF_vars(FinalWrite) /\ WF_vars(FinalWriteDone)
    /\ WF_vars(Drains) /\ WF_vars(Exits) /\ WF_vars(Stops) /\ WF_vars(Listens)
    /\ WF_vars(PeriodicCommit) /\ WF_vars(Returns)

-----------------------------------------------------------------------------
\* The database holds what the map holds.
Saved(t) == t \in DOMAIN liveOS /\ liveOS[t] = realtime[t].heard

\* Once the final write is over, the database holds what the map holds, save
\* for clients acknowledged after its snapshot and writes that failed.  A
\* periodic transaction that outlives its context (cleanupPGXTx) commits before
\* the final one gets its row, and nothing commits an older value afterwards
\* (main.go:185-203, update-repo.go:121-137).
FlushPersists ==
    main \in {"drain", "close"} =>
        \A t \in Unsaved \ (late \cup unwritten) : Saved(t)

\* "last_heard values get written to DB on app shutdown"
\* (background-processes.go:17): an orderly exit loses no acknowledged value
\* whose write did not fail.
LastHeardSurvivesShutdown ==
    [][MainExits => \A t \in Unsaved \ unwritten : Saved(t)]_vars

\* A signal takes the process down, whatever its goroutines wait for and
\* whoever holds a connection when main closes the pools.
SignalStops == rootDone ~> main = "down"

\* An error of a server is in rootErrChan, dropped behind another one, until it
\* stops the background group or the process; and the group takes one at most,
\* so that the next one is left to main (main.go:130-139, 184-203,
\* background-processes.go:81-95).
ErrorKept ==
    /\ \A s \in Servers : servers[s] = "failed" => errs > 0 \/ bgDone \/ rootDone
    /\ bgDone => "listener" \notin alive

\* An error of a server always stops something: the process, or at least the
\* background group.
FailureIsNoticed ==
    \A s \in Servers :
        servers[s] = "failed" ~> (main = "down" \/ bgDone \/ rootDone)

\* "error received from root error channel ... Cancel context to stop all
\* goroutines" (main.go:197-198): a server that fails takes the process down.
ServerFailureStopsProcess ==
    \A s \in Servers : servers[s] = "failed" ~> main = "down"

-----------------------------------------------------------------------------
\* While no process runs, the map is what the next one will load.  Seen like
\* this an exit or a crash is one restart, and starting changes nothing.
Seen    == IF main = "down" THEN FromDB ELSE realtime
Runtime == INSTANCE Realtime WITH realtime <- Seen

\* The process, whatever goroutines run and however it stops and comes back,
\* does to the map and the database nothing but what Realtime allows
\* (main.go:104, :185-203, background-processes.go).
ImplementsRealtime == Runtime!RSpec

-----------------------------------------------------------------------------
\* The inductive invariants behind the theorems of UitApiProofs.

Ending == main \in {"flush", "drain", "close"}

\* Nothing of a process outlives it, and the stages of main follow each other.
Stages ==
    /\ main = "down" => alive = {} /\ \A w \in Writers : Idle(w)
    /\ main = "select" => ~flushing
    /\ Ending => rootDone
    /\ main \in {"drain", "close"} => flushing /\ Idle("shutdown")

\* Between the final snapshot and the end, an unsaved value that is not late
\* is in the snapshot as it stands, failed to be written, or has been and no
\* transaction in hand can overwrite it.
Carried ==
    \A t \in Tags \ late :
        /\ t \in DOMAIN todo["shutdown"] =>
              t \in DOMAIN realtime /\ todo["shutdown"][t] = realtime[t].heard
        /\ t \in Unsaved => \/ t \in unwritten \cup DOMAIN todo["shutdown"]
                            \/ Saved(t) /\ inHand["background"] # t

\* A row is held by one of the two transactions at most.
OneHolder == inHand["background"] = inHand["shutdown"] => inHand["shutdown"] = None

FlushIInv == OneHolder /\ (Ending /\ flushing => Carried)
=============================================================================
