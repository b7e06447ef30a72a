---------------------------- MODULE UitApiProofs ----------------------------
(***************************************************************************)
(* Theorems about the whole process for any requests, tags, servers,       *)
(* workers and channel capacity: types, what RealtimeProofs shows of the   *)
(* map carried over to a process that starts, stops and crashes, and what  *)
(* the final write saves.                                                  *)
(***************************************************************************)
EXTENDS UitApi, RealtimeProofs

-----------------------------------------------------------------------------
\* What a step of the process is to Realtime.

LEMMA RealtimeStep ==
    ASSUME Next
    PROVE  \/ RNext \/ UNCHANGED rvars
           \/ LoadFromDB /\ main = "down"
           \/ LoseMemory
  <1>1. "background" \in Writers /\ "shutdown" \in Writers
    BY DEF Writers
  <1>2. CASE Serve
    BY <1>2 DEF Serve, RNext
  <1>3. CASE PeriodicWrite
    BY <1>1, <1>3 DEF PeriodicWrite, RNext, WriterStep
  <1>9. CASE PeriodicCommit
    BY <1>1, <1>9 DEF PeriodicCommit, RNext, WriterStep
  <1>4. CASE FinalWrite
    BY <1>1, <1>4 DEF FinalWrite, RNext, WriterStep
  <1>5. CASE CleanImages \/ Clock
    BY <1>5 DEF CleanImages, Clock, RNext
  <1>6. CASE Starts
    BY <1>6 DEF Starts, Start
  <1>7. CASE Exits \/ Crashes
    BY <1>7 DEF Exits, Crashes
  <1>8. CASE FinalWriteDone \/ Stops \/ Errors \/ Signalled \/ Wakes \/ Listens
            \/ Connects \/ Drains
    BY <1>8 DEF FinalWriteDone, Stops, Errors, Signalled, Wakes, Listens, Connects, Drains
  <1>10. QED
    BY <1>2, <1>3, <1>9, <1>4, <1>5, <1>6, <1>7, <1>8 DEF Next

-----------------------------------------------------------------------------
\* Types.

LEMMA MapTypeNext ==
    ASSUME TypeIInv, [Next]_vars
    PROVE  TypeIInv'
  <1>1. CASE RNext
    BY <1>1, TypeNext
  <1>2. CASE UNCHANGED rvars
    BY <1>2 DEF rvars, TypeIInv, RTypeOK
  <1>3. CASE LoadFromDB
    BY <1>3, FromDBType DEF LoadFromDB, db, TypeIInv, RTypeOK
  <1>4. CASE LoseMemory
    BY <1>4, EmptyType DEF LoseMemory, db, TypeIInv, RTypeOK, Message, NoMsg
  <1>5. QED
    BY <1>1, <1>2, <1>3, <1>4, RealtimeStep DEF vars

LEMMA SendType ==
    ASSUME LTypeOK, Send
    PROVE  errs' \in 0..ErrCap
  BY CapAssumption DEF LTypeOK, Send

LEMMA TakeType ==
    ASSUME LTypeOK, errs > 0, errs' = errs - 1
    PROVE  errs' \in 0..ErrCap
  BY CapAssumption DEF LTypeOK

LEMMA NoErrors == 0 \in 0..ErrCap /\ 0 \in 0..MaxConns
  BY CapAssumption

LEMMA ConnType ==
    ASSUME LTypeOK, Borrow \/ GiveBack
    PROVE  conns' \in 0..MaxConns
  BY CapAssumption DEF LTypeOK, Borrow, GiveBack

LEMMA LTypeNext ==
    ASSUME LTypeOK, [Next]_vars
    PROVE  LTypeOK'
  <1>1. CASE UNCHANGED lvars
    BY <1>1 DEF lvars, LTypeOK
  <1>2. CASE Start
    BY <1>2 DEF Start, LTypeOK, MainSteps
  <1>3. CASE Signal
    BY <1>3 DEF Signal, LTypeOK
  <1>4. CASE MainWakes
    BY <1>4, TakeType DEF MainWakes, LTypeOK, MainSteps
  <1>5. CASE FlushDone \/ Drained
    BY <1>5 DEF FlushDone, Drained, LTypeOK, MainSteps
  <1>6. CASE MainExits \/ Crash
    BY <1>6, NoErrors DEF MainExits, Crash, ProcessGone, LTypeOK, MainSteps
  <1>7. ASSUME NEW s \in Servers, ServerFails(s) \/ ServerDrains(s) \/ ServerStops(s)
        PROVE  LTypeOK'
    BY <1>7, SendType DEF ServerFails, ServerDrains, ServerStops, LTypeOK
  <1>8. CASE ListenerTakesError
    BY <1>8, TakeType DEF ListenerTakesError, LTypeOK
  <1>9. ASSUME NEW w \in Group, WorkerStops(w)
        PROVE  LTypeOK'
    BY <1>9 DEF WorkerStops, LTypeOK
  <1>10. CASE Borrow \/ GiveBack
    BY <1>10, ConnType DEF Borrow, GiveBack, LTypeOK
  <1>11. QED
    BY <1>1, <1>2, <1>3, <1>4, <1>5, <1>6, <1>7, <1>8, <1>9, <1>10
       DEF Next, vars, Serve, Connects, PeriodicWrite, PeriodicCommit, CleanImages,
           FinalWrite, FinalWriteDone, Starts, Stops, Errors, Exits, Crashes, Signalled,
           Drains, Wakes, Listens, Clock

\* The observer's variables.
ObservedOK == late \subseteq Tags /\ flushing \in BOOLEAN

LEMMA ObservedNext ==
    ASSUME ObservedOK, [Next]_vars
    PROVE  ObservedOK'
  BY DEF ObservedOK, observed, Next, vars, Serve, Connects, PeriodicWrite,
         PeriodicCommit, CleanImages, FinalWrite, FinalWriteDone, Starts, Stops, Errors,
         Exits, Crashes, Signalled, Drains, Wakes, Listens, Clock

ProcessType == TypeIInv /\ LTypeOK /\ ObservedOK

LEMMA ProcessTypeInit == Init => ProcessType
  <1>1. LInit => LTypeOK
    BY NoErrors DEF LInit, LTypeOK, MainSteps
  <1>2. QED
    BY <1>1, TypeInit DEF Init, ProcessType, ObservedOK

LEMMA ProcessTypeNext == ProcessType /\ [Next]_vars => ProcessType'
  BY MapTypeNext, LTypeNext, ObservedNext DEF ProcessType

\* Every variable of the process keeps its type (main.go, appstate/).
THEOREM ProcessTyping == Spec => []TypeOK
  <1>1. ProcessType => TypeOK
    BY DEF ProcessType, TypeIInv, ObservedOK, TypeOK
  <1>2. QED
    BY <1>1, ProcessTypeInit, ProcessTypeNext, PTL DEF Spec

-----------------------------------------------------------------------------
\* Errors.

LEMMA SendKeeps ==
    ASSUME LTypeOK, Send
    PROVE  errs' > 0
  BY CapAssumption DEF LTypeOK, Send

\* What makes ErrorKept inductive: no goroutine, and no group, outlives a process.
ErrorIInv == ErrorKept /\ (main = "down" => ~bgDone /\ alive = {})

LEMMA ErrorNext ==
    ASSUME ProcessType, ErrorIInv, [Next]_vars
    PROVE  ErrorIInv'
  <1> USE DEF ErrorIInv, ErrorKept
  <1>1. LTypeOK
    BY DEF ProcessType
  <1>2. CASE Starts
    BY <1>2 DEF Starts, Start
  <1>3. CASE Exits \/ Crashes
    BY <1>3 DEF Exits, Crashes, MainExits, Crash, ProcessGone
  <1>4. CASE Errors
    BY <1>1, <1>4, SendKeeps DEF Errors, ServerFails, LTypeOK
  <1>5. CASE Stops
    <2>1. ASSUME NEW s \in Servers, ServerDrains(s) PROVE ErrorIInv'
      BY <1>1, <2>1 DEF ServerDrains, LTypeOK
    <2>2. ASSUME NEW s \in Servers, ServerStops(s) PROVE ErrorIInv'
      BY <1>1, <2>2, SendKeeps DEF ServerStops, LTypeOK
    <2>3. ASSUME NEW w \in Group, WorkerStops(w) PROVE ErrorIInv'
      BY <2>3 DEF WorkerStops
    <2>4. QED
      BY <1>5, <2>1, <2>2, <2>3 DEF Stops
  <1>6. CASE Wakes
    BY <1>6 DEF Wakes, MainWakes
  <1>7. CASE Listens
    BY <1>7 DEF Listens, ListenerTakesError
  <1>8. CASE FinalWriteDone \/ Drains \/ Signalled \/ Connects
    BY <1>8 DEF FinalWriteDone, FlushDone, Drains, Drained, Signalled, Signal, Connects,
                Borrow, GiveBack
  <1>9. CASE Serve \/ PeriodicWrite \/ PeriodicCommit \/ CleanImages \/ FinalWrite \/ Clock
            \/ UNCHANGED vars
    BY <1>9 DEF Serve, PeriodicWrite, PeriodicCommit, CleanImages, FinalWrite, Clock, vars,
                lvars
  <1>10. QED
    BY <1>2, <1>3, <1>4, <1>5, <1>6, <1>7, <1>8, <1>9 DEF Next

\* A failure of a server stays in the channel until someone stops for it, and the
\* background group swallows one error at most.
THEOREM ErrorHolds == Spec => []ErrorKept
  <1>1. Init => ErrorIInv
    BY DEF Init, LInit, ErrorIInv, ErrorKept
  <1>2. ProcessType /\ ErrorIInv /\ [Next]_vars => ErrorIInv'
    BY ErrorNext
  <1>3. ErrorIInv => ErrorKept
    BY DEF ErrorIInv
  <1>4. QED
    BY <1>1, <1>2, <1>3, ProcessTypeInit, ProcessTypeNext, PTL DEF Spec

-----------------------------------------------------------------------------
\* The stages of the process.

LEMMA StagesInit == Init => Stages
  BY DEF Init, LInit, RInit, Stages, Ending, Idle, Empty

\* A handler's step leaves the writers alone.
LEMMA HandlerFrame ==
    ASSUME Arrival \/ HandlerStep
    PROVE  UNCHANGED <<clock, todo, inHand, unwritten>>
  BY DEF Arrival, HandlerStep, LastHeardArrives, InitClient, ReportUsage, SetClientUptime,
         UploadLiveImage, LookupUUID, ResolveUUID, ResolveFails, StoreLastHeard

\* The two passes do not touch each other's snapshot.
LEMMA PassFrame ==
    ASSUME ProcessType, NEW w \in Writers, NEW x \in Writers, x # w,
           \/ Snapshot(w) \/ StopWriting(w)
           \/ \E t \in Tags : \/ UpdateClientLastHeard(w, t)
                             \/ UpdateFails(w, t) \/ CommitLastHeard(w, t)
    PROVE  todo'[x] = todo[x] /\ inHand'[x] = inHand[x]
  BY DEF Snapshot, StopWriting, UpdateClientLastHeard, UpdateFails, CommitLastHeard,
         ProcessType, TypeIInv, RTypeOK

LEMMA StagesNext ==
    ASSUME ProcessType, Stages, [Next]_vars
    PROVE  Stages'
  <1> USE DEF Stages, Ending, Idle
  <1>1. CASE UNCHANGED <<lvars, todo, flushing>>
    BY <1>1 DEF lvars
  <1>2. CASE Serve
    BY <1>1, <1>2, HandlerFrame DEF Serve
  <1>3. CASE PeriodicWrite \/ PeriodicCommit
    <2>1. main # "down" /\ UNCHANGED <<main, rootDone, alive, flushing>>
      BY <1>3 DEF PeriodicWrite, PeriodicCommit, lvars, observed
    <2>2. todo'["shutdown"] = todo["shutdown"]
      BY <1>3, PassFrame DEF PeriodicWrite, PeriodicCommit, Writers
    <2>3. QED
      BY <2>1, <2>2
  <1>4. CASE CleanImages \/ Clock
    BY <1>1, <1>4 DEF CleanImages, Clock, ClearOfflineLiveImageBytes, TimePasses, observed
  <1>5. CASE FinalWrite
    BY <1>5 DEF FinalWrite, lvars
  <1>6. CASE FinalWriteDone \/ Drains \/ Connects
    BY <1>6 DEF FinalWriteDone, FlushDone, Drains, Drained, Connects, Borrow, GiveBack,
                rvars, observed
  <1>7. CASE Starts
    BY <1>7 DEF Starts, Start
  <1>8. CASE Stops \/ Errors \/ Listens
    BY <1>8 DEF Stops, Errors, Listens, ServerDrains, ServerStops, WorkerStops, ServerFails,
                ListenerTakesError, rvars, observed
  <1>9. CASE Signalled
    BY <1>9 DEF Signalled, Signal, rvars, observed
  <1>10. CASE Wakes
    BY <1>10 DEF Wakes, MainWakes, rvars, observed
  <1>11. CASE Exits \/ Crashes
    BY <1>11 DEF Exits, Crashes, MainExits, Crash, ProcessGone, LoseMemory, Empty
  <1>12. QED
    BY <1>1, <1>2, <1>3, <1>4, <1>5, <1>6, <1>7, <1>8, <1>9, <1>10, <1>11
       DEF Next, vars, rvars

-----------------------------------------------------------------------------
\* What RealtimeProofs shows of the map holds in the process, which starts
\* only when nothing of its predecessor is left.

LEMMA MapFlagNext ==
    ASSUME ProcessType, Stages, FlagIInv, [Next]_vars
    PROVE  FlagIInv'
  <1>1. CASE RNext
    BY <1>1, FlagNext DEF ProcessType
  <1>2. CASE UNCHANGED rvars
    BY <1>2 DEF rvars, FlagIInv, FlagTruthful, Pending
  <1>3. CASE LoadFromDB /\ main = "down"
    <2>1. \A t \in DOMAIN realtime' : t \in DOMAIN liveOS' /\ liveOS'[t] = realtime'[t].heard
      BY <1>3, FromDBType DEF LoadFromDB, db, ProcessType, TypeIInv
    <2>2. \A w \in Writers : DOMAIN todo'[w] = {}
      BY <1>3 DEF LoadFromDB, Stages, Idle
    <2>3. QED
      BY <2>1, <2>2 DEF FlagIInv, FlagTruthful, Pending
  <1>4. CASE LoseMemory
    BY <1>4 DEF LoseMemory, Empty, FlagIInv, FlagTruthful, Pending
  <1>5. QED
    BY <1>1, <1>2, <1>3, <1>4, RealtimeStep DEF vars

\* The flag tells the truth in the running process as well: a value found in
\* the map as saved is in live_os_data (main.go:104, background-processes.go:267).
THEOREM ProcessFlagHolds == Spec => []FlagTruthful
  <1> DEFINE Inv == ProcessType /\ Stages /\ FlagIInv
  <1>1. Init => Inv
    BY ProcessTypeInit, StagesInit, FlagInit DEF Init
  <1>2. Inv /\ [Next]_vars => Inv'
    BY ProcessTypeNext, StagesNext, MapFlagNext
  <1>3. Inv => FlagTruthful
    BY DEF FlagIInv
  <1> HIDE DEF Inv
  <1>4. QED
    BY <1>1, <1>2, <1>3, PTL DEF Spec

LEMMA MapRecentNext ==
    ASSUME ProcessType, RecentIInv, [Next]_vars
    PROVE  RecentIInv'
  <1>1. CASE RNext
    BY <1>1, RecentNext DEF ProcessType
  <1>2. CASE UNCHANGED rvars
    BY <1>2 DEF rvars, RecentIInv, Plausible
  <1>3. CASE LoadFromDB
    BY <1>3, FromDBType DEF LoadFromDB, db, ProcessType, TypeIInv, RecentIInv, Plausible
  <1>4. CASE LoseMemory
    BY <1>4 DEF LoseMemory, db, Empty, RecentIInv, Plausible
  <1>5. QED
    BY <1>1, <1>2, <1>3, <1>4, RealtimeStep DEF vars

\* In the running process, too, online means recent contact, however often it
\* was stopped or crashed before (realtime_helpers.go:168, main.go:104).
THEOREM ProcessOnlineHolds == Spec => []OnlineIsRecent
  <1> DEFINE Inv == ProcessType /\ RecentIInv
  <1>1. Init => Inv
    BY ProcessTypeInit, RecentInit DEF Init
  <1>2. Inv /\ [Next]_vars => Inv'
    BY ProcessTypeNext, MapRecentNext
  <1>3. Inv => OnlineIsRecent
    BY RecentOnline DEF ProcessType
  <1> HIDE DEF Inv
  <1>4. QED
    BY <1>1, <1>2, <1>3, PTL DEF Spec

-----------------------------------------------------------------------------
\* The process implements Realtime.

\* While main runs the map is seen as it is.
LEMMA SeenSteps ==
    ASSUME RNext, Seen = realtime, Seen' = realtime'
    PROVE  Runtime!RNext
  <1> USE DEF db, Runtime!db
  <1>1. CASE Arrival
    <2>1. ASSUME NEW r \in Requests, NEW t \in Tags, NEW v, LastHeardArrives(r, t, v)
          PROVE  Runtime!LastHeardArrives(r, t, v)
      BY <2>1 DEF LastHeardArrives, Runtime!LastHeardArrives, Acceptable,
                  Runtime!Acceptable
    <2>2. ASSUME NEW t \in Tags, InitClient(t) \/ ReportUsage(t)
          PROVE  Runtime!InitClient(t) \/ Runtime!ReportUsage(t)
      BY <2>2 DEF InitClient, Runtime!InitClient, ReportUsage, Runtime!ReportUsage,
                  With, Runtime!With
    <2>3. ASSUME NEW t \in Tags, SetClientUptime(t) \/ UploadLiveImage(t)
          PROVE  Runtime!SetClientUptime(t) \/ Runtime!UploadLiveImage(t)
      BY <2>3 DEF SetClientUptime, Runtime!SetClientUptime, UploadLiveImage,
                  Runtime!UploadLiveImage, With, Runtime!With, Data, Runtime!Data,
                  Zero, Runtime!Zero
    <2>4. QED
      BY <1>1, <2>1, <2>2, <2>3 DEF Arrival, Runtime!Arrival, Runtime!RNext
  <1>2. ASSUME NEW r \in Requests,
               LookupUUID(r) \/ ResolveUUID(r) \/ ResolveFails(r) \/ StoreLastHeard(r)
        PROVE  \/ Runtime!LookupUUID(r) \/ Runtime!ResolveUUID(r)
               \/ Runtime!ResolveFails(r) \/ Runtime!StoreLastHeard(r)
    <2> USE DEF With, Runtime!With, Data, Runtime!Data, Zero, Runtime!Zero, NoMsg,
                Runtime!NoMsg, HeardAt, Runtime!HeardAt
    <2>1. CASE LookupUUID(r)
      BY <2>1 DEF LookupUUID, Runtime!LookupUUID
    <2>2. CASE ResolveUUID(r)
      BY <2>2 DEF ResolveUUID, Runtime!ResolveUUID
    <2>3. CASE StoreLastHeard(r)
      BY <2>3 DEF StoreLastHeard, Runtime!StoreLastHeard
    <2>4. CASE ResolveFails(r)
      BY <2>4 DEF ResolveFails, Runtime!ResolveFails
    <2>5. QED
      BY <1>2, <2>1, <2>2, <2>3, <2>4
  <1>3. ASSUME NEW w \in Writers, Snapshot(w) \/ StopWriting(w)
        PROVE  Runtime!Snapshot(w) \/ Runtime!StopWriting(w)
    BY <1>3 DEF Snapshot, Runtime!Snapshot, StopWriting, Runtime!StopWriting, Idle,
                Runtime!Idle, Unsaved, Runtime!Unsaved, Empty, Runtime!Empty, Failed,
                Runtime!Failed
  <1>4. ASSUME NEW w \in Writers, NEW t \in Tags,
               UpdateClientLastHeard(w, t) \/ UpdateFails(w, t) \/ CommitLastHeard(w, t)
        PROVE  \/ Runtime!UpdateClientLastHeard(w, t)
               \/ Runtime!UpdateFails(w, t) \/ Runtime!CommitLastHeard(w, t)
    <2> USE DEF With, Runtime!With, Without, Runtime!Without, Failed, Runtime!Failed
    <2>1. CASE UpdateClientLastHeard(w, t)
      BY <2>1 DEF UpdateClientLastHeard, Runtime!UpdateClientLastHeard, Writers,
                  Runtime!Writers
    <2>2. CASE UpdateFails(w, t)
      BY <2>2 DEF UpdateFails, Runtime!UpdateFails
    <2>3. CASE CommitLastHeard(w, t)
      BY <2>3 DEF CommitLastHeard, Runtime!CommitLastHeard
    <2>4. QED
      BY <1>4, <2>1, <2>2, <2>3
  <1>5. ClearOfflineLiveImageBytes => Runtime!ClearOfflineLiveImageBytes
    BY DEF ClearOfflineLiveImageBytes, Runtime!ClearOfflineLiveImageBytes, Online,
           Runtime!Online
  <1>6. TimePasses => Runtime!TimePasses
    BY DEF TimePasses, Runtime!TimePasses
  <1>7. Restart => Runtime!Restart
    BY DEF Restart, Runtime!Restart, FromDB, Runtime!FromDB, NoMsg, Runtime!NoMsg,
           Empty, Runtime!Empty, Writers, Runtime!Writers
  <1>8. QED
    BY <1>1, <1>2, <1>3, <1>4, <1>5, <1>6, <1>7
       DEF RNext, Runtime!RNext, HandlerStep, Runtime!HandlerStep, WriterStep,
           Runtime!WriterStep, Writers, Runtime!Writers

\* What does not touch the map and the database cannot be seen.
LEMMA SeenStutter ==
    ASSUME UNCHANGED rvars, main = "down" <=> main' = "down"
    PROVE  UNCHANGED Runtime!rvars
  BY DEF Seen, FromDB, rvars, Runtime!rvars

\* The map of a process that starts is what was seen before it did.
LEMMA SeenStart ==
    ASSUME LoadFromDB, main = "down", main' # "down"
    PROVE  UNCHANGED Runtime!rvars
  BY DEF LoadFromDB, Seen, db, Runtime!rvars

\* Exit and crash are restarts.
LEMMA SeenExit ==
    ASSUME LoseMemory, main # "down", main' = "down"
    PROVE  Runtime!Restart
  <1>1. Seen = realtime /\ Seen' = FromDB
    BY DEF LoseMemory, Seen, FromDB, db
  <1>2. QED
    BY <1>1 DEF LoseMemory, FromDB, db, NoMsg, Empty, Writers, Runtime!Restart,
                Runtime!FromDB, Runtime!db, Runtime!NoMsg, Runtime!Empty, Runtime!Writers

LEMMA SeenNext ==
    ASSUME Stages, [Next]_vars
    PROVE  [Runtime!RNext]_Runtime!rvars
  <1>1. ASSUME RNext, main # "down", UNCHANGED main
        PROVE  Runtime!RNext
    BY <1>1, SeenSteps DEF Seen
  <1>2. "background" \in Writers /\ "shutdown" \in Writers
    BY DEF Writers
  <1>3. CASE Serve
    BY <1>1, <1>3 DEF Serve, RNext, lvars
  <1>4. CASE PeriodicWrite \/ PeriodicCommit
    BY <1>1, <1>2, <1>4 DEF PeriodicWrite, PeriodicCommit, RNext, WriterStep, lvars, Stages
  <1>5. CASE CleanImages
    BY <1>1, <1>5 DEF CleanImages, RNext, lvars, Stages
  <1>6. CASE FinalWrite
    BY <1>1, <1>2, <1>6 DEF FinalWrite, RNext, WriterStep, lvars
  <1>7. CASE Clock
    <2>1. UNCHANGED Seen
      BY <1>7 DEF Clock, TimePasses, Seen, FromDB, db, lvars
    <2>2. Runtime!TimePasses
      BY <1>7, <2>1 DEF Clock, TimePasses, db, Runtime!TimePasses, Runtime!db
    <2>3. QED
      BY <2>2 DEF Runtime!RNext
  <1>8. CASE FinalWriteDone \/ Stops \/ Errors \/ Signalled \/ Wakes \/ Listens
            \/ Connects \/ Drains
    BY <1>8, SeenStutter
       DEF FinalWriteDone, FlushDone, Connects, Borrow, GiveBack, Drains, Drained, Stops, ServerDrains, ServerStops, WorkerStops, Errors,
           ServerFails, Signalled, Signal, Wakes, MainWakes, Listens,
           ListenerTakesError
  <1>9. CASE Starts
    BY <1>9, SeenStart DEF Starts, Start
  <1>10. CASE Exits \/ Crashes
    <2>1. Runtime!Restart
      BY <1>10, SeenExit DEF Exits, MainExits, Crashes, Crash, ProcessGone
    <2>2. QED
      BY <2>1 DEF Runtime!RNext
  <1>11. CASE UNCHANGED vars
    BY <1>11, SeenStutter DEF vars, lvars
  <1>12. QED
    BY <1>3, <1>4, <1>5, <1>6, <1>7, <1>8, <1>9, <1>10, <1>11 DEF Next

\* Whatever goroutines run, and however the process ends and comes back, the map
\* and the database see steps of Realtime only: a start loads what was saved,
\* an exit or a crash keeps no more than the database does (main.go:104,
\* background-processes.go).
THEOREM ProcessImplementsRealtime == Spec => ImplementsRealtime
  <1>1. Init => Runtime!RInit
    BY DEF Init, RInit, LInit, Seen, FromDB, Empty, NoMsg, Writers, Runtime!RInit,
           Runtime!Empty, Runtime!NoMsg, Runtime!Writers
  <1>2. Spec => []Stages
    BY ProcessTypeInit, ProcessTypeNext, StagesInit, StagesNext, PTL DEF Spec
  <1>3. QED
    BY <1>1, <1>2, SeenNext, PTL DEF Spec, ImplementsRealtime, Runtime!RSpec

-----------------------------------------------------------------------------
\* The final write.

\* A row is held by one transaction: an UPDATE waits for the other's COMMIT.
LEMMA HolderNext ==
    ASSUME ProcessType, OneHolder, [Next]_vars
    PROVE  OneHolder'
  <1> DEFINE B == "background"
             S == "shutdown"
  <1>1. inHand \in [Writers -> Tags \cup {None}] /\ Writers = {B, S}
    BY DEF ProcessType, TypeIInv, RTypeOK, Writers
  <1>2. ASSUME \A w \in Writers : inHand'[w] \in {inHand[w], None}
        PROVE  OneHolder'
    BY <1>1, <1>2 DEF OneHolder
  <1>3. CASE LoseMemory \/ Restart
    BY <1>1, <1>2, <1>3 DEF LoseMemory, Restart
  <1>4. CASE UNCHANGED inHand
    BY <1>2, <1>4
  <1>5. ASSUME NEW w \in Writers, NEW t \in Tags, UpdateClientLastHeard(w, t)
        PROVE  OneHolder'
    <2>1. /\ inHand'[w] = t /\ \A v \in Writers : inHand[v] # t
          /\ \A v \in Writers \ {w} : inHand'[v] = inHand[v]
      BY <1>1, <1>5 DEF UpdateClientLastHeard
    <2>2. \A v \in Writers \ {w} : inHand'[v] # inHand'[w]
      BY <2>1
    <2>3. B # S
      OBVIOUS
    <2>4. QED
      BY <1>1, <2>2, <2>3 DEF OneHolder
  <1>6. ASSUME NEW w \in Writers, NEW t \in Tags, CommitLastHeard(w, t)
        PROVE  OneHolder'
    BY <1>1, <1>2, <1>6 DEF CommitLastHeard
  <1>7. CASE RNext
    <2>1. CASE Arrival \/ HandlerStep
      BY <1>4, <2>1, HandlerFrame
    <2>2. CASE WriterStep
      BY <1>4, <1>5, <1>6, <2>2 DEF WriterStep, Snapshot, StopWriting, UpdateFails
    <2>3. CASE ClearOfflineLiveImageBytes \/ TimePasses
      BY <1>4, <2>3 DEF ClearOfflineLiveImageBytes, TimePasses
    <2>4. QED
      BY <1>3, <1>7, <2>1, <2>2, <2>3 DEF RNext
  <1>8. CASE UNCHANGED rvars \/ LoadFromDB
    BY <1>4, <1>8 DEF rvars, LoadFromDB
  <1>9. QED
    BY <1>3, <1>7, <1>8, RealtimeStep DEF vars

\* A step keeps Carried when it takes no snapshot, leaves all rows alone but the
\* one the periodic pass holds, and changes the value of late tags only.
LEMMA CarriedFrame ==
    ASSUME Carried, late \subseteq late', unwritten \subseteq unwritten',
           todo'["shutdown"] = todo["shutdown"],
           inHand'["background"] \in {inHand["background"], None},
           \A t \in DOMAIN realtime \ late' :
              t \in DOMAIN realtime' /\ realtime'[t].heard = realtime[t].heard,
           \A t \in Unsaved' \ late' : t \in Unsaved,
           \A t \in DOMAIN liveOS \ {inHand["background"]} :
              t \in DOMAIN liveOS' /\ liveOS'[t] = liveOS[t]
    PROVE  Carried'
  <1> SUFFICES ASSUME NEW t \in Tags \ late'
               PROVE  /\ t \in DOMAIN todo'["shutdown"] =>
                            /\ t \in DOMAIN realtime'
                            /\ todo'["shutdown"][t] = realtime'[t].heard
                      /\ t \in Unsaved' =>
                            \/ t \in unwritten' \cup DOMAIN todo'["shutdown"]
                            \/ Saved(t)' /\ inHand'["background"] # t
    BY DEF Carried
  <1>1. t \in Tags \ late
    OBVIOUS
  <1>2. t \in DOMAIN todo["shutdown"] =>
           t \in DOMAIN realtime /\ todo["shutdown"][t] = realtime[t].heard
    BY <1>1 DEF Carried
  <1>3. t \in Unsaved => \/ t \in unwritten \cup DOMAIN todo["shutdown"]
                         \/ Saved(t) /\ inHand["background"] # t
    BY <1>1 DEF Carried
  <1>4. t \in Unsaved /\ Saved(t) /\ inHand["background"] # t => Saved(t)'
    BY DEF Saved, Unsaved
  <1>5. inHand["background"] # t => inHand'["background"] # t
    BY TagAssumption
  <1>6. QED
    BY <1>2, <1>3, <1>4, <1>5

LEMMA CarriedServe ==
    ASSUME ProcessType, Carried, flushing, Serve
    PROVE  Carried'
  <1>1. UNCHANGED <<todo, inHand, unwritten>> /\ late \subseteq late'
    BY HandlerFrame DEF Serve
  <1>2. \A t \in DOMAIN liveOS : t \in DOMAIN liveOS' /\ liveOS'[t] = liveOS[t]
    BY DEF Serve, Arrival, HandlerStep, LastHeardArrives, InitClient, ReportUsage,
           SetClientUptime, UploadLiveImage, LookupUUID, ResolveUUID, ResolveFails,
           StoreLastHeard, db, With
  <1>3. ASSUME NEW t, NEW d, realtime' = With(realtime, t, d),
               d.heard = Data(t).heard, d.inDB = Data(t).inDB
        PROVE  Carried'
    <2>1. \A y \in DOMAIN realtime \ late' :
             y \in DOMAIN realtime' /\ realtime'[y].heard = realtime[y].heard
      BY <1>3 DEF With, Data
    <2>2. \A y \in Unsaved' : y \in Unsaved
      BY <1>3 DEF With, Data, Zero, Unsaved
    <2>3. QED
      BY <1>1, <1>2, <2>1, <2>2, CarriedFrame
  <1>4. CASE UNCHANGED realtime
    BY <1>1, <1>2, <1>4, CarriedFrame DEF Unsaved
  <1>5. ASSUME NEW t \in Tags, SetClientUptime(t)
        PROVE  Carried'
    BY <1>3, <1>5 DEF SetClientUptime
  <1>6. ASSUME NEW t \in Tags, UploadLiveImage(t)
        PROVE  Carried'
    BY <1>3, <1>6, DataType, SetImage DEF UploadLiveImage, ProcessType, TypeIInv
  <1>7. ASSUME NEW r \in Requests, ResolveUUID(r)
        PROVE  Carried'
    BY <1>3, <1>7, DataType, SetUUID DEF ResolveUUID, ProcessType, TypeIInv
  <1>8. ASSUME NEW r \in Requests, StoreLastHeard(r),
               late' = late \cup {t \in Tags : \E q \in Requests :
                          at[q] = "store" /\ at'[q] = "idle" /\ msg[q].tag = t /\ flushing}
        PROVE  Carried'
    <2>1. msg[r].tag \in Tags /\ at[r] = "store" /\ at'[r] = "idle"
      BY <1>8 DEF StoreLastHeard, ProcessType, TypeIInv, RTypeOK
    <2>2. msg[r].tag \in late'
      BY <1>8, <2>1
    <2>3. /\ DOMAIN realtime' = DOMAIN realtime \cup {msg[r].tag}
          /\ \A y \in DOMAIN realtime \ {msg[r].tag} : realtime'[y] = realtime[y]
      BY <1>8 DEF StoreLastHeard, With
    <2>4. QED
      BY <1>1, <1>2, <2>2, <2>3, CarriedFrame DEF Unsaved
  <1>9. CASE Arrival
    BY <1>4, <1>5, <1>6, <1>9 DEF Arrival, LastHeardArrives, InitClient, ReportUsage
  <1>10. CASE HandlerStep /\ ~Arrival
    <2>1. late' = late \cup {t \in Tags : \E q \in Requests :
                          at[q] = "store" /\ at'[q] = "idle" /\ msg[q].tag = t /\ flushing}
      BY <1>10 DEF Serve
    <2>2. QED
      BY <1>4, <1>7, <1>8, <1>10, <2>1 DEF HandlerStep, LookupUUID, ResolveFails
  <1>11. QED
    BY <1>9, <1>10 DEF Serve

\* The final pass itself.
LEMMA CarriedFinalWrite ==
    ASSUME ProcessType, Stages, FlushIInv, OneHolder', FinalWrite
    PROVE  FlushIInv'
  <1> DEFINE W == "shutdown"
  <1>1. W \in Writers /\ W \in DOMAIN todo
    BY DEF Writers, ProcessType, TypeIInv, RTypeOK
  <1>2. Ending /\ UNCHANGED <<main, late>>
    BY DEF FinalWrite, Ending, lvars
  <1>3. CASE ~flushing /\ Snapshot(W)
    <2>1. todo'[W] = [t \in Unsaved |-> realtime[t].heard] /\ UNCHANGED realtime
      BY <1>1, <1>3 DEF Snapshot
    <2>2. QED
      BY <2>1 DEF FlushIInv, Carried, Unsaved
  <1>4. ASSUME NEW t \in Tags, UpdateFails(W, t) \/ CommitLastHeard(W, t), Carried
        PROVE  Carried'
    <2>1. UNCHANGED realtime /\ t \in DOMAIN todo[W]
      BY <1>1, <1>4, TagAssumption DEF UpdateFails, CommitLastHeard, ProcessType, TypeIInv
    <2>2. /\ DOMAIN todo'[W] = DOMAIN todo[W] \ {t}
          /\ \A u \in DOMAIN todo'[W] : todo'[W][u] = todo[W][u]
      BY <1>1, <1>4 DEF UpdateFails, CommitLastHeard, Without
    <2>3. \A u \in Tags \ {t} : /\ u \in unwritten => u \in unwritten'
                                /\ u \in DOMAIN liveOS => u \in DOMAIN liveOS'
                                                          /\ liveOS'[u] = liveOS[u]
      BY <1>4 DEF UpdateFails, CommitLastHeard, Failed, With, db
    <2>4. \/ t \in unwritten'
          \/ /\ t \in DOMAIN liveOS' /\ liveOS'[t] = todo[W][t]
             /\ inHand["background"] # t
      <3>1. CASE UpdateFails(W, t)
        BY <3>1 DEF UpdateFails, Failed
      <3>2. CASE CommitLastHeard(W, t)
        <4>1. inHand["background"] # t
          BY <3>2, TagAssumption DEF CommitLastHeard, FlushIInv, OneHolder
        <4>2. QED
          BY <3>2, <4>1 DEF CommitLastHeard, Failed, With
      <3>3. QED
        BY <1>4, <3>1, <3>2
    <2>5. inHand'["background"] = inHand["background"]
      BY <1>4, PassFrame DEF Writers
    <2> SUFFICES ASSUME NEW u \in Tags \ late
                 PROVE  /\ u \in DOMAIN todo'[W] =>
                              u \in DOMAIN realtime /\ todo'[W][u] = realtime[u].heard
                        /\ u \in Unsaved => \/ u \in unwritten' \cup DOMAIN todo'[W]
                                            \/ Saved(u)' /\ inHand'["background"] # u
      BY <1>2, <2>1 DEF Carried, Unsaved
    <2>6. /\ u \in DOMAIN todo[W] => u \in DOMAIN realtime /\ todo[W][u] = realtime[u].heard
          /\ u \in Unsaved => \/ u \in unwritten \cup DOMAIN todo[W]
                              \/ Saved(u) /\ inHand["background"] # u
      BY <1>4 DEF Carried
    <2>7. CASE u = t
      BY <2>1, <2>2, <2>4, <2>5, <2>6, <2>7 DEF Saved
    <2>8. CASE u # t
      BY <2>1, <2>2, <2>3, <2>5, <2>6, <2>8 DEF Saved
    <2>9. QED
      BY <2>7, <2>8
  <1>5. ASSUME StopWriting(W), Carried
        PROVE  Carried'
    <2>1. /\ DOMAIN todo'[W] = {} /\ unwritten' = unwritten \cup DOMAIN todo[W]
          /\ UNCHANGED <<realtime, liveOS, inHand>>
      BY <1>1, <1>5 DEF StopWriting, Failed, Empty, db
    <2>2. QED
      BY <1>2, <1>5, <2>1 DEF Carried, Saved, Unsaved
  <1>6. ASSUME NEW t \in Tags, UpdateClientLastHeard(W, t), Carried
        PROVE  Carried'
    <2>1. inHand'["background"] = inHand["background"]
      BY <1>6, PassFrame DEF Writers
    <2>2. UNCHANGED <<realtime, liveOS, todo, unwritten>>
      BY <1>6 DEF UpdateClientLastHeard, db
    <2>3. QED
      BY <1>2, <1>6, <2>1, <2>2 DEF Carried, Saved, Unsaved
  <1>7. QED
    BY <1>2, <1>3, <1>4, <1>5, <1>6 DEF FinalWrite, FlushIInv

LEMMA FlushInit == Init => FlushIInv
  BY DEF Init, RInit, LInit, FlushIInv, OneHolder, Ending, Writers

LEMMA FlushNext ==
    ASSUME ProcessType, Stages, FlushIInv, [Next]_vars
    PROVE  FlushIInv'
  <1>0. OneHolder'
    BY HolderNext DEF FlushIInv
  <1>1. CASE UNCHANGED <<realtime, liveOS, todo, inHand, unwritten, main, late, flushing>>
    BY <1>1 DEF FlushIInv, OneHolder, Ending, Carried, Saved, Unsaved
  <1>2. ASSUME UNCHANGED <<main, flushing>>, Ending, flushing, Carried => Carried'
        PROVE  FlushIInv'
    BY <1>0, <1>2 DEF FlushIInv
  <1>3. ASSUME UNCHANGED <<main, flushing>>, ~(Ending /\ flushing)
        PROVE  FlushIInv'
    BY <1>0, <1>3 DEF FlushIInv, Ending
  <1>4. CASE Serve
    BY <1>2, <1>3, <1>4, CarriedServe DEF Serve, lvars
  <1>5. CASE PeriodicWrite
    <2>1. UNCHANGED <<main, flushing, late>>
      BY <1>5 DEF PeriodicWrite, lvars, observed
    <2>2. ASSUME Ending, Carried
          PROVE  Carried'
      <3>1. StopWriting("background") \/ \E t \in Tags : UpdateFails("background", t)
        BY <1>5, <2>2 DEF PeriodicWrite, Stages, errCtxDone
      <3>2. todo'["shutdown"] = todo["shutdown"]
        BY <3>1, PassFrame DEF Writers
      <3>3. UNCHANGED <<realtime, liveOS, inHand, unwritten>>
        BY <3>1 DEF StopWriting, UpdateFails, Failed, db
      <3>4. QED
        BY <2>1, <2>2, <3>2, <3>3, CarriedFrame DEF Unsaved
    <2>3. QED
      BY <1>2, <1>3, <2>1, <2>2
  <1>13. CASE PeriodicCommit
    <2>1. UNCHANGED <<main, flushing, late>>
      BY <1>13 DEF PeriodicCommit, lvars, observed
    <2>2. PICK t \in Tags : CommitLastHeard("background", t)
      BY <1>13 DEF PeriodicCommit
    <2>3. todo'["shutdown"] = todo["shutdown"]
      BY <2>2, PassFrame DEF Writers
    <2>4. UNCHANGED <<realtime, unwritten>> /\ inHand["background"] = t
      BY <2>2 DEF CommitLastHeard, Failed
    <2>5. inHand'["background"] = None
      BY <2>2 DEF CommitLastHeard, ProcessType, TypeIInv, RTypeOK, Writers
    <2>6. \A u \in DOMAIN liveOS \ {t} : u \in DOMAIN liveOS' /\ liveOS'[u] = liveOS[u]
      BY <2>2 DEF CommitLastHeard, With
    <2>7. Carried => Carried'
      BY <2>1, <2>3, <2>4, <2>5, <2>6, CarriedFrame DEF Unsaved
    <2>8. QED
      BY <1>2, <1>3, <2>1, <2>7
  <1>6. CASE CleanImages
    <2>1. /\ DOMAIN realtime' = DOMAIN realtime
          /\ \A t \in DOMAIN realtime : /\ realtime'[t].inDB = realtime[t].inDB
                                        /\ realtime'[t].heard = realtime[t].heard
      BY <1>6 DEF CleanImages, ClearOfflineLiveImageBytes, ProcessType, TypeIInv, RTypeOK,
                  Client
    <2>2. UNCHANGED <<liveOS, todo, inHand, unwritten, main, late, flushing>>
      BY <1>6 DEF CleanImages, ClearOfflineLiveImageBytes, db, lvars, observed
    <2>3. Carried => Carried'
      BY <2>1, <2>2, CarriedFrame DEF Unsaved
    <2>4. QED
      BY <1>2, <1>3, <2>2, <2>3
  <1>7. CASE Clock \/ Stops \/ Errors \/ Signalled \/ Listens \/ Connects
    BY <1>1, <1>7 DEF Clock, TimePasses, db, lvars, observed, rvars, Stops, ServerDrains,
                      ServerStops, WorkerStops, Errors, ServerFails, Signalled, Signal,
                      Listens, ListenerTakesError, Connects, Borrow, GiveBack
  <1>8. CASE FinalWrite
    BY <1>0, <1>8, CarriedFinalWrite
  <1>9. CASE FinalWriteDone \/ Drains
    <2>1. UNCHANGED <<realtime, liveOS, todo, inHand, unwritten, late, flushing>> /\ Ending
      BY <1>9 DEF FinalWriteDone, FlushDone, Drains, Drained, rvars, observed, Ending
    <2>2. QED
      BY <1>0, <2>1 DEF FlushIInv, Carried, Saved, Unsaved
  <1>10. CASE Starts \/ Exits \/ Crashes
    BY <1>0, <1>10 DEF Starts, Start, Exits, MainExits, Crashes, Crash, ProcessGone, FlushIInv,
                 Ending
  <1>11. CASE Wakes
    BY <1>0, <1>11 DEF Wakes, MainWakes, observed, Stages, FlushIInv
  <1>12. CASE UNCHANGED vars
    BY <1>1, <1>12 DEF vars, rvars, lvars, db
  <1>14. QED
    BY <1>4, <1>5, <1>13, <1>6, <1>7, <1>8, <1>9, <1>10, <1>11, <1>12 DEF Next

\* When the final write is over, the database holds every value acknowledged
\* before its snapshot, except where a write failed (main.go:185-203).
THEOREM FlushHolds == Spec => []FlushPersists
  <1> DEFINE Inv == ProcessType /\ Stages /\ FlushIInv
  <1>1. Init => Inv
    BY ProcessTypeInit, StagesInit, FlushInit
  <1>2. Inv /\ [Next]_vars => Inv'
    BY ProcessTypeNext, StagesNext, FlushNext
  <1>3. Inv => FlushPersists
    BY DEF Stages, FlushIInv, Carried, FlushPersists, Ending, Idle, ProcessType, TypeIInv,
           RTypeOK, Unsaved
  <1> HIDE DEF Inv
  <1>4. QED
    BY <1>1, <1>2, <1>3, PTL DEF Spec
=============================================================================
