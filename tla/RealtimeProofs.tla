--------------------------- MODULE RealtimeProofs ---------------------------
(***************************************************************************)
(* Theorems about Realtime for any handlers, tags, timeouts and skews: its *)
(* types, that LastHeardUpdatedInDB speaks the truth, and that a client    *)
(* that counts as online has called recently.                              *)
(***************************************************************************)
EXTENDS Realtime, TLAPS

-----------------------------------------------------------------------------
\* Lemmas about maps and entries.

LEMMA WithType ==
    ASSUME NEW S, NEW V, NEW f, DOMAIN f \subseteq S, f \in [DOMAIN f -> V],
           NEW x \in S, NEW v \in V
    PROVE  /\ DOMAIN With(f, x, v) = DOMAIN f \cup {x}
           /\ DOMAIN With(f, x, v) \subseteq S
           /\ With(f, x, v) \in [DOMAIN With(f, x, v) -> V]
           /\ With(f, x, v)[x] = v
           /\ \A y \in DOMAIN f : y # x => With(f, x, v)[y] = f[y]
  BY DEF With

LEMMA WithoutType ==
    ASSUME NEW V, NEW f, f \in [DOMAIN f -> V], NEW S
    PROVE  /\ DOMAIN Without(f, S) = DOMAIN f \ S
           /\ Without(f, S) \in [DOMAIN Without(f, S) -> V]
           /\ \A y \in DOMAIN f \ S : Without(f, S)[y] = f[y]
  BY DEF Without

LEMMA EmptyType ==
    ASSUME NEW V
    PROVE  DOMAIN Empty = {} /\ Empty \in [DOMAIN Empty -> V]
  BY DEF Empty

LEMMA DataType ==
    ASSUME RTypeOK, NEW t
    PROVE  Data(t) \in Client
  BY DEF RTypeOK, Data, Zero, Client

LEMMA DataValue ==
    ASSUME NEW t
    PROVE  /\ t \in DOMAIN realtime => Data(t) = realtime[t]
           /\ t \notin DOMAIN realtime => Data(t).heard = 0 /\ ~Data(t).inDB
  BY DEF Data, Zero

LEMMA SetUUID ==
    ASSUME NEW d \in Client
    PROVE  /\ [d EXCEPT !.uuid = TRUE] \in Client
           /\ [d EXCEPT !.uuid = TRUE].heard = d.heard
           /\ [d EXCEPT !.uuid = TRUE].inDB = d.inDB
  BY DEF Client

LEMMA SetImage ==
    ASSUME NEW d \in Client, NEW b \in BOOLEAN
    PROVE  /\ [d EXCEPT !.image = b] \in Client
           /\ [d EXCEPT !.image = b].heard = d.heard
           /\ [d EXCEPT !.image = b].inDB = d.inDB
  BY DEF Client

LEMMA HeardAtType ==
    ASSUME NEW d \in Client, NEW v \in Nat
    PROVE  /\ HeardAt(d, v) \in Client
           /\ HeardAt(d, v).heard = v /\ ~HeardAt(d, v).inDB
  BY DEF Client, HeardAt

LEMMA FromDBType ==
    ASSUME RTypeOK
    PROVE  /\ DOMAIN FromDB \subseteq Tags
           /\ FromDB \in [DOMAIN FromDB -> Client]
           /\ \A t \in DOMAIN FromDB :
                 t \in DOMAIN liveOS /\ FromDB[t].heard = liveOS[t]
  BY DEF RTypeOK, FromDB, Client

-----------------------------------------------------------------------------
\* Every variable is what its type says, and handlers know their tags.

LEMMA TypeInit == RInit => TypeIInv
  BY EmptyType, TagAssumption, TimeAssumption
     DEF RInit, TypeIInv, RTypeOK, Message, NoMsg, Empty

LEMMA TypeNext ==
    ASSUME TypeIInv, RNext
    PROVE  TypeIInv'
  <1> USE DEF TypeIInv
  <1>1. ASSUME NEW r \in Requests, NEW t \in Tags, NEW v \in Nat, LastHeardArrives(r, t, v)
        PROVE  TypeIInv'
    BY <1>1 DEF LastHeardArrives, RTypeOK, db, Message
  <1>2. ASSUME NEW t \in Tags, InitClient(t)
        PROVE  TypeIInv'
    BY <1>2 DEF InitClient, RTypeOK
  <1>3. ASSUME NEW t \in Tags, ReportUsage(t)
        PROVE  TypeIInv'
    <2>1. /\ DOMAIN With(liveOS, t, 0) \subseteq ids
          /\ With(liveOS, t, 0) \in [DOMAIN With(liveOS, t, 0) -> Nat]
      <3>1. DOMAIN liveOS \subseteq ids /\ liveOS \in [DOMAIN liveOS -> Nat]
        BY DEF RTypeOK
      <3>2. t \in ids /\ 0 \in Nat
        BY <1>3 DEF ReportUsage
      <3>3. QED
        BY <3>1, <3>2, WithType
    <2>2. DOMAIN liveOS \subseteq DOMAIN liveOS'
      BY <1>3 DEF ReportUsage, With
    <2>3. QED
      BY <1>3, <2>1, <2>2 DEF ReportUsage, RTypeOK
  <1>4. ASSUME NEW t \in Tags, NEW d \in Client, realtime' = With(realtime, t, d)
        PROVE  DOMAIN realtime' \subseteq Tags /\ realtime' \in [DOMAIN realtime' -> Client]
    <2>1. DOMAIN realtime \subseteq Tags /\ realtime \in [DOMAIN realtime -> Client]
      BY DEF RTypeOK
    <2>2. QED
      BY <1>4, <2>1, WithType
  <1>5. ASSUME NEW t \in Tags, SetClientUptime(t)
        PROVE  TypeIInv'
    <2>1. DOMAIN realtime' \subseteq Tags /\ realtime' \in [DOMAIN realtime' -> Client]
      BY <1>4, <1>5, DataType DEF SetClientUptime
    <2>2. QED
      BY <1>5, <2>1 DEF SetClientUptime, RTypeOK, db
  <1>6. ASSUME NEW t \in Tags, UploadLiveImage(t)
        PROVE  TypeIInv'
    <2>1. DOMAIN realtime' \subseteq Tags /\ realtime' \in [DOMAIN realtime' -> Client]
      BY <1>4, <1>6, DataType, SetImage DEF UploadLiveImage
    <2>2. QED
      BY <1>6, <2>1 DEF UploadLiveImage, RTypeOK, db
  <1>7. ASSUME NEW r \in Requests, LookupUUID(r)
        PROVE  TypeIInv'
    BY <1>7 DEF LookupUUID, RTypeOK, db
  <1>8. ASSUME NEW r \in Requests, ResolveUUID(r)
        PROVE  TypeIInv'
    <2>1. msg[r].tag \in Tags
      BY <1>8 DEF ResolveUUID, RTypeOK
    <2>2. DOMAIN realtime' \subseteq Tags /\ realtime' \in [DOMAIN realtime' -> Client]
      BY <1>4, <1>8, <2>1, DataType, SetUUID DEF ResolveUUID
    <2>3. QED
      BY <1>8, <2>1, <2>2 DEF ResolveUUID, RTypeOK, db
  <1>9. ASSUME NEW r \in Requests, StoreLastHeard(r)
        PROVE  TypeIInv'
    <2>1. msg[r].tag \in Tags /\ msg[r].heard \in Nat
      BY <1>9 DEF StoreLastHeard, RTypeOK, Message
    <2>2. DOMAIN realtime' \subseteq Tags /\ realtime' \in [DOMAIN realtime' -> Client]
      BY <1>4, <1>9, <2>1, DataType, HeardAtType DEF StoreLastHeard
    <2>3. QED
      BY <1>9, <2>1, <2>2 DEF StoreLastHeard, RTypeOK, db, Message, NoMsg
  <1>10. ASSUME NEW w \in Writers, Snapshot(w)
         PROVE  TypeIInv'
    BY <1>10 DEF Snapshot, Idle, RTypeOK, db, Unsaved, Client
  <1>11. ASSUME NEW w \in Writers, StopWriting(w)
         PROVE  TypeIInv'
    BY <1>11, EmptyType DEF StopWriting, Failed, RTypeOK, db
  <1>12. ASSUME NEW w \in Writers, NEW t \in Tags, UpdateClientLastHeard(w, t)
         PROVE  TypeIInv'
    BY <1>12, TagAssumption DEF UpdateClientLastHeard, RTypeOK, db
  <1>13. ASSUME NEW w \in Writers, NEW t \in Tags, todo' = [todo EXCEPT ![w] = Without(@, {t})]
        PROVE  /\ DOMAIN todo' = Writers
               /\ \A x \in Writers : /\ DOMAIN todo'[x] \subseteq Tags
                                     /\ todo'[x] \in [DOMAIN todo'[x] -> Nat]
               /\ \A x \in Writers \ {w} : todo'[x] = todo[x]
    <2>1. todo[w] \in [DOMAIN todo[w] -> Nat] /\ DOMAIN todo[w] \subseteq Tags
      BY DEF RTypeOK
    <2>2. /\ DOMAIN Without(todo[w], {t}) \subseteq DOMAIN todo[w]
          /\ Without(todo[w], {t}) \in [DOMAIN Without(todo[w], {t}) -> Nat]
      <3> DEFINE f == todo[w]
      <3>1. f \in [DOMAIN f -> Nat]
        BY <2>1
      <3> HIDE DEF f
      <3>2. DOMAIN Without(f, {t}) = DOMAIN f \ {t} /\ Without(f, {t}) \in [DOMAIN Without(f, {t}) -> Nat]
        BY <3>1, WithoutType
      <3>3. QED
        BY <3>2 DEF f
    <2>3. QED
      BY <1>13, <2>1, <2>2 DEF RTypeOK
  <1>14. ASSUME NEW w \in Writers, NEW t \in Tags, UpdateFails(w, t)
        PROVE  TypeIInv'
    <2>1. /\ DOMAIN todo' = Writers
          /\ \A x \in Writers : /\ DOMAIN todo'[x] \subseteq Tags
                                /\ todo'[x] \in [DOMAIN todo'[x] -> Nat]
          /\ \A x \in Writers \ {w} : todo'[x] = todo[x]
      BY <1>13, <1>14 DEF UpdateFails
    <2>2. unwritten' \subseteq Tags
      BY <1>14 DEF UpdateFails, Failed, RTypeOK
    <2>3. \A x \in Writers : inHand'[x] # None => inHand'[x] \in DOMAIN todo'[x] \cap DOMAIN liveOS'
      BY <1>14, <2>1 DEF UpdateFails, db
    <2>4. QED
      BY <1>14, <2>1, <2>2, <2>3 DEF UpdateFails, RTypeOK, db
  <1>15. ASSUME NEW w \in Writers, NEW t \in Tags, CommitLastHeard(w, t)
        PROVE  TypeIInv'
    <2>1. /\ DOMAIN todo' = Writers
          /\ \A x \in Writers : /\ DOMAIN todo'[x] \subseteq Tags
                                /\ todo'[x] \in [DOMAIN todo'[x] -> Nat]
          /\ \A x \in Writers \ {w} : todo'[x] = todo[x]
      BY <1>13, <1>15 DEF CommitLastHeard
    <2>2. t \in DOMAIN todo[w] /\ t \in DOMAIN liveOS
      BY <1>15, TagAssumption DEF CommitLastHeard
    <2>3. DOMAIN liveOS' \subseteq ids /\ liveOS' \in [DOMAIN liveOS' -> Nat]
      <3>1. DOMAIN liveOS \subseteq ids /\ liveOS \in [DOMAIN liveOS -> Nat] /\ t \in ids
        BY <2>2 DEF RTypeOK
      <3>2. PICK v \in Nat : v = todo[w][t]
        BY <2>2 DEF RTypeOK
      <3>3. /\ DOMAIN With(liveOS, t, v) \subseteq ids
            /\ With(liveOS, t, v) \in [DOMAIN With(liveOS, t, v) -> Nat]
        BY <3>1, WithType
      <3>4. liveOS' = liveOS \/ liveOS' = With(liveOS, t, v)
        BY <1>15, <3>2 DEF CommitLastHeard
      <3>5. QED
        BY <3>1, <3>3, <3>4
    <2>4. unwritten' \subseteq Tags
      BY <1>15 DEF CommitLastHeard, Failed, RTypeOK
    <2>5. DOMAIN liveOS \subseteq DOMAIN liveOS'
      BY <1>15 DEF CommitLastHeard, With
    <2>6. /\ inHand' \in [Writers -> Tags \cup {None}]
          /\ \A x \in Writers : inHand'[x] # None => inHand'[x] \in DOMAIN todo'[x] \cap DOMAIN liveOS'
      BY <1>15, <2>1, <2>5 DEF CommitLastHeard, RTypeOK
    <2>7. QED
      BY <1>15, <2>1, <2>3, <2>4, <2>5, <2>6 DEF CommitLastHeard, RTypeOK
  <1>16. ASSUME NEW r \in Requests, ResolveFails(r)
        PROVE  TypeIInv'
    <2>1. NoMsg \in Message
      BY DEF NoMsg, Message
    <2>2. QED
      BY <1>16, <2>1 DEF ResolveFails, RTypeOK, db
  <1>17. ASSUME ClearOfflineLiveImageBytes
         PROVE  TypeIInv'
    <2>1. \A t \in DOMAIN realtime :
             [realtime[t] EXCEPT !.image = @ /\ Online(realtime[t], clock)] \in Client
      BY DEF RTypeOK, Client, Online
    <2>2. QED
      BY <1>17, <2>1 DEF ClearOfflineLiveImageBytes, RTypeOK, db
  <1>18. ASSUME TimePasses
         PROVE  TypeIInv'
    BY <1>18 DEF TimePasses, RTypeOK, db
  <1>19. ASSUME Restart
         PROVE  TypeIInv'
    BY <1>19, FromDBType, EmptyType DEF Restart, RTypeOK, db, Message, NoMsg
  <1>20. \A v \in 1..(MaxTime + Skew + 1) : v \in Nat
    BY TimeAssumption
  <1>21. QED
    BY <1>1, <1>2, <1>3, <1>5, <1>6, <1>7, <1>8, <1>9, <1>10, <1>11, <1>12, <1>13,
       <1>14, <1>15, <1>16, <1>17, <1>18, <1>19, <1>20
       DEF RNext, Arrival, HandlerStep, WriterStep

\* RTypeOK holds in every reachable state (realtime_helpers.go, post.go:486-572).
THEOREM Typing == RSpec => []RTypeOK
  <1>1. TypeIInv /\ [RNext]_rvars => TypeIInv'
    <2>1. ASSUME TypeIInv, UNCHANGED rvars
          PROVE  TypeIInv'
      BY <2>1 DEF rvars, TypeIInv, RTypeOK
    <2>2. QED
      BY <2>1, TypeNext
  <1>2. TypeIInv => RTypeOK
    BY DEF TypeIInv
  <1>3. QED
    BY <1>1, <1>2, TypeInit, PTL DEF RSpec

-----------------------------------------------------------------------------
\* LastHeardUpdatedInDB tells the truth.

\* A step keeps FlagIInv when it claims nothing new, saves what was saved, and
\* has no more to write than before.
LEMMA FlagFrame ==
    ASSUME FlagIInv, DOMAIN realtime \subseteq DOMAIN realtime',
           \A t \in DOMAIN realtime' :
              \/ ~realtime'[t].inDB
              \/ /\ t \in DOMAIN realtime /\ realtime[t].inDB
                 /\ realtime'[t].heard = realtime[t].heard,
           \A t \in DOMAIN realtime :
              realtime[t].inDB /\ t \in DOMAIN liveOS =>
                 t \in DOMAIN liveOS' /\ liveOS'[t] = liveOS[t],
           \A w \in Writers : \A t \in DOMAIN todo'[w] :
              \/ t \in DOMAIN todo[w]
              \/ t \in DOMAIN realtime /\ ~realtime[t].inDB
    PROVE  FlagIInv'
  <1>1. FlagTruthful'
    BY DEF FlagIInv, FlagTruthful
  <1>2. Pending'
    <2> SUFFICES ASSUME NEW w \in Writers, NEW t \in DOMAIN todo'[w]
                 PROVE  t \in DOMAIN realtime' /\ ~realtime'[t].inDB
      BY DEF Pending
    <2>1. t \in DOMAIN realtime /\ ~realtime[t].inDB
      BY DEF FlagIInv, Pending
    <2>2. QED
      BY <2>1
  <1>3. QED
    BY <1>1, <1>2 DEF FlagIInv

LEMMA FlagWith ==
    ASSUME FlagIInv, NEW t, NEW d, realtime' = With(realtime, t, d),
           \/ ~d.inDB
           \/ t \in DOMAIN realtime /\ d.inDB = realtime[t].inDB
              /\ d.heard = realtime[t].heard,
           UNCHANGED <<liveOS, todo>>
    PROVE  FlagIInv'
  <1>1. /\ DOMAIN realtime' = DOMAIN realtime \cup {t}
        /\ realtime'[t] = d
        /\ \A y \in DOMAIN realtime : y # t => realtime'[y] = realtime[y]
    BY DEF With
  <1>2. \A y \in DOMAIN realtime' :
              \/ ~realtime'[y].inDB
              \/ /\ y \in DOMAIN realtime /\ realtime[y].inDB
                 /\ realtime'[y].heard = realtime[y].heard
    BY <1>1
  <1>3. QED
    BY <1>1, <1>2, FlagFrame

LEMMA FlagInit == RInit => FlagIInv
  BY DEF RInit, FlagIInv, FlagTruthful, Pending, Empty

LEMMA FlagNext ==
    ASSUME TypeIInv, FlagIInv, RNext
    PROVE  FlagIInv'
  <1>1. ASSUME UNCHANGED <<realtime, liveOS, todo>>
        PROVE  FlagIInv'
    BY <1>1 DEF FlagIInv, FlagTruthful, Pending
  <1>2. ASSUME NEW t \in Tags, ReportUsage(t)
        PROVE  FlagIInv'
    <2>1. \A u \in DOMAIN liveOS : u \in DOMAIN liveOS' /\ liveOS'[u] = liveOS[u]
      BY <1>2 DEF ReportUsage, With
    <2>2. UNCHANGED <<realtime, todo>>
      BY <1>2 DEF ReportUsage
    <2>3. QED
      BY <2>1, <2>2 DEF FlagIInv, FlagTruthful, Pending
  <1>3. ASSUME NEW t \in Tags, SetClientUptime(t)
        PROVE  FlagIInv'
    BY <1>3, DataValue, FlagWith DEF SetClientUptime, db
  <1>4. ASSUME NEW t \in Tags, UploadLiveImage(t)
        PROVE  FlagIInv'
    <2> DEFINE d == [Data(t) EXCEPT !.image = TRUE]
    <2>1. d.inDB = Data(t).inDB /\ d.heard = Data(t).heard
      BY DataType, SetImage DEF TypeIInv
    <2>2. realtime' = With(realtime, t, d) /\ UNCHANGED <<liveOS, todo>>
      BY <1>4 DEF UploadLiveImage, db
    <2> HIDE DEF d
    <2>3. QED
      BY <2>1, <2>2, DataValue, FlagWith
  <1>5. ASSUME NEW r \in Requests, ResolveUUID(r)
        PROVE  FlagIInv'
    <2> DEFINE t == msg[r].tag
               d == [Data(t) EXCEPT !.uuid = TRUE]
    <2>1. d.inDB = Data(t).inDB /\ d.heard = Data(t).heard
      BY DataType, SetUUID DEF TypeIInv
    <2>2. realtime' = With(realtime, t, d) /\ UNCHANGED <<liveOS, todo>>
      BY <1>5 DEF ResolveUUID, db
    <2> HIDE DEF d, t
    <2>3. QED
      BY <2>1, <2>2, DataValue, FlagWith
  <1>6. ASSUME NEW r \in Requests, StoreLastHeard(r)
        PROVE  FlagIInv'
    <2> DEFINE d == HeardAt(Data(msg[r].tag), msg[r].heard)
    <2>1. ~d.inDB
      <3>1. msg[r].heard \in Nat
        BY DEF TypeIInv, RTypeOK, Message
      <3>2. QED
        BY <3>1, DataType, HeardAtType DEF TypeIInv
    <2>2. realtime' = With(realtime, msg[r].tag, d) /\ UNCHANGED <<liveOS, todo>>
      BY <1>6 DEF StoreLastHeard, db
    <2> HIDE DEF d
    <2>3. QED
      BY <2>1, <2>2, FlagWith
  <1>7. ASSUME NEW w \in Writers, Snapshot(w)
        PROVE  FlagIInv'
    <2>1. \A x \in Writers : \A t \in DOMAIN todo'[x] :
              t \in DOMAIN todo[x] \/ t \in Unsaved
      BY <1>7 DEF Snapshot, TypeIInv, RTypeOK
    <2>2. UNCHANGED <<realtime, liveOS>>
      BY <1>7 DEF Snapshot, db
    <2>3. QED
      BY <2>1, <2>2 DEF FlagIInv, FlagTruthful, Pending, Unsaved
  <1>8. ASSUME NEW w \in Writers, StopWriting(w)
        PROVE  FlagIInv'
    <2>1. \A x \in Writers : \A t \in DOMAIN todo'[x] : t \in DOMAIN todo[x]
      BY <1>8 DEF StopWriting, TypeIInv, RTypeOK, Empty
    <2>2. UNCHANGED <<realtime, liveOS>>
      BY <1>8 DEF StopWriting, db
    <2>3. QED
      BY <2>1, <2>2 DEF FlagIInv, FlagTruthful, Pending
  <1>9. ASSUME NEW w \in Writers, NEW t \in Tags, UpdateFails(w, t) \/ CommitLastHeard(w, t)
        PROVE  FlagIInv'
    <2>1. t \in DOMAIN todo[w]
      BY <1>9, TagAssumption DEF UpdateFails, CommitLastHeard, TypeIInv
    <2>2. t \in DOMAIN realtime /\ ~realtime[t].inDB
      BY <2>1 DEF FlagIInv, Pending
    <2>3. \A u \in DOMAIN liveOS \ {t} : u \in DOMAIN liveOS' /\ liveOS'[u] = liveOS[u]
      BY <1>9 DEF UpdateFails, CommitLastHeard, With, db
    <2>4. \A x \in Writers : \A u \in DOMAIN todo'[x] : u \in DOMAIN todo[x]
      BY <1>9 DEF UpdateFails, CommitLastHeard, TypeIInv, RTypeOK, Without
    <2>5. UNCHANGED realtime
      BY <1>9 DEF UpdateFails, CommitLastHeard
    <2>6. QED
      BY <2>2, <2>3, <2>4, <2>5 DEF FlagIInv, FlagTruthful, Pending
  <1>10. ASSUME ClearOfflineLiveImageBytes
         PROVE  FlagIInv'
    <2>1. /\ DOMAIN realtime' = DOMAIN realtime
          /\ \A t \in DOMAIN realtime : /\ realtime'[t].inDB = realtime[t].inDB
                                        /\ realtime'[t].heard = realtime[t].heard
      BY <1>10 DEF ClearOfflineLiveImageBytes, TypeIInv, RTypeOK, Client
    <2>2. UNCHANGED <<liveOS, todo>>
      BY <1>10 DEF ClearOfflineLiveImageBytes, db
    <2>3. QED
      BY <2>1, <2>2 DEF FlagIInv, FlagTruthful, Pending
  <1>11. ASSUME Restart
         PROVE  FlagIInv'
    <2>1. \A t \in DOMAIN realtime' : t \in DOMAIN liveOS' /\ liveOS'[t] = realtime'[t].heard
      BY <1>11, FromDBType DEF Restart, db, TypeIInv
    <2>2. \A w \in Writers : DOMAIN todo'[w] = {}
      BY <1>11 DEF Restart, Empty
    <2>3. QED
      BY <2>1, <2>2 DEF FlagIInv, FlagTruthful, Pending
  <1>12. CASE \E r \in Requests, t \in Tags, v \in 1..(MaxTime + Skew + 1) :
                 LastHeardArrives(r, t, v)
    BY <1>1, <1>12 DEF LastHeardArrives, db
  <1>13. CASE \E t \in Tags : InitClient(t)
    BY <1>1, <1>13 DEF InitClient
  <1>14. CASE \E r \in Requests : LookupUUID(r)
    BY <1>1, <1>14 DEF LookupUUID, db
  <1>15. CASE TimePasses
    BY <1>1, <1>15 DEF TimePasses, db
  <1>16. CASE \E w \in Writers, t \in Tags : UpdateClientLastHeard(w, t)
    BY <1>1, <1>16 DEF UpdateClientLastHeard, db
  <1>17. CASE \E r \in Requests : ResolveFails(r)
    BY <1>1, <1>17 DEF ResolveFails, db
  <1>18. QED
    BY <1>2, <1>3, <1>4, <1>5, <1>6, <1>7, <1>8, <1>9, <1>10, <1>11, <1>12, <1>13,
       <1>14, <1>15, <1>16, <1>17
       DEF RNext, Arrival, HandlerStep, WriterStep

\* An entry that writeLastHeardToDB skips as already saved is saved
\* (background-processes.go:267).
THEOREM FlagHolds == RSpec => []FlagTruthful
  <1>1. TypeIInv /\ FlagIInv /\ [RNext]_rvars => (TypeIInv /\ FlagIInv)'
    <2>1. ASSUME TypeIInv, FlagIInv, UNCHANGED rvars
          PROVE  (TypeIInv /\ FlagIInv)'
      BY <2>1 DEF rvars, TypeIInv, RTypeOK, FlagIInv, FlagTruthful, Pending
    <2>2. QED
      BY <2>1, TypeNext, FlagNext
  <1>2. FlagIInv => FlagTruthful
    BY DEF FlagIInv
  <1>3. QED
    BY <1>1, <1>2, TypeInit, FlagInit, PTL DEF RSpec

-----------------------------------------------------------------------------
\* Online means recent contact.

\* Values move between the map, the table, snapshots and messages; a step that
\* only moves them, or forgets them, keeps RecentIInv.
LEMMA RecentFrame ==
    ASSUME TypeIInv, RecentIInv, clock' \in Nat, clock <= clock', UNCHANGED contact,
           \A r \in Requests : at'[r] # "idle" => at[r] # "idle" /\ msg'[r] = msg[r],
           \A t \in DOMAIN realtime' : Plausible(t, realtime'[t].heard),
           \A t \in DOMAIN liveOS' : Plausible(t, liveOS'[t]),
           \A w \in Writers : \A t \in DOMAIN todo'[w] : Plausible(t, todo'[w][t])
    PROVE  RecentIInv'
  <1>1. \A t \in Tags : contact'[t] <= clock'
    BY DEF RecentIInv, TypeIInv, RTypeOK
  <1>2. QED
    BY <1>1 DEF RecentIInv, Plausible

LEMMA RecentWith ==
    ASSUME TypeIInv, RecentIInv, NEW t \in Tags, NEW d,
           realtime' = With(realtime, t, d), Plausible(t, d.heard),
           UNCHANGED <<liveOS, todo, clock, contact>>,
           \A r \in Requests : at'[r] # "idle" => at[r] # "idle" /\ msg'[r] = msg[r]
    PROVE  RecentIInv'
  <1>1. \A y \in DOMAIN realtime' : Plausible(y, realtime'[y].heard)
    BY DEF With, RecentIInv
  <1>2. clock' \in Nat /\ clock <= clock'
    BY DEF TypeIInv, RTypeOK
  <1>3. QED
    BY <1>1, <1>2, RecentFrame DEF RecentIInv

LEMMA PlausibleData ==
    ASSUME TypeIInv, RecentIInv, NEW t \in Tags
    PROVE  Plausible(t, Data(t).heard)
  <1>1. contact[t] \in Nat /\ 0 <= contact[t] + Skew
    BY TimeAssumption DEF TypeIInv, RTypeOK
  <1>2. QED
    BY <1>1 DEF RecentIInv, Data, Zero, Plausible

LEMMA RecentInit == RInit => RecentIInv
  BY DEF RInit, RecentIInv, Empty

LEMMA RecentNext ==
    ASSUME TypeIInv, RecentIInv, RNext
    PROVE  RecentIInv'
  <1> USE DEF db
  <1>0. clock \in Nat /\ clock <= clock
    BY DEF TypeIInv, RTypeOK
  <1>1. ASSUME NEW r \in Requests, NEW t \in Tags, NEW v \in Nat, LastHeardArrives(r, t, v)
        PROVE  RecentIInv'
    <2>1. v <= clock + Skew /\ contact' = [contact EXCEPT ![t] = clock]
      BY <1>1 DEF LastHeardArrives, Acceptable
    <2>2. \A u \in Tags : contact[u] \in Nat /\ contact'[u] \in Nat /\ contact[u] <= contact'[u] /\ contact'[u] <= clock
      BY <2>1 DEF TypeIInv, RTypeOK, RecentIInv
    <2>3. \A u \in Tags, n \in Nat : Plausible(u, n) => n <= contact'[u] + Skew
      BY <2>2, TimeAssumption DEF Plausible
    <2>4. UNCHANGED <<realtime, liveOS, clock, todo>>
      BY <1>1 DEF LastHeardArrives
    <2>5. \A x \in Requests : at'[x] # "idle" => msg'[x].heard <= contact'[msg'[x].tag] + Skew
      <3> SUFFICES ASSUME NEW x \in Requests, at'[x] # "idle"
                   PROVE  msg'[x].heard <= contact'[msg'[x].tag] + Skew
        OBVIOUS
      <3>1. CASE x = r
        BY <1>1, <2>1, <3>1 DEF LastHeardArrives, TypeIInv, RTypeOK
      <3>2. CASE x # r
        <4>1. at[x] # "idle" /\ msg'[x] = msg[x]
          BY <1>1, <3>2 DEF LastHeardArrives, TypeIInv, RTypeOK
        <4>2. msg[x].tag \in Tags /\ msg[x].heard \in Nat
          BY <4>1 DEF TypeIInv, RTypeOK, Message
        <4>3. QED
          BY <2>3, <4>1, <4>2 DEF RecentIInv
      <3>3. QED
        BY <3>1, <3>2
    <2>6. \A u \in DOMAIN realtime : realtime[u].heard <= contact'[u] + Skew
      BY <2>3 DEF RecentIInv, TypeIInv, RTypeOK, Client
    <2>7. \A u \in DOMAIN liveOS : liveOS[u] <= contact'[u] + Skew
      BY <2>3 DEF RecentIInv, TypeIInv, RTypeOK
    <2>8. \A w \in Writers : \A u \in DOMAIN todo[w] : todo[w][u] <= contact'[u] + Skew
      BY <2>3 DEF RecentIInv, TypeIInv, RTypeOK
    <2>9. QED
      BY <2>2, <2>4, <2>5, <2>6, <2>7, <2>8 DEF RecentIInv, Plausible
  <1>2. ASSUME NEW t \in Tags, InitClient(t)
        PROVE  RecentIInv'
    BY <1>0, <1>2, RecentFrame DEF InitClient, RecentIInv
  <1>3. ASSUME NEW t \in Tags, ReportUsage(t)
        PROVE  RecentIInv'
    <2>1. Plausible(t, 0)
      BY TimeAssumption DEF Plausible, TypeIInv, RTypeOK
    <2>2. \A u \in DOMAIN liveOS' : Plausible(u, liveOS'[u])
      BY <1>3, <2>1 DEF ReportUsage, With, RecentIInv
    <2>3. QED
      BY <1>0, <1>3, <2>2, RecentFrame DEF ReportUsage, RecentIInv
  <1>4. ASSUME NEW t \in Tags, SetClientUptime(t)
        PROVE  RecentIInv'
    BY <1>4, PlausibleData, RecentWith DEF SetClientUptime
  <1>5. ASSUME NEW t \in Tags, UploadLiveImage(t)
        PROVE  RecentIInv'
    <2> DEFINE d == [Data(t) EXCEPT !.image = TRUE]
    <2>1. Plausible(t, d.heard)
      BY PlausibleData, DataType, SetImage DEF TypeIInv
    <2>2. /\ realtime' = With(realtime, t, d)
          /\ UNCHANGED <<liveOS, todo, clock, contact, at, msg>>
      BY <1>5 DEF UploadLiveImage
    <2> HIDE DEF d
    <2>3. QED
      BY <2>1, <2>2, RecentWith
  <1>6. ASSUME NEW r \in Requests, LookupUUID(r)
        PROVE  RecentIInv'
    <2>1. \A x \in Requests : at'[x] # "idle" => at[x] # "idle"
      BY <1>6 DEF LookupUUID, TypeIInv, RTypeOK
    <2>2. QED
      BY <1>0, <1>6, <2>1, RecentFrame DEF LookupUUID, RecentIInv
  <1>7. ASSUME NEW r \in Requests, ResolveUUID(r)
        PROVE  RecentIInv'
    <2> DEFINE t == msg[r].tag
               d == [Data(t) EXCEPT !.uuid = TRUE]
    <2>1. \A x \in Requests : at'[x] # "idle" => at[x] # "idle" /\ msg'[x] = msg[x]
      BY <1>7 DEF ResolveUUID, TypeIInv, RTypeOK
    <2>2. t \in Tags
      BY <1>7 DEF ResolveUUID, TypeIInv, RTypeOK
    <2>3. Plausible(t, d.heard)
      BY <2>2, PlausibleData, DataType, SetUUID DEF TypeIInv
    <2>4. realtime' = With(realtime, t, d) /\ UNCHANGED <<liveOS, clock, todo, contact>>
      BY <1>7 DEF ResolveUUID
    <2> HIDE DEF d, t
    <2>5. QED
      BY <2>1, <2>2, <2>3, <2>4, RecentWith
  <1>8. ASSUME NEW r \in Requests, StoreLastHeard(r)
        PROVE  RecentIInv'
    <2> DEFINE t == msg[r].tag
               d == HeardAt(Data(t), msg[r].heard)
    <2>1. t \in Tags /\ msg[r].heard \in Nat /\ Plausible(t, msg[r].heard)
      BY <1>8 DEF StoreLastHeard, TypeIInv, RTypeOK, Message, RecentIInv
    <2>2. Plausible(t, d.heard)
      BY <2>1, DataType, HeardAtType DEF TypeIInv
    <2>3. \A x \in Requests : at'[x] # "idle" => at[x] # "idle" /\ msg'[x] = msg[x]
      BY <1>8 DEF StoreLastHeard, TypeIInv, RTypeOK
    <2>4. realtime' = With(realtime, t, d) /\ UNCHANGED <<liveOS, clock, todo, contact>>
      BY <1>8 DEF StoreLastHeard
    <2> HIDE DEF d, t
    <2>5. QED
      BY <2>1, <2>2, <2>3, <2>4, RecentWith
  <1>9. ASSUME NEW w \in Writers, Snapshot(w)
        PROVE  RecentIInv'
    <2>1. \A x \in Writers : \A t \in DOMAIN todo'[x] : Plausible(t, todo'[x][t])
      BY <1>9 DEF Snapshot, Unsaved, TypeIInv, RTypeOK, RecentIInv
    <2>2. UNCHANGED <<realtime, liveOS, clock, at, msg, contact>>
      BY <1>9 DEF Snapshot
    <2>3. QED
      BY <1>0, <2>1, <2>2, RecentFrame DEF RecentIInv
  <1>10. ASSUME NEW w \in Writers, StopWriting(w)
         PROVE  RecentIInv'
    <2>1. \A x \in Writers : \A t \in DOMAIN todo'[x] : Plausible(t, todo'[x][t])
      BY <1>10 DEF StopWriting, Empty, TypeIInv, RTypeOK, RecentIInv
    <2>2. UNCHANGED <<realtime, liveOS, clock, at, msg, contact>>
      BY <1>10 DEF StopWriting
    <2>3. QED
      BY <1>0, <2>1, <2>2, RecentFrame DEF RecentIInv
  <1>11. ASSUME NEW w \in Writers, NEW t \in Tags, UpdateFails(w, t) \/ CommitLastHeard(w, t)
         PROVE  RecentIInv'
    <2>1. \A x \in Writers : \A u \in DOMAIN todo'[x] : Plausible(u, todo'[x][u])
      BY <1>11 DEF UpdateFails, CommitLastHeard, Without, TypeIInv, RTypeOK, RecentIInv
    <2>2. t \in DOMAIN todo[w]
      BY <1>11, TagAssumption DEF UpdateFails, CommitLastHeard, TypeIInv
    <2>3. Plausible(t, todo[w][t])
      BY <2>2 DEF RecentIInv
    <2>4. \A u \in DOMAIN liveOS' : Plausible(u, liveOS'[u])
      BY <1>11, <2>3 DEF UpdateFails, CommitLastHeard, With, RecentIInv
    <2>5. UNCHANGED <<realtime, clock, at, msg, contact>>
      BY <1>11 DEF UpdateFails, CommitLastHeard
    <2>6. QED
      BY <1>0, <2>1, <2>4, <2>5, RecentFrame DEF RecentIInv
  <1>12. ASSUME ClearOfflineLiveImageBytes
         PROVE  RecentIInv'
    <2>1. \A t \in DOMAIN realtime' : Plausible(t, realtime'[t].heard)
      BY <1>12 DEF ClearOfflineLiveImageBytes, TypeIInv, RTypeOK, Client, RecentIInv
    <2>2. UNCHANGED <<liveOS, clock, at, msg, todo, contact>>
      BY <1>12 DEF ClearOfflineLiveImageBytes
    <2>3. QED
      BY <1>0, <2>1, <2>2, RecentFrame DEF RecentIInv
  <1>13. ASSUME TimePasses
         PROVE  RecentIInv'
    BY <1>0, <1>13, RecentFrame DEF TimePasses, RecentIInv
  <1>14. ASSUME Restart
         PROVE  RecentIInv'
    <2>1. \A t \in DOMAIN realtime' : Plausible(t, realtime'[t].heard)
      BY <1>14, FromDBType DEF Restart, TypeIInv, RecentIInv
    <2>2. \A r \in Requests : at'[r] = "idle"
      BY <1>14 DEF Restart
    <2>3. \A w \in Writers : DOMAIN todo'[w] = {}
      BY <1>14 DEF Restart, Empty
    <2>4. UNCHANGED <<liveOS, clock, contact>>
      BY <1>14 DEF Restart
    <2>5. QED
      BY <1>0, <2>1, <2>2, <2>3, <2>4, RecentFrame DEF RecentIInv
  <1>15. ASSUME NEW w \in Writers, NEW t \in Tags, UpdateClientLastHeard(w, t)
         PROVE  RecentIInv'
    BY <1>0, <1>15, RecentFrame DEF UpdateClientLastHeard, RecentIInv
  <1>16. ASSUME NEW r \in Requests, ResolveFails(r)
         PROVE  RecentIInv'
    <2>1. \A x \in Requests : at'[x] # "idle" => at[x] # "idle" /\ msg'[x] = msg[x]
      BY <1>16 DEF ResolveFails, TypeIInv, RTypeOK
    <2>2. QED
      BY <1>0, <1>16, <2>1, RecentFrame DEF ResolveFails, RecentIInv
  <1>17. \A v \in 1..(MaxTime + Skew + 1) : v \in Nat
    BY TimeAssumption
  <1>18. QED
    BY <1>1, <1>2, <1>3, <1>4, <1>5, <1>6, <1>7, <1>8, <1>9, <1>10, <1>11, <1>12,
       <1>13, <1>14, <1>15, <1>16, <1>17
       DEF RNext, Arrival, HandlerStep, WriterStep

LEMMA RecentOnline ==
    ASSUME TypeIInv, RecentIInv
    PROVE  OnlineIsRecent
  <1> SUFFICES ASSUME NEW t \in DOMAIN realtime, Online(realtime[t], clock)
               PROVE  clock <= contact[t] + Skew + LastHeardTimeout
    BY DEF OnlineIsRecent
  <1>1. /\ t \in Tags /\ contact[t] \in Nat /\ clock \in Nat
        /\ realtime[t].heard \in Nat
    BY DEF TypeIInv, RTypeOK, Client
  <1>2. /\ clock <= realtime[t].heard + LastHeardTimeout
        /\ realtime[t].heard <= contact[t] + Skew
    BY DEF Online, RecentIInv, Plausible
  <1>3. QED
    BY <1>1, <1>2, TimeAssumption

\* A client that counts as online called within the timeout and the tolerated
\* skew (realtime_helpers.go:168, post.go:527).
THEOREM RecentHolds == RSpec => []OnlineIsRecent
  <1>1. TypeIInv /\ RecentIInv /\ [RNext]_rvars => (TypeIInv /\ RecentIInv)'
    <2>1. ASSUME TypeIInv, RecentIInv, UNCHANGED rvars
          PROVE  (TypeIInv /\ RecentIInv)'
      BY <2>1 DEF rvars, TypeIInv, RTypeOK, RecentIInv, Plausible
    <2>2. QED
      BY <2>1, TypeNext, RecentNext
  <1>2. QED
    BY <1>1, RecentOnline, TypeInit, RecentInit, PTL DEF RSpec
=============================================================================
