------------------------- MODULE RateLimiterProofs -------------------------
(***************************************************************************)
(* Theorems about RateLimiter for any requests, addresses, limiter types,  *)
(* rates and durations that satisfy its assumptions: its types, the rate   *)
(* in every window, and what becomes of bans.                              *)
(***************************************************************************)
EXTENDS RateLimiter, TLAPS

-----------------------------------------------------------------------------
\* Arithmetic of refilling.

LEMMA MoreTimeMoreTokens ==
    ASSUME NEW k \in Nat, NEW x \in Int, NEW y \in Int, x <= y
    PROVE  k * x \in Int /\ k * y \in Int /\ k * x <= k * y
  OBVIOUS

LEMMA NoTimeNoTokens ==
    ASSUME NEW k \in Nat, NEW x \in Int, x <= 0
    PROVE  k * x \in Int /\ k * x <= 0
  OBVIOUS

LEMMA TwoStalls ==
    ASSUME NEW c \in Nat, NEW n \in Nat, NEW s \in Nat, NEW m \in Nat,
           c <= n + m, n <= s + m
    PROVE  c - s - 2 * m \in Int /\ c - s - 2 * m <= 0
  OBVIOUS

LEMMA OneSpent ==
    ASSUME NEW a \in Nat, NEW t \in Nat
    PROVE  (a + 1) + (t - 1) = a + t
  OBVIOUS

LEMMA OneTick ==
    ASSUME NEW k \in Nat, NEW x \in Int
    PROVE  k * x \in Int /\ k * (x + 1) \in Int /\ k * (x + 1) = k * x + k
  OBVIOUS

\* Durations.
LEMMA Constants ==
    /\ BanFor \in Nat /\ MaxStall \in Nat /\ EntryTTL \in Nat
    /\ 2 * MaxStall \in Nat /\ 2 * MaxStall <= EntryTTL
    /\ \A lt \in LimiterTypes : Burst[lt] \in Nat /\ Rate[lt] \in Nat
  BY TimeAssumption, RateAssumption

-----------------------------------------------------------------------------
\* What a call holds.

LEMMA Types ==
    ASSUME IInv
    PROVE  /\ DOMAIN bans \subseteq IPs /\ bans \in [DOMAIN bans -> Nat]
           /\ DOMAIN limiters = LimiterTypes
           /\ \A lt \in LimiterTypes :
                 /\ DOMAIN limiters[lt] \subseteq IPs
                 /\ limiters[lt] \in [DOMAIN limiters[lt] -> Entry]
           /\ buckets \in Seq(Bucket) /\ clock \in Nat /\ since \in Nat
           /\ pc \in [Procs -> Steps] /\ req \in [Procs -> Locals]
           /\ admitted \in [LimiterTypes -> [IPs -> Nat]] /\ promised \in [IPs -> Nat]
  BY DEF IInv, TypeOK

LEMMA Call ==
    ASSUME IInv, NEW r \in Requests, pc[r] # "idle"
    PROVE  /\ req[r] \in Locals /\ req[r].ip \in IPs /\ req[r].lt \in LimiterTypes
           /\ req[r].now \in Nat /\ clock \in Nat /\ MaxStall \in Nat
           /\ req[r].now <= clock /\ clock <= req[r].now + MaxStall
  <1>1. req[r] \in Locals /\ clock \in Nat
    BY Types DEF Procs
  <1>2. req[r].now \in Nat
    BY <1>1 DEF Locals
  <1>3. QED
    BY <1>1, <1>2, Constants DEF IInv, CallsTimed

LEMMA FreshType == Fresh \in Locals
  BY DEF Fresh, Locals

\* A step of one process that leaves the clock alone.
LEMMA OneMoves ==
    ASSUME IInv, NEW p \in Procs, NEW l \in Steps, NEW x \in Locals,
           pc' = [pc EXCEPT ![p] = l], req' = [req EXCEPT ![p] = x], UNCHANGED clock,
           p \in Requests /\ l # "idle" =>
              /\ x.ip \in IPs /\ x.lt \in LimiterTypes
              /\ x.now <= clock /\ clock <= x.now + MaxStall,
           p \in Cleaners /\ l = "clean" => x.now <= clock
    PROVE  /\ pc' \in [Procs -> Steps] /\ req' \in [Procs -> Locals]
           /\ pc'[p] = l /\ req'[p] = x
           /\ \A q \in Procs \ {p} : pc'[q] = pc[q] /\ req'[q] = req[q]
           /\ CallsTimed'
  <1>1. /\ pc' \in [Procs -> Steps] /\ req' \in [Procs -> Locals]
        /\ pc'[p] = l /\ req'[p] = x
        /\ \A q \in Procs \ {p} : pc'[q] = pc[q] /\ req'[q] = req[q]
    BY Types
  <1>2. CallsTimed'
    BY <1>1 DEF IInv, CallsTimed, Procs
  <1>3. QED
    BY <1>1, <1>2

LEMMA Returns ==
    ASSUME IInv, NEW p \in Procs, Return(p), UNCHANGED clock
    PROVE  /\ pc' \in [Procs -> Steps] /\ req' \in [Procs -> Locals]
           /\ pc'[p] = "idle" /\ req'[p] = Fresh
           /\ \A q \in Procs \ {p} : pc'[q] = pc[q] /\ req'[q] = req[q]
           /\ CallsTimed'
  BY FreshType, OneMoves DEF Return, Goto, Steps

\* The parts of IInv that a step has to do with.
LimitsOK == BucketsRefilled /\ EntriesHeld /\ Budget
BansOK   == BanKept /\ BanHorizon /\ PromisesNear

LEMMA Parts == IInv => LimitsOK /\ BansOK /\ CallsTimed /\ TypeOK
  BY DEF IInv, LimitsOK, BansOK

LEMMA Join == ASSUME TypeOK', CallsTimed', LimitsOK', BansOK' PROVE IInv'
  BY DEF IInv, LimitsOK, BansOK

LEMMA LimitsKept ==
    ASSUME IInv, UNCHANGED <<limiters, buckets, clock, since, admitted>>,
           \A q \in Requests : \/ pc'[q] \notin {"take", "allow"}
                               \/ pc'[q] = pc[q] /\ req'[q] = req[q]
    PROVE  LimitsOK'
  <1>1. BucketsRefilled' /\ Budget'
    BY Parts DEF LimitsOK, BucketsRefilled, Budget, Allowance
  <1>2. EntriesHeld'
    BY Parts DEF LimitsOK, EntriesHeld
  <1>3. QED
    BY <1>1, <1>2 DEF LimitsOK

LEMMA BansLeft == ASSUME IInv, UNCHANGED <<bans, clock, promised>> PROVE BansOK'
  BY Parts DEF BansOK, BanKept, BanHorizon, PromisesNear

\* Bans that are over are lifted.
LEMMA BansLifted ==
    ASSUME IInv, NEW S, bans' = Without(bans, S), UNCHANGED <<clock, promised>>,
           \A ip \in S \cap DOMAIN bans : bans[ip] <= clock
    PROVE  BansOK' /\ DOMAIN bans' \subseteq IPs /\ bans' \in [DOMAIN bans' -> Nat]
  <1>1. bans \in [DOMAIN bans -> Nat] /\ DOMAIN bans \subseteq IPs
    BY Types
  <1>2. /\ DOMAIN bans' = DOMAIN bans \ S /\ bans' \in [DOMAIN bans \ S -> Nat]
        /\ \A ip \in DOMAIN bans \ S : bans'[ip] = bans[ip]
    BY <1>1 DEF Without
  <1>3. \A ip \in IPs : /\ promised[ip] \in Nat /\ promised[ip] <= clock + BanFor
                        /\ \/ promised[ip] <= clock + MaxStall
                           \/ ip \in DOMAIN bans /\ bans[ip] + MaxStall >= promised[ip]
    BY Types, Parts DEF BansOK, BanKept, PromisesNear
  <1>4. clock \in Nat /\ MaxStall \in Nat
    BY Types, Constants
  <1>5. BanKept'
    <2>1. SUFFICES ASSUME NEW ip \in IPs
                   PROVE  \/ promised[ip] <= clock + MaxStall
                          \/ ip \in DOMAIN bans' /\ bans'[ip] + MaxStall >= promised[ip]
      BY DEF BanKept
    <2>2. CASE ip \in S \cap DOMAIN bans
      <3>1. bans[ip] \in Nat /\ bans[ip] <= clock
        BY <1>1, <2>2
      <3>2. QED
        BY <1>3, <1>4, <3>1
    <2>3. CASE ip \notin S \cap DOMAIN bans
      BY <1>2, <1>3, <2>3
    <2>4. QED
      BY <2>2, <2>3
  <1>6. BanHorizon' /\ PromisesNear'
    BY <1>2, Parts DEF BansOK, BanHorizon, PromisesNear
  <1>7. QED
    BY <1>1, <1>2, <1>5, <1>6 DEF BansOK

-----------------------------------------------------------------------------
\* Steps that only move, or only touch bans.

LEMMA ArriveStep ==
    ASSUME IInv, NEW r \in Requests, NEW ip \in IPs, NEW lt \in LimiterTypes, Arrive(r, ip, lt)
    PROVE  IInv'
  <1> DEFINE x == [Fresh EXCEPT !.ip = ip, !.lt = lt, !.now = clock]
  <1>1. x \in Locals /\ x.ip = ip /\ x.lt = lt /\ x.now = clock
    BY FreshType, Types DEF Locals
  <1>2. /\ pc' = [pc EXCEPT ![r] = "blocked"] /\ req' = [req EXCEPT ![r] = x]
        /\ UNCHANGED <<bans, limiters, buckets, clock, since, admitted, promised>>
    BY DEF Arrive, Goto, observed
  <1> HIDE DEF x
  <1>3. clock <= clock + MaxStall
    BY Types, Constants
  <1>4. r \in Procs /\ ~(r \in Cleaners)
    BY ProcAssumption DEF Procs
  <1>5. /\ pc' \in [Procs -> Steps] /\ req' \in [Procs -> Locals]
        /\ pc'[r] = "blocked" /\ \A q \in Procs \ {r} : pc'[q] = pc[q] /\ req'[q] = req[q]
        /\ CallsTimed'
    <2>1. /\ x.ip \in IPs /\ x.lt \in LimiterTypes
          /\ x.now <= clock /\ clock <= x.now + MaxStall
      BY <1>1, <1>3, Types
    <2>2. x \in Locals /\ "blocked" \in Steps
      BY <1>1 DEF Steps
    <2>3. QED
      BY <1>2, <1>4, <2>1, <2>2, OneMoves
  <1>6. LimitsOK'
    BY <1>2, <1>5, LimitsKept DEF Procs
  <1>7. BansOK'
    BY <1>2, BansLeft
  <1>8. TypeOK'
    BY <1>2, <1>5, Types DEF TypeOK
  <1>9. QED
    BY <1>5, <1>6, <1>7, <1>8, Join

LEMMA IsIPBlockedStep ==
    ASSUME IInv, NEW r \in Requests, IsIPBlocked(r) PROVE IInv'
  <1>1. /\ pc[r] = "blocked" /\ r \in Procs /\ ~(r \in Cleaners) /\ req[r] \in Locals
        /\ UNCHANGED <<limiters, buckets, clock, req, since, admitted, promised>>
    BY Types, ProcAssumption DEF IsIPBlocked, observed, Procs
  <1>2. PICK l \in {"attach", "extend"} : pc' = [pc EXCEPT ![r] = l]
    BY DEF IsIPBlocked, Goto
  <1>3. req' = [req EXCEPT ![r] = req[r]]
    BY <1>1, Types
  <1>4. /\ pc' \in [Procs -> Steps] /\ req' \in [Procs -> Locals] /\ pc'[r] = l
        /\ \A q \in Procs \ {r} : pc'[q] = pc[q] /\ req'[q] = req[q]
        /\ CallsTimed'
    BY <1>1, <1>2, <1>3, Call, OneMoves DEF Steps
  <1>5. LimitsOK'
    BY <1>1, <1>2, <1>4, LimitsKept DEF Procs
  <1>6. BansOK' /\ DOMAIN bans' \subseteq IPs /\ bans' \in [DOMAIN bans' -> Nat]
    <2>1. CASE UNCHANGED bans
      BY <1>1, <2>1, Types, BansLeft
    <2>2. CASE BanOver(req[r].ip, clock) /\ bans' = Without(bans, {req[r].ip})
      BY <1>1, <2>2, BansLifted DEF BanOver
    <2>3. QED
      BY <2>1, <2>2 DEF IsIPBlocked
  <1>7. TypeOK'
    BY <1>1, <1>4, <1>6, Types DEF TypeOK
  <1>8. QED
    BY <1>4, <1>5, <1>6, <1>7, Join

LEMMA WriteBanStep ==
    ASSUME IInv, NEW r \in Requests, WriteBan(r) PROVE IInv'
  <1> DEFINE ip == req[r].ip
             expiry == req[r].now + BanFor
  <1>1. /\ pc[r] # "idle" /\ r \in Procs /\ Return(r)
        /\ UNCHANGED <<limiters, buckets, clock, since, admitted>>
        /\ bans' = With(bans, ip, expiry)
        /\ promised' = [promised EXCEPT ![ip] = Larger(@, expiry)]
    BY ProcAssumption DEF WriteBan, Refuse, nextBanExpiry, Procs
  <1>2. /\ pc' \in [Procs -> Steps] /\ req' \in [Procs -> Locals] /\ pc'[r] = "idle"
        /\ \A q \in Procs \ {r} : pc'[q] = pc[q] /\ req'[q] = req[q]
        /\ CallsTimed'
    BY <1>1, Returns
  <1>3. LimitsOK'
    BY <1>1, <1>2, LimitsKept DEF Procs
  <1>4. /\ ip \in IPs /\ expiry \in Nat /\ clock \in Nat /\ MaxStall \in Nat /\ BanFor \in Nat
        /\ expiry <= clock + BanFor /\ clock + BanFor <= expiry + MaxStall
    BY <1>1, Call, Constants
  <1>5. /\ bans \in [DOMAIN bans -> Nat] /\ DOMAIN bans \subseteq IPs
        /\ promised \in [IPs -> Nat]
    BY Types
  <1> HIDE DEF ip, expiry
  <1>6. /\ DOMAIN bans' = DOMAIN bans \cup {ip}
        /\ bans' \in [DOMAIN bans \cup {ip} -> Nat] /\ bans'[ip] = expiry
        /\ \A y \in DOMAIN bans \ {ip} : bans'[y] = bans[y]
    BY <1>1, <1>4, <1>5 DEF With
  <1>7. /\ promised' \in [IPs -> Nat] /\ promised'[ip] = Larger(promised[ip], expiry)
        /\ \A y \in IPs \ {ip} : promised'[y] = promised[y]
    BY <1>1, <1>4, <1>5 DEF Larger
  <1>8. PromisesNear'
    BY <1>1, <1>4, <1>5, <1>7, Parts DEF BansOK, PromisesNear, Larger
  <1>9. BanHorizon'
    BY <1>1, <1>4, <1>6, Parts DEF BansOK, BanHorizon
  <1>10. BanKept'
    <2>1. SUFFICES ASSUME NEW y \in IPs
                   PROVE  \/ promised'[y] <= clock + MaxStall
                          \/ y \in DOMAIN bans' /\ bans'[y] + MaxStall >= promised'[y]
      BY <1>1 DEF BanKept
    <2>2. CASE y = ip
      <3>1. promised'[ip] <= clock + BanFor /\ promised'[ip] \in Nat
        BY <1>1, <1>4, <1>7, <1>8 DEF PromisesNear
      <3>2. QED
        BY <1>4, <1>6, <2>2, <3>1
    <2>3. CASE y # ip
      BY <1>6, <1>7, <2>3, Parts DEF BansOK, BanKept
    <2>4. QED
      BY <2>2, <2>3
  <1>11. TypeOK'
    BY <1>1, <1>2, <1>4, <1>5, <1>6, <1>7, Types DEF TypeOK
  <1>12. QED
    BY <1>2, <1>3, <1>8, <1>9, <1>10, <1>11, Join DEF BansOK

LEMMA CleanerTickStep ==
    ASSUME IInv, NEW p \in Cleaners, CleanerTick(p) PROVE IInv'
  <1> DEFINE x == [req[p] EXCEPT !.now = clock,
                                 !.todo = IF p = LimiterCleaner THEN LimiterTypes ELSE {}]
  <1>1. p \in Procs /\ ~(p \in Requests) /\ req[p] \in Locals
    BY Types, ProcAssumption DEF Procs
  <1>2. x \in Locals /\ x.now = clock
    BY <1>1, Types DEF Locals
  <1>3. /\ pc' = [pc EXCEPT ![p] = "clean"] /\ req' = [req EXCEPT ![p] = x]
        /\ UNCHANGED <<bans, limiters, buckets, clock, since, admitted, promised>>
    BY <1>1, Types DEF CleanerTick, Goto, observed
  <1> HIDE DEF x
  <1>4. /\ pc' \in [Procs -> Steps] /\ req' \in [Procs -> Locals] /\ pc'[p] = "clean"
        /\ \A q \in Procs \ {p} : pc'[q] = pc[q] /\ req'[q] = req[q]
        /\ CallsTimed'
    <2>1. x.now <= clock /\ "clean" \in Steps
      BY <1>2, Types DEF Steps
    <2>2. QED
      BY <1>1, <1>2, <1>3, <2>1, OneMoves
  <1>5. LimitsOK'
    BY <1>1, <1>3, <1>4, LimitsKept DEF Procs
  <1>6. BansOK'
    BY <1>3, BansLeft
  <1>7. TypeOK'
    BY <1>3, <1>4, Types DEF TypeOK
  <1>8. QED
    BY <1>4, <1>5, <1>6, <1>7, Join

LEMMA CleanupExpiredBansStep ==
    ASSUME IInv, CleanupExpiredBans PROVE IInv'
  <1>1. /\ BanCleaner \in Cleaners /\ BanCleaner \in Procs /\ BanCleaner \notin Requests
        /\ pc[BanCleaner] = "clean" /\ Return(BanCleaner)
        /\ UNCHANGED <<limiters, buckets, clock, since, admitted, promised>>
    BY ProcAssumption DEF CleanupExpiredBans, observed, Procs, Cleaners
  <1>2. /\ pc' \in [Procs -> Steps] /\ req' \in [Procs -> Locals] /\ pc'[BanCleaner] = "idle"
        /\ \A q \in Procs \ {BanCleaner} : pc'[q] = pc[q] /\ req'[q] = req[q]
        /\ CallsTimed'
    BY <1>1, Returns
  <1>3. LimitsOK'
    BY <1>1, <1>2, LimitsKept DEF Procs
  <1>4. /\ req[BanCleaner].now <= clock /\ req[BanCleaner].now \in Nat /\ clock \in Nat
        /\ bans \in [DOMAIN bans -> Nat]
    BY <1>1, Types, Parts DEF CallsTimed, Locals
  <1>5. \A ip \in DOMAIN bans : BanOver(ip, req[BanCleaner].now) => bans[ip] <= clock
    BY <1>4 DEF BanOver
  <1>6. BansOK' /\ DOMAIN bans' \subseteq IPs /\ bans' \in [DOMAIN bans' -> Nat]
    BY <1>1, <1>5, BansLifted DEF CleanupExpiredBans
  <1>7. TypeOK'
    BY <1>1, <1>2, <1>6, Types DEF TypeOK
  <1>8. QED
    BY <1>2, <1>3, <1>6, <1>7, Join

-----------------------------------------------------------------------------
\* Steps that use entries and buckets.

LEMMA EntryFacts ==
    ASSUME IInv, NEW lt \in LimiterTypes, NEW ip \in DOMAIN limiters[lt]
    PROVE  /\ ip \in IPs /\ limiters[lt][ip] \in Entry
           /\ limiters[lt][ip].bucket \in 1..Len(buckets) /\ Len(buckets) \in Nat
           /\ limiters[lt][ip].lastSeen \in Nat
           /\ buckets[limiters[lt][ip].bucket] \in Bucket
           /\ buckets[limiters[lt][ip].bucket].lt = lt
           /\ buckets[limiters[lt][ip].bucket].tokens \in Nat
           /\ buckets[limiters[lt][ip].bucket].tokens <= Burst[lt]
           /\ \/ buckets[limiters[lt][ip].bucket].tokens = Burst[lt]
              \/ Rate[lt] * (clock - limiters[lt][ip].lastSeen - 2 * MaxStall)
                    <= buckets[limiters[lt][ip].bucket].tokens
           /\ \A lu \in LimiterTypes : \A iq \in DOMAIN limiters[lu] :
                 limiters[lu][iq].bucket = limiters[lt][ip].bucket => lu = lt /\ iq = ip
  <1>1. /\ ip \in IPs /\ limiters[lt][ip] \in Entry /\ buckets \in Seq(Bucket)
    BY Types
  <1>2. limiters[lt][ip].lastSeen \in Nat
    BY <1>1 DEF Entry
  <1>3. /\ limiters[lt][ip].bucket \in DOMAIN buckets
        /\ buckets[limiters[lt][ip].bucket].lt = lt
        /\ buckets[limiters[lt][ip].bucket].tokens <= Burst[lt]
        /\ \/ buckets[limiters[lt][ip].bucket].tokens = Burst[lt]
           \/ Rate[lt] * (clock - limiters[lt][ip].lastSeen - 2 * MaxStall)
                 <= buckets[limiters[lt][ip].bucket].tokens
        /\ \A lu \in LimiterTypes : \A iq \in DOMAIN limiters[lu] :
              limiters[lu][iq].bucket = limiters[lt][ip].bucket => lu = lt /\ iq = ip
    BY Parts DEF LimitsOK, BucketsRefilled
  <1>4. limiters[lt][ip].bucket \in 1..Len(buckets) /\ Len(buckets) \in Nat
    BY <1>1, <1>3
  <1>5. buckets[limiters[lt][ip].bucket] \in Bucket
    BY <1>1, <1>4
  <1>6. buckets[limiters[lt][ip].bucket].tokens \in Nat
    BY <1>5 DEF Bucket
  <1>7. QED
    BY <1>1, <1>2, <1>3, <1>4, <1>5, <1>6

\* An entry is dated anew, not more than one stall back.
Dated(lt, ip, t) ==
    /\ lt \in LimiterTypes /\ ip \in DOMAIN limiters[lt]
    /\ t \in Nat /\ t <= clock /\ clock <= t + MaxStall
    /\ limiters' = [limiters EXCEPT ![lt][ip].lastSeen = t]
    /\ UNCHANGED <<buckets, clock, since, admitted>>

LEMMA SeenAt ==
    ASSUME IInv, NEW lt, NEW ip, NEW t, Dated(lt, ip, t)
    PROVE  /\ BucketsRefilled' /\ Budget'
           /\ DOMAIN limiters' = LimiterTypes
           /\ \A lu \in LimiterTypes :
                 /\ DOMAIN limiters'[lu] = DOMAIN limiters[lu]
                 /\ limiters'[lu] \in [DOMAIN limiters[lu] -> Entry]
                 /\ \A iq \in DOMAIN limiters[lu] :
                       /\ limiters'[lu][iq].bucket = limiters[lu][iq].bucket
                       /\ limiters'[lu][iq].lastSeen =
                             IF lu = lt /\ iq = ip THEN t ELSE limiters[lu][iq].lastSeen
  <1>0. /\ lt \in LimiterTypes /\ ip \in DOMAIN limiters[lt]
        /\ t \in Nat /\ t <= clock /\ clock <= t + MaxStall
        /\ limiters' = [limiters EXCEPT ![lt][ip].lastSeen = t]
        /\ UNCHANGED <<buckets, clock, since, admitted>>
    BY DEF Dated
  <1> USE <1>0
  <1>1. /\ DOMAIN limiters = LimiterTypes
        /\ \A lu \in LimiterTypes : limiters[lu] \in [DOMAIN limiters[lu] -> Entry]
    BY Types
  <1>2. /\ [limiters[lt][ip] EXCEPT !.lastSeen = t] \in Entry
        /\ [limiters[lt][ip] EXCEPT !.lastSeen = t].bucket = limiters[lt][ip].bucket
        /\ [limiters[lt][ip] EXCEPT !.lastSeen = t].lastSeen = t
    BY <1>1 DEF Entry
  <1>3. /\ DOMAIN limiters' = LimiterTypes
        /\ limiters'[lt] = [limiters[lt] EXCEPT ![ip] = [@ EXCEPT !.lastSeen = t]]
        /\ \A lu \in LimiterTypes \ {lt} : limiters'[lu] = limiters[lu]
    BY <1>1
  <1>4. ASSUME NEW lu \in LimiterTypes
        PROVE  /\ DOMAIN limiters'[lu] = DOMAIN limiters[lu]
               /\ limiters'[lu] \in [DOMAIN limiters[lu] -> Entry]
               /\ \A iq \in DOMAIN limiters[lu] :
                     /\ limiters'[lu][iq].bucket = limiters[lu][iq].bucket
                     /\ limiters'[lu][iq].lastSeen =
                           IF lu = lt /\ iq = ip THEN t ELSE limiters[lu][iq].lastSeen
    <2>1. CASE lu = lt
      BY <1>1, <1>2, <1>3, <2>1
    <2>2. CASE lu # lt
      BY <1>1, <1>3, <2>2
    <2>3. QED
      BY <2>1, <2>2
  <1>5. BucketsRefilled'
    <2>1. SUFFICES ASSUME NEW lu \in LimiterTypes, NEW iq \in DOMAIN limiters[lu]
                   PROVE  LET b == limiters[lu][iq].bucket
                          IN  /\ b \in DOMAIN buckets /\ buckets[b].lt = lu
                              /\ buckets[b].tokens <= Burst[lu]
                              /\ \/ buckets[b].tokens = Burst[lu]
                                 \/ Rate[lu] * (clock - limiters'[lu][iq].lastSeen
                                                  - 2 * MaxStall) <= buckets[b].tokens
                              /\ \A lv \in LimiterTypes : \A ir \in DOMAIN limiters[lv] :
                                    limiters[lv][ir].bucket = b => lv = lu /\ ir = iq
      BY <1>4 DEF BucketsRefilled
    <2>2. CASE lu = lt /\ iq = ip
      <3>1. /\ clock \in Nat /\ 2 * MaxStall \in Nat /\ MaxStall \in Nat
            /\ Rate[lt] \in Nat
        BY Types, Constants
      <3>2. clock - t - 2 * MaxStall \in Int /\ clock - t - 2 * MaxStall <= 0
        BY <3>1
      <3>3. Rate[lt] * (clock - t - 2 * MaxStall) <= 0
            /\ Rate[lt] * (clock - t - 2 * MaxStall) \in Int
        BY <3>1, <3>2, NoTimeNoTokens
      <3>4. buckets[limiters[lt][ip].bucket].tokens \in Nat
        BY EntryFacts
      <3>5. Rate[lt] * (clock - limiters'[lt][ip].lastSeen - 2 * MaxStall)
               <= buckets[limiters[lt][ip].bucket].tokens
        BY <1>4, <3>3, <3>4
      <3>6. QED
        BY <2>2, <3>5, EntryFacts, SMTT(20)
    <2>3. CASE ~(lu = lt /\ iq = ip)
      <3>1. limiters'[lu][iq].lastSeen = limiters[lu][iq].lastSeen
        BY <1>4, <2>3
      <3>2. QED
        BY <3>1, EntryFacts
    <2>4. QED
      BY <2>2, <2>3
  <1>6. Budget'
    <2>1. \A lu \in LimiterTypes, iq \in IPs : Allowance(lu, iq)' = Allowance(lu, iq)
      BY <1>4 DEF Allowance
    <2>2. QED
      BY <2>1, Parts DEF LimitsOK, Budget
  <1>7. QED
    BY <1>3, <1>4, <1>5, <1>6

\* Calls under way keep their entries when one is dated anew.
LEMMA SeenHolds ==
    ASSUME IInv, NEW lt, NEW ip, NEW t, Dated(lt, ip, t),
           NEW q \in Requests, pc[q] \in {"take", "allow"}, pc'[q] = pc[q], req'[q] = req[q]
    PROVE  LET entries == limiters'[req'[q].lt]
           IN  /\ req'[q].ip \in DOMAIN entries
               /\ req'[q].now <= entries[req'[q].ip].lastSeen + MaxStall
               /\ pc'[q] = "allow" => req'[q].bucket = entries[req'[q].ip].bucket
  <1>0. t \in Nat /\ clock <= t + MaxStall
    BY DEF Dated
  <1>1. /\ req[q].lt \in LimiterTypes /\ req[q].now \in Nat /\ clock \in Nat
        /\ MaxStall \in Nat /\ req[q].now <= clock
    BY Call
  <1>2. /\ req[q].ip \in DOMAIN limiters[req[q].lt]
        /\ req[q].now <= limiters[req[q].lt][req[q].ip].lastSeen + MaxStall
        /\ pc[q] = "allow" => req[q].bucket = limiters[req[q].lt][req[q].ip].bucket
    BY Parts DEF LimitsOK, EntriesHeld
  <1>3. /\ DOMAIN limiters'[req[q].lt] = DOMAIN limiters[req[q].lt]
        /\ limiters'[req[q].lt][req[q].ip].bucket = limiters[req[q].lt][req[q].ip].bucket
        /\ limiters'[req[q].lt][req[q].ip].lastSeen \in
              {t, limiters[req[q].lt][req[q].ip].lastSeen}
    <2>1. \A lu \in LimiterTypes :
             /\ DOMAIN limiters'[lu] = DOMAIN limiters[lu]
             /\ \A iq \in DOMAIN limiters[lu] :
                   /\ limiters'[lu][iq].bucket = limiters[lu][iq].bucket
                   /\ limiters'[lu][iq].lastSeen \in {t, limiters[lu][iq].lastSeen}
      BY SeenAt
    <2>2. QED
      BY <1>1, <1>2, <2>1, Zenon
  <1>4. req[q].now <= t + MaxStall
    BY <1>0, <1>1
  <1>5. QED
    BY <1>2, <1>3, <1>4

\* TakeLimiter never finds its entry gone.
LEMMA TakeLimiterStep ==
    ASSUME IInv, NEW r \in Requests, TakeLimiter(r) PROVE IInv'
  <1> DEFINE lt == req[r].lt
             ip == req[r].ip
             x == [req[r] EXCEPT !.bucket = limiters[lt][ip].bucket]
  <1>1. /\ pc[r] = "take" /\ r \in Procs /\ r \notin Cleaners
        /\ UNCHANGED <<bans, buckets, clock>>
    BY ProcAssumption DEF TakeLimiter, Procs
  <1>2. /\ req[r] \in Locals /\ lt \in LimiterTypes /\ ip \in IPs /\ req[r].now \in Nat
        /\ req[r].now <= clock /\ clock <= req[r].now + MaxStall
    BY <1>1, Call
  <1>3. ip \in DOMAIN limiters[lt]
    BY <1>1, Parts DEF LimitsOK, EntriesHeld
  <1>4. /\ limiters' = [limiters EXCEPT ![lt][ip].lastSeen = req[r].now]
        /\ req' = [req EXCEPT ![r] = x] /\ pc' = [pc EXCEPT ![r] = "allow"]
        /\ UNCHANGED <<since, admitted, promised>>
    BY <1>2, <1>3, Types DEF TakeLimiter, Goto, observed, Procs
  <1>5. limiters[lt][ip].bucket \in Nat
    BY <1>2, <1>3, EntryFacts DEF Entry
  <1>6. /\ x \in Locals /\ x.bucket = limiters[lt][ip].bucket /\ x.now = req[r].now
        /\ x.ip = ip /\ x.lt = lt
    BY <1>2, <1>5 DEF Locals
  <1> HIDE DEF x
  <1>7. /\ pc' \in [Procs -> Steps] /\ req' \in [Procs -> Locals]
        /\ pc'[r] = "allow" /\ req'[r] = x
        /\ \A q \in Procs \ {r} : pc'[q] = pc[q] /\ req'[q] = req[q]
        /\ CallsTimed'
    <2>1. "allow" \in Steps
      BY DEF Steps
    <2>2. QED
      BY <1>1, <1>2, <1>4, <1>6, <2>1, OneMoves
  <1>dated. Dated(lt, ip, req[r].now)
    BY <1>1, <1>2, <1>3, <1>4 DEF Dated
  <1> HIDE DEF lt, ip
  <1>8. /\ BucketsRefilled' /\ Budget' /\ DOMAIN limiters' = LimiterTypes
        /\ \A lu \in LimiterTypes :
              /\ DOMAIN limiters'[lu] = DOMAIN limiters[lu]
              /\ limiters'[lu] \in [DOMAIN limiters[lu] -> Entry]
    BY <1>dated, SeenAt
  <1>9. /\ limiters'[lt][ip].bucket = limiters[lt][ip].bucket
        /\ limiters'[lt][ip].lastSeen = req[r].now
    BY <1>2, <1>3, <1>dated, SeenAt
  <1>10. EntriesHeld'
    <2>1. SUFFICES ASSUME NEW q \in Requests, pc'[q] \in {"take", "allow"}
                   PROVE  LET entries == limiters'[req'[q].lt]
                          IN  /\ req'[q].ip \in DOMAIN entries
                              /\ req'[q].now <= entries[req'[q].ip].lastSeen + MaxStall
                              /\ pc'[q] = "allow" =>
                                    req'[q].bucket = entries[req'[q].ip].bucket
      BY DEF EntriesHeld
    <2>2. CASE q = r
      <3>1. req[r].now <= req[r].now + MaxStall
        BY <1>2, Constants
      <3>2. QED
        BY <1>2, <1>3, <1>6, <1>7, <1>8, <1>9, <2>2, <3>1
    <2>3. CASE q # r
      <3>1. pc'[q] = pc[q] /\ req'[q] = req[q]
        BY <1>7, <2>3 DEF Procs
      <3>2. QED
        BY <1>dated, <2>1, <3>1, SeenHolds
    <2>4. QED
      BY <2>2, <2>3
  <1>11. TypeOK'
    BY <1>1, <1>4, <1>7, <1>8, Types DEF TypeOK
  <1>12. BansOK'
    BY <1>1, <1>4, BansLeft
  <1>13. QED
    BY <1>7, <1>8, <1>10, <1>11, <1>12, Join DEF LimitsOK

LEMMA AttachMoves ==
    ASSUME IInv, NEW r \in Requests, AttachToClientIP(r)
    PROVE  /\ pc[r] = "attach" /\ r \in Procs
           /\ UNCHANGED <<bans, clock, req, since, admitted, promised>>
           /\ req[r].lt \in LimiterTypes /\ req[r].ip \in IPs /\ req[r].now \in Nat
           /\ req[r].now <= clock /\ clock \in Nat
           /\ pc' \in [Procs -> Steps] /\ req' \in [Procs -> Locals] /\ pc'[r] = "take"
           /\ \A q \in Procs \ {r} : pc'[q] = pc[q] /\ req'[q] = req[q]
           /\ CallsTimed'
  <1>1. /\ pc[r] = "attach" /\ r \in Procs /\ r \notin Cleaners
        /\ UNCHANGED <<bans, clock, req, since, admitted, promised>>
        /\ pc' = [pc EXCEPT ![r] = "take"]
    BY ProcAssumption DEF AttachToClientIP, observed, Procs, Goto
  <1>2. /\ req[r] \in Locals /\ req[r].lt \in LimiterTypes /\ req[r].ip \in IPs
        /\ req[r].now \in Nat /\ clock \in Nat
        /\ req[r].now <= clock /\ clock <= req[r].now + MaxStall
    BY <1>1, Call
  <1>3. req' = [req EXCEPT ![r] = req[r]] /\ "take" \in Steps
    BY <1>1, Types DEF Steps
  <1>4. QED
    BY <1>1, <1>2, <1>3, OneMoves

LEMMA AttachOld ==
    ASSUME IInv, NEW r \in Requests, AttachToClientIP(r),
           req[r].ip \in DOMAIN limiters[req[r].lt]
    PROVE  IInv'
  <1> DEFINE lt == req[r].lt
             ip == req[r].ip
  <1>1. /\ r \in Procs /\ UNCHANGED <<bans, clock, req, since, admitted, promised>>
        /\ lt \in LimiterTypes /\ ip \in IPs /\ req[r].now \in Nat
        /\ req[r].now <= clock /\ clock \in Nat
        /\ pc' \in [Procs -> Steps] /\ req' \in [Procs -> Locals] /\ pc'[r] = "take"
        /\ \A q \in Procs \ {r} : pc'[q] = pc[q] /\ req'[q] = req[q]
        /\ CallsTimed'
    BY AttachMoves
  <1>2. limiters' = [limiters EXCEPT ![lt][ip].lastSeen = clock] /\ UNCHANGED buckets
    BY DEF AttachToClientIP, NeedsBucket
  <1>3. clock <= clock + MaxStall
    BY <1>1, Constants
  <1>dated. Dated(lt, ip, clock)
    BY <1>1, <1>2, <1>3 DEF Dated
  <1>4. /\ BucketsRefilled' /\ Budget' /\ DOMAIN limiters' = LimiterTypes
        /\ \A lu \in LimiterTypes :
              /\ DOMAIN limiters'[lu] = DOMAIN limiters[lu]
              /\ limiters'[lu] \in [DOMAIN limiters[lu] -> Entry]
    BY <1>dated, SeenAt
  <1>5. limiters'[lt][ip].lastSeen = clock
    BY <1>1, <1>dated, SeenAt
  <1>6. EntriesHeld'
    <2>1. SUFFICES ASSUME NEW q \in Requests, pc'[q] \in {"take", "allow"}
                   PROVE  LET entries == limiters'[req'[q].lt]
                          IN  /\ req'[q].ip \in DOMAIN entries
                              /\ req'[q].now <= entries[req'[q].ip].lastSeen + MaxStall
                              /\ pc'[q] = "allow" =>
                                    req'[q].bucket = entries[req'[q].ip].bucket
      BY DEF EntriesHeld
    <2>2. CASE q = r
      <3>1. req[r].now <= clock + MaxStall
        BY <1>1, Constants
      <3>2. QED
        BY <1>1, <1>4, <1>5, <2>2, <3>1
    <2>3. CASE q # r
      <3>1. pc'[q] = pc[q] /\ req'[q] = req[q]
        BY <1>1, <2>3 DEF Procs
      <3>2. QED
        BY <1>dated, <2>1, <3>1, SeenHolds
    <2>4. QED
      BY <2>2, <2>3
  <1>7. TypeOK'
    BY <1>1, <1>2, <1>4, Types DEF TypeOK
  <1>8. BansOK'
    BY <1>1, BansLeft
  <1>9. QED
    BY <1>1, <1>4, <1>6, <1>7, <1>8, Join DEF LimitsOK

LEMMA AttachNew ==
    ASSUME IInv, NEW r \in Requests, AttachToClientIP(r),
           req[r].ip \notin DOMAIN limiters[req[r].lt]
    PROVE  IInv'
  <1> DEFINE lt == req[r].lt
             ip == req[r].ip
             n == Len(buckets) + 1
             full == [lt |-> lt, tokens |-> Burst[lt]]
             entry == [bucket |-> n, lastSeen |-> clock]
  <1>1. /\ r \in Procs /\ UNCHANGED <<bans, clock, req, since, admitted, promised>>
        /\ lt \in LimiterTypes /\ ip \in IPs /\ req[r].now \in Nat
        /\ req[r].now <= clock /\ clock \in Nat
        /\ pc' \in [Procs -> Steps] /\ req' \in [Procs -> Locals] /\ pc'[r] = "take"
        /\ \A q \in Procs \ {r} : pc'[q] = pc[q] /\ req'[q] = req[q]
        /\ CallsTimed'
    BY AttachMoves
  <1>2. /\ limiters' = [limiters EXCEPT ![lt] = With(limiters[lt], ip, entry)]
        /\ buckets' = Append(buckets, full) /\ ip \notin DOMAIN limiters[lt]
    BY DEF AttachToClientIP, NeedsBucket
  <1>3. /\ full \in Bucket /\ full.lt = lt /\ full.tokens = Burst[lt]
        /\ Burst[lt] \in Nat
    BY <1>1, Constants DEF Bucket
  <1>4. buckets \in Seq(Bucket) /\ n \in Nat /\ n \notin 1..Len(buckets)
    BY Types
  <1>5. /\ entry \in Entry /\ entry.bucket = n /\ entry.lastSeen = clock
    BY <1>1, <1>4 DEF Entry
  <1>6. /\ buckets' \in Seq(Bucket) /\ n \in DOMAIN buckets'
        /\ DOMAIN buckets \subseteq DOMAIN buckets'
        /\ \A b \in 1..Len(buckets) : buckets'[b] = buckets[b]
        /\ buckets'[n] = full
    BY <1>2, <1>3, <1>4
  <1> HIDE DEF lt, ip, n, full, entry
  <1>7. /\ DOMAIN limiters = LimiterTypes
        /\ \A lu \in LimiterTypes : /\ limiters[lu] \in [DOMAIN limiters[lu] -> Entry]
                                    /\ DOMAIN limiters[lu] \subseteq IPs
    BY Types
  <1>8. /\ DOMAIN limiters' = LimiterTypes
        /\ limiters'[lt] = With(limiters[lt], ip, entry)
        /\ \A lu \in LimiterTypes \ {lt} : limiters'[lu] = limiters[lu]
    BY <1>1, <1>2, <1>7
  <1>9. /\ DOMAIN limiters'[lt] = DOMAIN limiters[lt] \cup {ip}
        /\ limiters'[lt] \in [DOMAIN limiters[lt] \cup {ip} -> Entry]
        /\ limiters'[lt][ip] = entry
        /\ \A iq \in DOMAIN limiters[lt] : limiters'[lt][iq] = limiters[lt][iq]
    BY <1>1, <1>2, <1>5, <1>7, <1>8 DEF With
  <1>10. \A lu \in LimiterTypes : /\ DOMAIN limiters'[lu] \subseteq IPs
                                  /\ limiters'[lu] \in [DOMAIN limiters'[lu] -> Entry]
    BY <1>1, <1>7, <1>8, <1>9
  <1>11. ASSUME NEW lu \in LimiterTypes, NEW iq \in DOMAIN limiters'[lu]
         PROVE  \/ lu = lt /\ iq = ip /\ limiters'[lu][iq] = entry
                \/ /\ ~(lu = lt /\ iq = ip) /\ iq \in DOMAIN limiters[lu]
                   /\ limiters'[lu][iq] = limiters[lu][iq]
                   /\ limiters[lu][iq].bucket \in 1..Len(buckets)
                   /\ limiters[lu][iq].bucket # n
    <2>1. CASE lu = lt /\ iq = ip
      BY <1>9, <2>1
    <2>2. CASE ~(lu = lt /\ iq = ip)
      <3>1. iq \in DOMAIN limiters[lu] /\ limiters'[lu][iq] = limiters[lu][iq]
        BY <1>8, <1>9, <2>2
      <3>2. limiters[lu][iq].bucket \in 1..Len(buckets)
        BY <3>1, EntryFacts
      <3>3. QED
        BY <1>4, <2>2, <3>1, <3>2
    <2>3. QED
      BY <2>1, <2>2
  <1>12. BucketsRefilled'
    <2>1. SUFFICES ASSUME NEW lu \in LimiterTypes, NEW iq \in DOMAIN limiters'[lu]
                   PROVE  LET b == limiters'[lu][iq].bucket
                          IN  /\ b \in DOMAIN buckets' /\ buckets'[b].lt = lu
                              /\ buckets'[b].tokens <= Burst[lu]
                              /\ \/ buckets'[b].tokens = Burst[lu]
                                 \/ Rate[lu] * (clock - limiters'[lu][iq].lastSeen
                                                  - 2 * MaxStall) <= buckets'[b].tokens
                              /\ \A lv \in LimiterTypes : \A ir \in DOMAIN limiters'[lv] :
                                    limiters'[lv][ir].bucket = b => lv = lu /\ ir = iq
      BY <1>1 DEF BucketsRefilled
    <2>2. CASE lu = lt /\ iq = ip /\ limiters'[lu][iq] = entry
      <3>1. /\ n \in DOMAIN buckets' /\ buckets'[n].lt = lu
            /\ buckets'[n].tokens = Burst[lu] /\ Burst[lu] <= Burst[lu]
        BY <1>3, <1>6, <2>2
      <3>2. \A lv \in LimiterTypes : \A ir \in DOMAIN limiters'[lv] :
               limiters'[lv][ir].bucket = n => lv = lu /\ ir = iq
        BY <1>11, <2>2
      <3>3. QED
        BY <1>5, <2>2, <3>1, <3>2
    <2>3. CASE /\ ~(lu = lt /\ iq = ip) /\ iq \in DOMAIN limiters[lu]
               /\ limiters'[lu][iq] = limiters[lu][iq]
               /\ limiters[lu][iq].bucket \in 1..Len(buckets)
               /\ limiters[lu][iq].bucket # n
      <3>1. /\ limiters[lu][iq].bucket \in DOMAIN buckets'
            /\ buckets'[limiters[lu][iq].bucket] = buckets[limiters[lu][iq].bucket]
        BY <1>4, <1>6, <2>3
      <3>2. \A lv \in LimiterTypes : \A ir \in DOMAIN limiters'[lv] :
               limiters'[lv][ir].bucket = limiters[lu][iq].bucket => lv = lu /\ ir = iq
        <4>1. SUFFICES ASSUME NEW lv \in LimiterTypes, NEW ir \in DOMAIN limiters'[lv],
                              limiters'[lv][ir].bucket = limiters[lu][iq].bucket
                       PROVE  lv = lu /\ ir = iq
          OBVIOUS
        <4>2. ir \in DOMAIN limiters[lv] /\ limiters'[lv][ir] = limiters[lv][ir]
          BY <1>5, <1>11, <2>3, <4>1
        <4>3. QED
          BY <2>3, <4>1, <4>2, EntryFacts
      <3>3. QED
        BY <2>3, <3>1, <3>2, EntryFacts
    <2>4. QED
      BY <1>11, <2>2, <2>3
  <1>13. Budget'
    <2>1. SUFFICES ASSUME NEW lu \in LimiterTypes, NEW iq \in IPs
                   PROVE  Allowance(lu, iq)' = Allowance(lu, iq)
      BY <1>1, Parts DEF LimitsOK, Budget
    <2>2. CASE lu = lt /\ iq = ip
      BY <1>2, <1>3, <1>5, <1>6, <1>9, <2>2 DEF Allowance
    <2>3. CASE iq \in DOMAIN limiters'[lu] /\ ~(lu = lt /\ iq = ip)
      <3>1. /\ iq \in DOMAIN limiters[lu] /\ limiters'[lu][iq] = limiters[lu][iq]
            /\ limiters[lu][iq].bucket \in 1..Len(buckets)
        BY <1>11, <2>3
      <3>2. QED
        BY <1>6, <2>3, <3>1 DEF Allowance
    <2>4. CASE iq \notin DOMAIN limiters'[lu]
      BY <1>8, <1>9, <2>4 DEF Allowance
    <2>5. QED
      BY <2>2, <2>3, <2>4
  <1>14. EntriesHeld'
    <2>1. SUFFICES ASSUME NEW q \in Requests, pc'[q] \in {"take", "allow"}
                   PROVE  LET entries == limiters'[req'[q].lt]
                          IN  /\ req'[q].ip \in DOMAIN entries
                              /\ req'[q].now <= entries[req'[q].ip].lastSeen + MaxStall
                              /\ pc'[q] = "allow" =>
                                    req'[q].bucket = entries[req'[q].ip].bucket
      BY <1>1 DEF EntriesHeld
    <2>2. CASE q = r
      <3>1. req[r].now <= clock + MaxStall
        BY <1>1, Constants
      <3>2. req'[r].lt = lt /\ req'[r].ip = ip /\ req'[r].now = req[r].now
        BY <1>1 DEF lt, ip
      <3>3. QED
        BY <1>1, <1>5, <1>9, <2>2, <3>1, <3>2
    <2>3. CASE q # r
      <3>1. pc'[q] = pc[q] /\ req'[q] = req[q] /\ req[q].lt \in LimiterTypes
        BY <1>1, <2>1, <2>3, Call DEF Procs
      <3>2. /\ req[q].ip \in DOMAIN limiters[req[q].lt]
            /\ req[q].now <= limiters[req[q].lt][req[q].ip].lastSeen + MaxStall
            /\ pc[q] = "allow" => req[q].bucket = limiters[req[q].lt][req[q].ip].bucket
        BY <2>1, <3>1, Parts DEF LimitsOK, EntriesHeld
      <3>3. /\ req[q].ip \in DOMAIN limiters'[req[q].lt]
            /\ limiters'[req[q].lt][req[q].ip] = limiters[req[q].lt][req[q].ip]
        BY <1>8, <1>9, <3>1, <3>2
      <3>4. QED
        BY <3>1, <3>2, <3>3
    <2>4. QED
      BY <2>2, <2>3
  <1>15. TypeOK'
    BY <1>1, <1>6, <1>8, <1>10, Types DEF TypeOK
  <1>16. BansOK'
    BY <1>1, BansLeft
  <1>17. QED
    BY <1>1, <1>12, <1>13, <1>14, <1>15, <1>16, Join DEF LimitsOK

LEMMA AttachStep ==
    ASSUME IInv, NEW r \in Requests, AttachToClientIP(r) PROVE IInv'
  BY AttachOld, AttachNew

\* A call of Allow that finds a token.
LEMMA AllowSpends ==
    ASSUME IInv, NEW r \in Requests, Allow(r), buckets[req[r].bucket].tokens > 0
    PROVE  IInv'
  <1> DEFINE lt == req[r].lt
             ip == req[r].ip
             b == req[r].bucket
             less == [buckets[b] EXCEPT !.tokens = @ - 1]
  <1>1. /\ pc[r] = "allow" /\ r \in Procs /\ Return(r)
        /\ buckets[b].tokens > 0
        /\ admitted' = IF clock >= since THEN [admitted EXCEPT ![lt][ip] = @ + 1]
                                         ELSE admitted
        /\ buckets' = [buckets EXCEPT ![b] = less]
        /\ UNCHANGED <<bans, limiters, clock, since, promised>>
    BY ProcAssumption DEF Allow, Admit, Procs
  <1>2. /\ lt \in LimiterTypes /\ ip \in IPs /\ req[r].now \in Nat /\ clock \in Nat
        /\ MaxStall \in Nat /\ clock <= req[r].now + MaxStall
    BY <1>1, Call
  <1>3. /\ ip \in DOMAIN limiters[lt] /\ b = limiters[lt][ip].bucket
        /\ req[r].now <= limiters[lt][ip].lastSeen + MaxStall
    BY <1>1, Parts DEF LimitsOK, EntriesHeld
  <1> HIDE DEF lt, ip, b
  <1>4. /\ limiters[lt][ip].lastSeen \in Nat /\ b \in 1..Len(buckets)
        /\ buckets[b] \in Bucket /\ buckets[b].lt = lt
        /\ buckets[b].tokens \in Nat /\ buckets[b].tokens <= Burst[lt]
        /\ Len(buckets) \in Nat /\ buckets \in Seq(Bucket)
        /\ Burst[lt] \in Nat /\ Rate[lt] \in Nat
    <2>1. /\ limiters[lt][ip].lastSeen \in Nat /\ b \in 1..Len(buckets)
          /\ buckets[b] \in Bucket /\ buckets[b].lt = lt
          /\ buckets[b].tokens \in Nat /\ buckets[b].tokens <= Burst[lt]
          /\ Len(buckets) \in Nat
      BY <1>2, <1>3, EntryFacts
    <2>2. QED
      BY <1>2, <2>1, Types, Constants
  <1>5. buckets[b].tokens - 1 \in Nat
    BY <1>1, <1>4
  <1>6. /\ less \in Bucket /\ less.lt = lt /\ less.tokens = buckets[b].tokens - 1
    BY <1>4, <1>5 DEF Bucket
  <1> HIDE DEF less
  <1>7. /\ buckets' \in Seq(Bucket) /\ DOMAIN buckets' = DOMAIN buckets
        /\ buckets'[b] = less
        /\ \A c \in DOMAIN buckets \ {b} : buckets'[c] = buckets[c]
    BY <1>1, <1>4, <1>6
  <1>8. /\ pc' \in [Procs -> Steps] /\ req' \in [Procs -> Locals] /\ pc'[r] = "idle"
        /\ \A q \in Procs \ {r} : pc'[q] = pc[q] /\ req'[q] = req[q]
        /\ CallsTimed'
    BY <1>1, Returns
  <1>10. /\ admitted' \in [LimiterTypes -> [IPs -> Nat]]
         /\ admitted'[lt][ip] = IF clock >= since THEN admitted[lt][ip] + 1
                                                 ELSE admitted[lt][ip]
         /\ \A lu \in LimiterTypes, iq \in IPs :
               ~(lu = lt /\ iq = ip) => admitted'[lu][iq] = admitted[lu][iq]
    <2>1. admitted \in [LimiterTypes -> [IPs -> Nat]]
      BY Types
    <2>2. QED
      BY <1>1, <1>2, <2>1
  <1>11. ASSUME NEW lu \in LimiterTypes, NEW iq \in DOMAIN limiters[lu],
                ~(lu = lt /\ iq = ip)
         PROVE  buckets'[limiters[lu][iq].bucket] = buckets[limiters[lu][iq].bucket]
    <2>1. limiters[lu][iq].bucket # b
      BY <1>2, <1>3, <1>11, EntryFacts
    <2>2. limiters[lu][iq].bucket \in DOMAIN buckets
      BY <1>4, EntryFacts
    <2>3. QED
      BY <1>7, <2>1, <2>2
  <1>12. Rate[lt] * (clock - limiters[lt][ip].lastSeen - 2 * MaxStall) <= less.tokens
    <2>1. /\ clock - limiters[lt][ip].lastSeen - 2 * MaxStall \in Int
          /\ clock - limiters[lt][ip].lastSeen - 2 * MaxStall <= 0
      BY <1>2, <1>3, <1>4, TwoStalls
    <2>2. /\ Rate[lt] * (clock - limiters[lt][ip].lastSeen - 2 * MaxStall) \in Int
          /\ Rate[lt] * (clock - limiters[lt][ip].lastSeen - 2 * MaxStall) <= 0
      BY <1>4, <2>1, NoTimeNoTokens
    <2>3. QED
      BY <1>5, <1>6, <2>2
  <1>13. BucketsRefilled'
    <2>1. SUFFICES ASSUME NEW lu \in LimiterTypes, NEW iq \in DOMAIN limiters[lu]
                   PROVE  LET c == limiters[lu][iq].bucket
                          IN  /\ c \in DOMAIN buckets' /\ buckets'[c].lt = lu
                              /\ buckets'[c].tokens <= Burst[lu]
                              /\ \/ buckets'[c].tokens = Burst[lu]
                                 \/ Rate[lu] * (clock - limiters[lu][iq].lastSeen
                                                  - 2 * MaxStall) <= buckets'[c].tokens
                              /\ \A lv \in LimiterTypes : \A ir \in DOMAIN limiters[lv] :
                                    limiters[lv][ir].bucket = c => lv = lu /\ ir = iq
      BY <1>1 DEF BucketsRefilled
    <2>2. CASE lu = lt /\ iq = ip
      <3>1. less.tokens <= Burst[lt]
        BY <1>4, <1>6
      <3>2. /\ b \in DOMAIN buckets' /\ buckets'[b].lt = lt
            /\ buckets'[b].tokens <= Burst[lt]
            /\ Rate[lt] * (clock - limiters[lt][ip].lastSeen - 2 * MaxStall)
                  <= buckets'[b].tokens
        BY <1>4, <1>6, <1>7, <1>12, <3>1
      <3>3. \A lv \in LimiterTypes : \A ir \in DOMAIN limiters[lv] :
               limiters[lv][ir].bucket = b => lv = lt /\ ir = ip
        BY <1>2, <1>3, EntryFacts
      <3>4. QED
        BY <1>3, <2>2, <3>2, <3>3
    <2>3. CASE ~(lu = lt /\ iq = ip)
      <3>1. /\ limiters[lu][iq].bucket \in DOMAIN buckets'
            /\ buckets'[limiters[lu][iq].bucket] = buckets[limiters[lu][iq].bucket]
        BY <1>4, <1>7, <1>11, <2>3, EntryFacts
      <3>2. QED
        BY <3>1, EntryFacts
    <2>4. QED
      BY <2>2, <2>3
  <1>14. Budget'
    <2>1. SUFFICES ASSUME NEW lu \in LimiterTypes, NEW iq \in IPs
                   PROVE  IF clock >= since
                            THEN admitted'[lu][iq] + Allowance(lu, iq)'
                                    <= Burst[lu] + Rate[lu] * (clock - since)
                            ELSE admitted'[lu][iq] = 0
      BY <1>1 DEF Budget
    <2>2. IF clock >= since
            THEN admitted[lu][iq] + Allowance(lu, iq) <= Burst[lu] + Rate[lu] * (clock - since)
            ELSE admitted[lu][iq] = 0
      BY Parts DEF LimitsOK, Budget
    <2>3. CASE lu = lt /\ iq = ip
      <3>1. Allowance(lu, iq) = buckets[b].tokens /\ Allowance(lu, iq)' = buckets[b].tokens - 1
        BY <1>1, <1>3, <1>6, <1>7, <2>3 DEF Allowance
      <3>2. admitted[lt][ip] \in Nat
        BY <1>2, Types
      <3>3. (admitted[lt][ip] + 1) + (buckets[b].tokens - 1)
               = admitted[lt][ip] + buckets[b].tokens
        BY <1>4, <3>2, OneSpent
      <3>4. QED
        BY <1>10, <2>2, <2>3, <3>1, <3>3
    <2>4. CASE ~(lu = lt /\ iq = ip)
      <3>1. Allowance(lu, iq)' = Allowance(lu, iq)
        BY <1>1, <1>11, <2>4 DEF Allowance
      <3>2. QED
        BY <1>10, <2>2, <2>4, <3>1
    <2>5. QED
      BY <2>3, <2>4
  <1>15. EntriesHeld'
    BY <1>1, <1>8, Parts DEF LimitsOK, EntriesHeld, Procs
  <1>16. TypeOK'
    BY <1>1, <1>7, <1>8, <1>10, Types DEF TypeOK
  <1>17. BansOK'
    BY <1>1, BansLeft
  <1>18. QED
    BY <1>8, <1>13, <1>14, <1>15, <1>16, <1>17, Join DEF LimitsOK

LEMMA AllowStep ==
    ASSUME IInv, NEW r \in Requests, Allow(r) PROVE IInv'
  <1>1. CASE buckets[req[r].bucket].tokens > 0
    BY <1>1, AllowSpends
  <1>2. CASE ~(buckets[req[r].bucket].tokens > 0)
    <2>1. /\ pc[r] = "allow" /\ r \in Procs /\ r \notin Cleaners
          /\ pc' = [pc EXCEPT ![r] = "ban"]
          /\ UNCHANGED <<bans, limiters, buckets, clock, req, since, admitted, promised>>
      BY <1>2, ProcAssumption DEF Allow, Goto, observed, Procs
    <2>2. /\ req' = [req EXCEPT ![r] = req[r]] /\ "ban" \in Steps /\ req[r] \in Locals
          /\ req[r].ip \in IPs /\ req[r].lt \in LimiterTypes
          /\ req[r].now <= clock /\ clock <= req[r].now + MaxStall
      BY <2>1, Types, Call DEF Steps
    <2>3. /\ pc' \in [Procs -> Steps] /\ req' \in [Procs -> Locals] /\ pc'[r] = "ban"
          /\ \A q \in Procs \ {r} : pc'[q] = pc[q] /\ req'[q] = req[q]
          /\ CallsTimed'
      BY <2>1, <2>2, OneMoves
    <2>4. LimitsOK'
      BY <2>1, <2>3, LimitsKept DEF Procs
    <2>5. BansOK'
      BY <2>1, BansLeft
    <2>6. TypeOK'
      BY <2>1, <2>3, Types DEF TypeOK
    <2>7. QED
      BY <2>3, <2>4, <2>5, <2>6, Join
  <1>3. QED
    BY <1>1, <1>2

-----------------------------------------------------------------------------
\* The cleaner.  An entry it may drop has a full bucket, and is no call's.

LEMMA IdleIsFull ==
    ASSUME IInv, NEW lt \in LimiterTypes, NEW ip \in DOMAIN limiters[lt],
           NEW now \in Nat, now <= clock, Idle(limiters[lt][ip], now)
    PROVE  buckets[limiters[lt][ip].bucket].tokens = Burst[lt]
  <1> DEFINE s == limiters[lt][ip].lastSeen
             t == buckets[limiters[lt][ip].bucket].tokens
             x == EntryTTL + 1 - 2 * MaxStall
             y == clock - s - 2 * MaxStall
  <1>1. /\ s \in Nat /\ t \in Nat /\ t <= Burst[lt]
        /\ t = Burst[lt] \/ Rate[lt] * y <= t
    BY EntryFacts
  <1>2. /\ EntryTTL \in Nat /\ 2 * MaxStall \in Nat /\ MaxStall \in Nat
        /\ clock \in Nat /\ Rate[lt] \in Nat /\ Burst[lt] \in Nat
    BY Types, Constants
  <1>3. now - s > EntryTTL
    BY DEF Idle
  <1>4. Rate[lt] * x >= Burst[lt]
    BY RefillAssumption
  <1> HIDE DEF s, t
  <1>5. x \in Int /\ y \in Int /\ x <= y
    BY <1>1, <1>2, <1>3
  <1> HIDE DEF x, y
  <1>6. Rate[lt] * x \in Int /\ Rate[lt] * y \in Int /\ Rate[lt] * x <= Rate[lt] * y
    BY <1>2, <1>5, MoreTimeMoreTokens
  <1>7. t = Burst[lt]
    BY <1>1, <1>2, <1>4, <1>6
  <1>8. QED
    BY <1>7 DEF t

LEMMA HeldIsNotIdle ==
    ASSUME IInv, NEW q \in Requests, pc[q] \in {"take", "allow"},
           NEW now \in Nat, now <= clock
    PROVE  ~Idle(limiters[req[q].lt][req[q].ip], now)
  <1> DEFINE e == limiters[req[q].lt][req[q].ip]
  <1>1. /\ req[q].lt \in LimiterTypes /\ req[q].now \in Nat /\ clock \in Nat
        /\ MaxStall \in Nat /\ clock <= req[q].now + MaxStall
    BY Call
  <1>2. req[q].ip \in DOMAIN limiters[req[q].lt] /\ req[q].now <= e.lastSeen + MaxStall
    BY Parts DEF LimitsOK, EntriesHeld
  <1>3. e.lastSeen \in Nat
    BY <1>1, <1>2, EntryFacts
  <1> HIDE DEF e
  <1>4. clock - e.lastSeen - 2 * MaxStall \in Int /\ clock - e.lastSeen - 2 * MaxStall <= 0
    BY <1>1, <1>2, <1>3, TwoStalls
  <1>5. now - e.lastSeen <= EntryTTL
    BY <1>1, <1>3, <1>4, Constants
  <1>6. ~(now - e.lastSeen > EntryTTL)
    BY <1>3, <1>5, Constants
  <1>7. QED
    BY <1>6 DEF Idle, e

LEMMA CleanerMoves ==
    ASSUME IInv, NEW lt \in LimiterTypes, CleanupOldLimiterEntries(lt)
    PROVE  /\ pc' \in [Procs -> Steps] /\ req' \in [Procs -> Locals]
           /\ \A q \in Requests : pc'[q] = pc[q] /\ req'[q] = req[q]
           /\ CallsTimed'
           /\ req[LimiterCleaner].now \in Nat /\ req[LimiterCleaner].now <= clock
  <1> DEFINE p == LimiterCleaner
             x == [req[p] EXCEPT !.todo = @ \ {lt}]
  <1>1. /\ p \in Cleaners /\ p \in Procs /\ p \notin Requests /\ pc[p] = "clean"
        /\ Requests \subseteq Procs \ {p} /\ UNCHANGED clock
    BY ProcAssumption DEF CleanupOldLimiterEntries, Cleaners, Procs
  <1>2. req[p] \in Locals /\ req[p].now \in Nat /\ req[p].now <= clock
    BY <1>1, Types, Parts DEF CallsTimed, Locals
  <1>3. x \in Locals /\ x.now = req[p].now
    BY <1>2 DEF Locals
  <1>4. CASE Return(p)
    BY <1>1, <1>2, <1>4, Returns
  <1>5. CASE req' = [req EXCEPT ![p] = x] /\ UNCHANGED pc
    <2>1. pc' = [pc EXCEPT ![p] = "clean"] /\ "clean" \in Steps
      BY <1>1, <1>5, Types DEF Steps
    <2> HIDE DEF x
    <2>2. x.now <= clock /\ req' = [req EXCEPT ![p] = x]
      BY <1>2, <1>3, <1>5
    <2>3. /\ pc' \in [Procs -> Steps] /\ req' \in [Procs -> Locals]
          /\ \A q \in Procs \ {p} : pc'[q] = pc[q] /\ req'[q] = req[q]
          /\ CallsTimed'
      BY <1>1, <1>3, <2>1, <2>2, OneMoves
    <2>4. QED
      BY <1>1, <1>2, <2>3
  <1>6. QED
    BY <1>4, <1>5 DEF CleanupOldLimiterEntries

LEMMA CleanupOldStep ==
    ASSUME IInv, NEW lt \in LimiterTypes, CleanupOldLimiterEntries(lt) PROVE IInv'
  <1> DEFINE now == req[LimiterCleaner].now
             S == {ip \in DOMAIN limiters[lt] : Idle(limiters[lt][ip], now)}
  <1>1. /\ limiters' = [limiters EXCEPT ![lt] = Without(limiters[lt], S)]
        /\ UNCHANGED <<bans, buckets, clock, since, admitted, promised>>
    BY DEF CleanupOldLimiterEntries, observed
  <1>2. /\ pc' \in [Procs -> Steps] /\ req' \in [Procs -> Locals]
        /\ \A q \in Requests : pc'[q] = pc[q] /\ req'[q] = req[q]
        /\ CallsTimed' /\ now \in Nat /\ now <= clock
    BY CleanerMoves
  <1>3. /\ DOMAIN limiters = LimiterTypes
        /\ \A lu \in LimiterTypes : /\ limiters[lu] \in [DOMAIN limiters[lu] -> Entry]
                                    /\ DOMAIN limiters[lu] \subseteq IPs
    BY Types
  <1>4. \A ip \in S : ip \in DOMAIN limiters[lt]
                      /\ buckets[limiters[lt][ip].bucket].tokens = Burst[lt]
    BY <1>2, IdleIsFull
  <1>5. \A q \in Requests : pc[q] \in {"take", "allow"} =>
           ~(req[q].lt = lt /\ req[q].ip \in S)
    BY <1>2, HeldIsNotIdle
  <1> HIDE DEF S, now
  <1>6. /\ DOMAIN limiters' = LimiterTypes
        /\ limiters'[lt] = Without(limiters[lt], S)
        /\ \A lu \in LimiterTypes \ {lt} : limiters'[lu] = limiters[lu]
    BY <1>1, <1>3
  <1>7. /\ DOMAIN limiters'[lt] = DOMAIN limiters[lt] \ S
        /\ limiters'[lt] \in [DOMAIN limiters[lt] \ S -> Entry]
        /\ \A iq \in DOMAIN limiters[lt] \ S : limiters'[lt][iq] = limiters[lt][iq]
    BY <1>3, <1>6 DEF Without
  <1>8. \A lu \in LimiterTypes :
           /\ DOMAIN limiters'[lu] \subseteq DOMAIN limiters[lu]
           /\ DOMAIN limiters'[lu] \subseteq IPs
           /\ limiters'[lu] \in [DOMAIN limiters'[lu] -> Entry]
           /\ \A iq \in DOMAIN limiters'[lu] : limiters'[lu][iq] = limiters[lu][iq]
           /\ \A iq \in DOMAIN limiters[lu] :
                 iq \in DOMAIN limiters'[lu] \/ (lu = lt /\ iq \in S)
    BY <1>3, <1>6, <1>7
  <1>9. BucketsRefilled'
    BY <1>1, <1>8, Parts DEF LimitsOK, BucketsRefilled
  <1>10. Budget'
    <2>1. SUFFICES ASSUME NEW lu \in LimiterTypes, NEW iq \in IPs
                   PROVE  Allowance(lu, iq)' = Allowance(lu, iq)
      BY <1>1, Parts DEF LimitsOK, Budget
    <2>2. CASE iq \in DOMAIN limiters'[lu]
      BY <1>1, <1>8, <2>2 DEF Allowance
    <2>3. CASE iq \notin DOMAIN limiters'[lu] /\ iq \in DOMAIN limiters[lu]
      BY <1>4, <1>8, <2>3 DEF Allowance
    <2>4. CASE iq \notin DOMAIN limiters[lu]
      BY <1>8, <2>4 DEF Allowance
    <2>5. QED
      BY <2>2, <2>3, <2>4
  <1>11. EntriesHeld'
    <2>1. SUFFICES ASSUME NEW q \in Requests, pc[q] \in {"take", "allow"}
                   PROVE  LET entries == limiters'[req[q].lt]
                          IN  /\ req[q].ip \in DOMAIN entries
                              /\ req[q].now <= entries[req[q].ip].lastSeen + MaxStall
                              /\ pc[q] = "allow" =>
                                    req[q].bucket = entries[req[q].ip].bucket
      BY <1>2 DEF EntriesHeld
    <2>2. req[q].lt \in LimiterTypes
      BY <2>1, Call
    <2>3. /\ req[q].ip \in DOMAIN limiters[req[q].lt]
          /\ req[q].now <= limiters[req[q].lt][req[q].ip].lastSeen + MaxStall
          /\ pc[q] = "allow" => req[q].bucket = limiters[req[q].lt][req[q].ip].bucket
      BY <2>1, Parts DEF LimitsOK, EntriesHeld
    <2>4. req[q].ip \in DOMAIN limiters'[req[q].lt]
      BY <1>5, <1>8, <2>1, <2>2, <2>3
    <2>5. limiters'[req[q].lt][req[q].ip] = limiters[req[q].lt][req[q].ip]
      BY <1>8, <2>2, <2>4
    <2>6. QED
      BY <2>3, <2>4, <2>5
  <1>12. TypeOK'
    BY <1>1, <1>2, <1>6, <1>8, Types DEF TypeOK
  <1>13. BansOK'
    BY <1>1, BansLeft
  <1>14. QED
    BY <1>2, <1>9, <1>10, <1>11, <1>12, <1>13, Join DEF LimitsOK

-----------------------------------------------------------------------------
\* Time.

LEMMA Refill ==
    ASSUME IInv, Tick, NEW b \in 1..Len(buckets)
    PROVE  LET lt == buckets[b].lt
           IN  /\ lt \in LimiterTypes /\ buckets'[b].lt = lt
               /\ buckets[b].tokens \in Nat /\ buckets'[b].tokens \in Nat
               /\ buckets'[b].tokens <= Burst[lt]
               /\ buckets'[b].tokens <= buckets[b].tokens + Rate[lt]
               /\ buckets'[b].tokens \in {Burst[lt], buckets[b].tokens + Rate[lt]}
               /\ buckets[b].tokens = Burst[lt] => buckets'[b].tokens = Burst[lt]
  <1> DEFINE lt == buckets[b].lt
             full == Smaller(buckets[b].tokens + Rate[lt], Burst[lt])
  <1>1. buckets[b] \in Bucket /\ DOMAIN buckets = 1..Len(buckets)
    BY Types
  <1>2. lt \in LimiterTypes /\ buckets[b].tokens \in Nat
    BY <1>1 DEF Bucket
  <1>3. Rate[lt] \in Nat /\ Burst[lt] \in Nat
    BY <1>2, Constants
  <1>4. buckets'[b] = [buckets[b] EXCEPT !.tokens = full]
    BY <1>1 DEF Tick
  <1>5. buckets'[b].lt = lt /\ buckets'[b].tokens = full
    BY <1>1, <1>4 DEF Bucket
  <1> HIDE DEF lt
  <1>6. /\ full \in Nat /\ full <= Burst[lt] /\ full <= buckets[b].tokens + Rate[lt]
        /\ full \in {Burst[lt], buckets[b].tokens + Rate[lt]}
        /\ buckets[b].tokens = Burst[lt] => full = Burst[lt]
    <2>1. CASE buckets[b].tokens + Rate[lt] < Burst[lt]
      <3>1. full = buckets[b].tokens + Rate[lt]
        BY <2>1 DEF Smaller
      <3>2. QED
        BY <1>2, <1>3, <2>1, <3>1
    <2>2. CASE ~(buckets[b].tokens + Rate[lt] < Burst[lt])
      <3>1. full = Burst[lt]
        BY <2>2 DEF Smaller
      <3>2. QED
        BY <1>2, <1>3, <2>2, <3>1
    <2>3. QED
      BY <2>1, <2>2
  <1>7. QED
    BY <1>2, <1>5, <1>6 DEF lt

LEMMA TickStep ==
    ASSUME IInv, Tick PROVE IInv'
  <1>1. /\ clock' = clock + 1 /\ clock \in Nat /\ since \in Nat
        /\ buckets \in Seq(Bucket) /\ MaxStall \in Nat /\ 2 * MaxStall \in Nat
        /\ BanFor \in Nat
        /\ UNCHANGED <<bans, limiters, pc, req, since, admitted, promised>>
    BY Types, Constants DEF Tick, observed
  <1>2. buckets' \in Seq(Bucket) /\ DOMAIN buckets' = DOMAIN buckets
    <2>1. /\ buckets' = [b \in 1..Len(buckets) |-> buckets'[b]]
          /\ DOMAIN buckets = 1..Len(buckets) /\ Len(buckets) \in Nat
      BY <1>1 DEF Tick
    <2>2. ASSUME NEW b \in 1..Len(buckets) PROVE buckets'[b] \in Bucket
      <3>1. buckets[b] \in Bucket
        BY <1>1, <2>1
      <3>2. PICK t : buckets'[b] = [buckets[b] EXCEPT !.tokens = t]
        BY <2>1 DEF Tick
      <3>3. buckets'[b].tokens = t /\ t \in Nat
        BY <3>1, <3>2, Refill DEF Bucket
      <3>4. QED
        BY <3>1, <3>2, <3>3 DEF Bucket
    <2>3. QED
      BY <2>1, <2>2
  <1>3. TypeOK'
    BY <1>1, <1>2, Types DEF TypeOK
  <1>4. CallsTimed'
    <2>1. ASSUME NEW r \in Requests, pc[r] # "idle"
          PROVE  /\ req[r].ip \in IPs /\ req[r].lt \in LimiterTypes
                 /\ req[r].now <= clock + 1 /\ clock + 1 <= req[r].now + MaxStall
      <3>1. clock < req[r].now + MaxStall
        BY <2>1 DEF Tick
      <3>2. QED
        BY <2>1, <3>1, Call
    <2>2. ASSUME NEW p \in Cleaners, pc[p] = "clean" PROVE req[p].now <= clock + 1
      <3>1. req[p] \in Locals /\ req[p].now <= clock
        BY <2>2, Types, Parts DEF CallsTimed, Procs
      <3>2. req[p].now \in Nat
        BY <3>1 DEF Locals
      <3>3. QED
        BY <1>1, <3>1, <3>2
    <2>3. QED
      BY <1>1, <2>1, <2>2 DEF CallsTimed
  <1>5. BucketsRefilled'
    <2>1. SUFFICES ASSUME NEW lt \in LimiterTypes, NEW ip \in DOMAIN limiters[lt]
                   PROVE  LET b == limiters[lt][ip].bucket
                          IN  /\ b \in DOMAIN buckets' /\ buckets'[b].lt = lt
                              /\ buckets'[b].tokens <= Burst[lt]
                              /\ \/ buckets'[b].tokens = Burst[lt]
                                 \/ Rate[lt] * (clock' - limiters[lt][ip].lastSeen
                                                  - 2 * MaxStall) <= buckets'[b].tokens
                              /\ \A lu \in LimiterTypes : \A iq \in DOMAIN limiters[lu] :
                                    limiters[lu][iq].bucket = b => lu = lt /\ iq = ip
      BY <1>1 DEF BucketsRefilled
    <2> DEFINE b == limiters[lt][ip].bucket
               s == limiters[lt][ip].lastSeen
               x == clock - s - 2 * MaxStall
    <2>2. /\ b \in 1..Len(buckets) /\ buckets[b].lt = lt /\ s \in Nat
          /\ buckets[b].tokens = Burst[lt] \/ Rate[lt] * x <= buckets[b].tokens
          /\ \A lu \in LimiterTypes : \A iq \in DOMAIN limiters[lu] :
                limiters[lu][iq].bucket = b => lu = lt /\ iq = ip
      BY EntryFacts
    <2>3. /\ buckets[b].tokens \in Nat /\ buckets'[b].tokens \in Nat
          /\ buckets'[b].lt = lt /\ buckets'[b].tokens <= Burst[lt]
          /\ buckets'[b].tokens \in {Burst[lt], buckets[b].tokens + Rate[lt]}
          /\ buckets[b].tokens = Burst[lt] => buckets'[b].tokens = Burst[lt]
      BY <2>2, Refill
    <2> HIDE DEF b, s
    <2>4. x \in Int /\ clock' - s - 2 * MaxStall = x + 1
      BY <1>1, <2>2
    <2> HIDE DEF x
    <2>5. /\ Rate[lt] \in Nat /\ Rate[lt] * x \in Int
          /\ Rate[lt] * (x + 1) = Rate[lt] * x + Rate[lt]
      BY <2>4, OneTick, Constants
    <2>6. \/ buckets'[b].tokens = Burst[lt]
          \/ Rate[lt] * (x + 1) <= buckets'[b].tokens
      BY <2>2, <2>3, <2>5
    <2>7. b \in DOMAIN buckets'
      BY <1>1, <1>2, <2>2
    <2>8. QED
      BY <2>2, <2>3, <2>4, <2>6, <2>7 DEF b, s
  <1>6. Budget'
    <2>1. SUFFICES ASSUME NEW lt \in LimiterTypes, NEW ip \in IPs
                   PROVE  IF clock + 1 >= since
                            THEN admitted[lt][ip] + Allowance(lt, ip)'
                                    <= Burst[lt] + Rate[lt] * (clock + 1 - since)
                            ELSE admitted[lt][ip] = 0
      BY <1>1 DEF Budget
    <2> DEFINE a == admitted[lt][ip]
               old == Allowance(lt, ip)
               new == Allowance(lt, ip)'
               x == clock - since
    <2>2. IF clock >= since THEN a + old <= Burst[lt] + Rate[lt] * x ELSE a = 0
      BY Parts DEF LimitsOK, Budget
    <2>3. Rate[lt] \in Nat /\ Burst[lt] \in Nat /\ a \in Nat
      BY Types, Constants
    <2>4. old \in Nat /\ new \in Nat /\ new <= Burst[lt] /\ new <= old + Rate[lt]
      <3>1. CASE ip \in DOMAIN limiters[lt]
        <4>1. /\ limiters[lt][ip].bucket \in 1..Len(buckets)
              /\ buckets[limiters[lt][ip].bucket].lt = lt
          BY <3>1, EntryFacts
        <4>2. /\ old = buckets[limiters[lt][ip].bucket].tokens
              /\ new = buckets'[limiters[lt][ip].bucket].tokens
          BY <1>1, <3>1 DEF Allowance
        <4>3. QED
          BY <4>1, <4>2, Refill
      <3>2. CASE ip \notin DOMAIN limiters[lt]
        <4>1. old = Burst[lt] /\ new = Burst[lt]
          BY <1>1, <3>2 DEF Allowance
        <4>2. QED
          BY <2>3, <4>1
      <3>3. QED
        BY <3>1, <3>2
    <2>5. x \in Int /\ clock + 1 - since = x + 1
      BY <1>1
    <2>6. Rate[lt] * x \in Int /\ Rate[lt] * (x + 1) = Rate[lt] * x + Rate[lt]
      BY <2>3, <2>5, OneTick
    <2> HIDE DEF a, old, new
    <2>7. CASE clock >= since
      <3>1. a + new <= Burst[lt] + Rate[lt] * (x + 1)
        <4> DEFINE y == Rate[lt] * x
        <4>1. y \in Int /\ a + old <= Burst[lt] + y
          BY <2>2, <2>6, <2>7
        <4> HIDE DEF y
        <4>2. a + new <= Burst[lt] + (y + Rate[lt])
          BY <2>3, <2>4, <4>1
        <4>3. QED
          BY <2>6, <4>2 DEF y
      <3>2. QED
        BY <1>1, <2>5, <2>7, <3>1 DEF a, new
    <2>8. CASE clock + 1 = since
      <3>1. a = 0 /\ x + 1 = 0
        BY <1>1, <2>2, <2>8
      <3>2. Rate[lt] * (clock + 1 - since) = 0
        BY <2>3, <2>5, <3>1
      <3>3. a + new <= Burst[lt] + 0
        BY <2>3, <2>4, <3>1
      <3>4. QED
        BY <1>1, <2>8, <3>2, <3>3 DEF a, new
    <2>9. CASE clock + 1 < since
      BY <1>1, <2>2, <2>9 DEF a
    <2>10. QED
      BY <1>1, <2>7, <2>8, <2>9
  <1>7. EntriesHeld'
    BY <1>1, Parts DEF LimitsOK, EntriesHeld
  <1>8. PromisesNear' /\ BanHorizon'
    BY <1>1, Types, Parts DEF BansOK, PromisesNear, BanHorizon
  <1>9. BanKept'
    BY <1>1, Types, Parts DEF BansOK, BanKept
  <1>10. QED
    BY <1>3, <1>4, <1>5, <1>6, <1>7, <1>8, <1>9, Join DEF LimitsOK, BansOK

-----------------------------------------------------------------------------
LEMMA InitIInv == Init => IInv
  <1> SUFFICES ASSUME Init PROVE IInv
    OBVIOUS
  <1>1. \A lt \in LimiterTypes : DOMAIN limiters[lt] = {} /\ limiters[lt] = [ip \in {} |-> 0]
    BY DEF Init
  <1>2. TypeOK
    <2>1. DOMAIN bans \subseteq IPs /\ bans \in [DOMAIN bans -> Nat]
      BY DEF Init
    <2>2. \A lt \in LimiterTypes : limiters[lt] \in [DOMAIN limiters[lt] -> Entry]
      BY <1>1
    <2>3. buckets \in Seq(Bucket) /\ clock \in Nat /\ since \in Nat
      BY Constants, TimeAssumption DEF Init
    <2>4. /\ pc \in [Procs -> Steps] /\ req \in [Procs -> Locals]
      BY FreshType DEF Init, Steps
    <2>5. /\ admitted \in [LimiterTypes -> [IPs -> Nat]] /\ promised \in [IPs -> Nat]
          /\ DOMAIN limiters = LimiterTypes
      BY DEF Init
    <2>6. QED
      BY <1>1, <2>1, <2>2, <2>3, <2>4, <2>5 DEF TypeOK
  <1>3. CallsTimed
    BY DEF Init, CallsTimed, Procs
  <1>4. BucketsRefilled
    BY <1>1 DEF BucketsRefilled
  <1>5. EntriesHeld
    BY DEF Init, EntriesHeld, Procs
  <1>6. Budget
    <2>1. SUFFICES ASSUME NEW lt \in LimiterTypes, NEW ip \in IPs
                   PROVE  IF clock >= since
                            THEN admitted[lt][ip] + Allowance(lt, ip)
                                    <= Burst[lt] + Rate[lt] * (clock - since)
                            ELSE admitted[lt][ip] = 0
      BY DEF Budget
    <2>2. /\ admitted[lt][ip] = 0 /\ Allowance(lt, ip) = Burst[lt]
      BY <1>1 DEF Init, Allowance
    <2>3. CASE clock >= since
      <3>1. clock - since = 0 /\ Burst[lt] \in Nat /\ Rate[lt] \in Nat
        BY <1>2, <2>3, Constants DEF TypeOK, Init
      <3>2. Rate[lt] * (clock - since) = 0
        BY <3>1
      <3>3. QED
        BY <2>2, <2>3, <3>1, <3>2
    <2>4. QED
      BY <2>2, <2>3
  <1>7. BanKept /\ BanHorizon /\ PromisesNear
    BY Constants DEF Init, BanKept, BanHorizon, PromisesNear
  <1>8. QED
    BY <1>2, <1>3, <1>4, <1>5, <1>6, <1>7 DEF IInv

LEMMA StepIInv == IInv /\ [Next]_vars => IInv'
  <1> SUFFICES ASSUME IInv, [Next]_vars PROVE IInv'
    OBVIOUS
  <1>1. CASE UNCHANGED vars
    BY <1>1 DEF vars, IInv, TypeOK, CallsTimed, BucketsRefilled, EntriesHeld, Budget,
                Allowance, BanKept, BanHorizon, PromisesNear
  <1>2. ASSUME NEW r \in Requests, RequestStep(r) PROVE IInv'
    BY <1>2, ArriveStep, IsIPBlockedStep, WriteBanStep, AttachStep, TakeLimiterStep, AllowStep
       DEF RequestStep
  <1>3. CASE BanCleanerStep
    BY <1>3, CleanerTickStep, CleanupExpiredBansStep DEF BanCleanerStep, Cleaners
  <1>4. CASE LimiterCleanerStep
    BY <1>4, CleanerTickStep, CleanupOldStep DEF LimiterCleanerStep, Cleaners
  <1>5. CASE Tick
    BY <1>5, TickStep
  <1>6. QED
    BY <1>1, <1>2, <1>3, <1>4, <1>5 DEF Next

-----------------------------------------------------------------------------
\* The inductive invariant: every bucket is one address's and holds what has
\* flown in since its last use, calls under way keep their entries, and bans
\* stay within one ban duration of the clock (limiters.go).
THEOREM Inductive == Spec => []IInv
  BY InitIInv, StepIInv, PTL DEF Spec

\* The maps, the buckets and the locals of every call keep their types.
THEOREM Typing == Spec => []TypeOK
  <1>1. IInv => TypeOK
    BY DEF IInv
  <1>2. QED
    BY <1>1, Inductive, PTL

\* In any window, no address gets more requests of a type through than its
\* bucket holds and refills, though its entry may be dropped and made anew.
THEOREM RateHolds == Spec => []RateBound
  <1>1. ASSUME IInv PROVE RateBound
    <2>1. SUFFICES ASSUME NEW lt \in LimiterTypes, NEW ip \in IPs
                   PROVE  admitted[lt][ip] <= Burst[lt] + Rate[lt] * Larger(0, clock - since)
      BY DEF RateBound
    <2>2. /\ clock \in Nat /\ since \in Nat /\ admitted[lt][ip] \in Nat
          /\ Burst[lt] \in Nat /\ Rate[lt] \in Nat
      BY <1>1, Types, Constants
    <2>3. CASE clock >= since
      <3>1. Larger(0, clock - since) = clock - since
        BY <2>2, <2>3 DEF Larger
      <3>2. admitted[lt][ip] + Allowance(lt, ip) <= Burst[lt] + Rate[lt] * (clock - since)
        BY <1>1, <2>3, Parts DEF LimitsOK, Budget
      <3>3. Allowance(lt, ip) \in Nat
        BY <1>1, <2>2, EntryFacts DEF Allowance
      <3>4. clock - since \in Nat /\ Rate[lt] * (clock - since) \in Int
        BY <2>2, <2>3, MoreTimeMoreTokens
      <3>5. QED
        BY <2>2, <3>1, <3>2, <3>3, <3>4
    <2>4. CASE ~(clock >= since)
      <3>1. Larger(0, clock - since) = 0 /\ admitted[lt][ip] = 0
        BY <1>1, <2>2, <2>4, Parts DEF LimitsOK, Budget, Larger
      <3>2. Rate[lt] * 0 = 0
        BY <2>2
      <3>3. QED
        BY <2>2, <3>1, <3>2
    <2>5. QED
      BY <2>3, <2>4
  <1>2. QED
    BY <1>1, Inductive, PTL

\* No call loses the entry it has attached before it looks it up again.
THEOREM AttachedHolds == Spec => []AttachedStays
  <1>1. IInv => AttachedStays
    BY DEF IInv, EntriesHeld, AttachedStays
  <1>2. QED
    BY <1>1, Inductive, PTL

\* A client told to wait stays banned until then, less one stall, and no ban
\* ends later than one ban duration from now.
THEOREM BansHold == Spec => []BansTimed
  <1>1. IInv => BansTimed
    BY DEF IInv, BansTimed
  <1>2. QED
    BY <1>1, Inductive, PTL

-----------------------------------------------------------------------------
\* The limiter implements its service.  Most steps keep every allowance.

LEMMA SameTokens ==
    ASSUME \A lt \in LimiterTypes, ip \in IPs : Allowance(lt, ip)' = Allowance(lt, ip)
    PROVE  UNCHANGED Tokens
  BY DEF Tokens

LEMMA EntriesLeft ==
    ASSUME UNCHANGED <<limiters, buckets>>
    PROVE  UNCHANGED Tokens
  BY DEF Tokens, Allowance

LEMMA ServiceStutter ==
    ASSUME UNCHANGED <<Tokens, bans, clock, since, admitted, promised>>
    PROVE  UNCHANGED Service!svcVars
  BY DEF Service!svcVars

\* Dating an entry, and making one for an address that has none.
LEMMA DatedTokens ==
    ASSUME IInv, NEW lt, NEW ip, NEW t, Dated(lt, ip, t)
    PROVE  UNCHANGED Tokens
  <1>1. UNCHANGED buckets
    BY DEF Dated
  <1>2. ASSUME NEW lu \in LimiterTypes, NEW iq \in IPs
        PROVE  Allowance(lu, iq)' = Allowance(lu, iq)
    BY <1>1, SeenAt DEF Allowance
  <1>3. QED
    BY <1>2, SameTokens

LEMMA AttachTokens ==
    ASSUME IInv, NEW r \in Requests, AttachToClientIP(r)
    PROVE  UNCHANGED Tokens
  <1> DEFINE lt == req[r].lt
             ip == req[r].ip
             n == Len(buckets) + 1
             full == [lt |-> lt, tokens |-> Burst[lt]]
             entry == [bucket |-> n, lastSeen |-> clock]
  <1>1. /\ lt \in LimiterTypes /\ ip \in IPs /\ clock \in Nat /\ UNCHANGED clock
        /\ UNCHANGED <<since, admitted>>
    BY AttachMoves
  <1>2. CASE ip \in DOMAIN limiters[lt]
    <2>1. limiters' = [limiters EXCEPT ![lt][ip].lastSeen = clock] /\ UNCHANGED buckets
      BY <1>2 DEF AttachToClientIP, NeedsBucket
    <2>2. clock <= clock + MaxStall
      BY <1>1, Constants
    <2>3. Dated(lt, ip, clock)
      BY <1>1, <1>2, <2>1, <2>2 DEF Dated
    <2>4. QED
      BY <2>3, DatedTokens
  <1>3. CASE ip \notin DOMAIN limiters[lt]
    <2>1. /\ limiters' = [limiters EXCEPT ![lt] = With(limiters[lt], ip, entry)]
          /\ buckets' = Append(buckets, full)
      BY <1>3 DEF AttachToClientIP, NeedsBucket
    <2>2. full.tokens = Burst[lt] /\ entry.bucket = n
      OBVIOUS
    <2> HIDE DEF lt, ip, full, entry
    <2>3. /\ buckets \in Seq(Bucket) /\ DOMAIN limiters = LimiterTypes
      BY Types
    <2>4. buckets'[n] = full /\ \A b \in 1..Len(buckets) : buckets'[b] = buckets[b]
      BY <2>1, <2>3
    <2> HIDE DEF n
    <2>5. /\ limiters'[lt] = With(limiters[lt], ip, entry)
          /\ \A lu \in LimiterTypes \ {lt} : limiters'[lu] = limiters[lu]
      BY <1>1, <2>1, <2>3
    <2>6. ASSUME NEW lu \in LimiterTypes, NEW iq \in IPs
          PROVE  Allowance(lu, iq)' = Allowance(lu, iq)
      <3>1. CASE lu = lt /\ iq = ip
        <4>1. iq \in DOMAIN limiters'[lu] /\ limiters'[lu][iq] = entry
          BY <2>5, <3>1 DEF With
        <4>2. QED
          BY <1>3, <2>2, <2>4, <3>1, <4>1 DEF Allowance
      <3>2. CASE ~(lu = lt /\ iq = ip)
        <4>1. /\ iq \in DOMAIN limiters'[lu] <=> iq \in DOMAIN limiters[lu]
              /\ iq \in DOMAIN limiters[lu] => limiters'[lu][iq] = limiters[lu][iq]
          BY <2>5, <3>2 DEF With
        <4>2. iq \in DOMAIN limiters[lu] => limiters[lu][iq].bucket \in 1..Len(buckets)
          BY EntryFacts
        <4>3. QED
          BY <2>4, <4>1, <4>2 DEF Allowance
      <3>3. QED
        BY <3>1, <3>2
    <2>7. QED
      BY <2>6, SameTokens
  <1>4. QED
    BY <1>2, <1>3

\* An entry that is dropped has nothing to take back.
LEMMA DroppedTokens ==
    ASSUME IInv, NEW lt \in LimiterTypes, CleanupOldLimiterEntries(lt)
    PROVE  UNCHANGED Tokens
  <1> DEFINE now == req[LimiterCleaner].now
             S == {ip \in DOMAIN limiters[lt] : Idle(limiters[lt][ip], now)}
  <1>1. limiters' = [limiters EXCEPT ![lt] = Without(limiters[lt], S)] /\ UNCHANGED buckets
    BY DEF CleanupOldLimiterEntries
  <1>2. now \in Nat /\ now <= clock
    BY CleanerMoves
  <1>3. \A ip \in S : buckets[limiters[lt][ip].bucket].tokens = Burst[lt]
    BY <1>2, IdleIsFull
  <1> HIDE DEF S, now
  <1>4. DOMAIN limiters = LimiterTypes
    BY Types
  <1>5. /\ limiters'[lt] = Without(limiters[lt], S)
        /\ \A lu \in LimiterTypes \ {lt} : limiters'[lu] = limiters[lu]
    BY <1>1, <1>4
  <1>6. ASSUME NEW lu \in LimiterTypes, NEW iq \in IPs
        PROVE  Allowance(lu, iq)' = Allowance(lu, iq)
    <2>1. CASE lu # lt
      BY <1>1, <1>5, <2>1 DEF Allowance
    <2>2. CASE lu = lt
      BY <1>1, <1>3, <1>5, <2>2 DEF Allowance, Without
    <2>3. QED
      BY <2>1, <2>2
  <1>7. QED
    BY <1>6, SameTokens

\* A request that gets through takes one token, of its own bucket.
LEMMA AllowServes ==
    ASSUME IInv, NEW r \in Requests, Allow(r), buckets[req[r].bucket].tokens > 0
    PROVE  Service!Serve(req[r].lt, req[r].ip)
  <1> SUFFICES ASSUME NEW lt, NEW ip, NEW b,
                      lt = req[r].lt, ip = req[r].ip, b = req[r].bucket
               PROVE  Service!Serve(lt, ip)
    OBVIOUS
  <1> DEFINE less == [buckets[b] EXCEPT !.tokens = @ - 1]
  <1>1. /\ pc[r] = "allow"
        /\ admitted' = IF clock >= since THEN [admitted EXCEPT ![lt][ip] = @ + 1]
                                         ELSE admitted
        /\ buckets' = [buckets EXCEPT ![b] = less]
        /\ UNCHANGED <<bans, limiters, clock, since, promised>>
    BY DEF Allow, Admit
  <1>2. lt \in LimiterTypes /\ ip \in IPs
    BY <1>1, Call
  <1>3. ip \in DOMAIN limiters[lt] /\ b = limiters[lt][ip].bucket
    BY <1>1, Parts DEF LimitsOK, EntriesHeld
  <1>4. /\ b \in 1..Len(buckets) /\ buckets[b] \in Bucket /\ buckets \in Seq(Bucket)
    <2>1. /\ limiters[lt][ip].bucket \in 1..Len(buckets)
          /\ buckets[limiters[lt][ip].bucket] \in Bucket
      BY <1>2, <1>3, EntryFacts
    <2>2. QED
      BY <1>3, <2>1, Types
  <1>5. less.tokens = buckets[b].tokens - 1
    BY <1>4 DEF Bucket
  <1>6. buckets[b].tokens > 0
    OBVIOUS
  <1> HIDE DEF less
  <1>7. buckets'[b] = less /\ \A c \in DOMAIN buckets \ {b} : buckets'[c] = buckets[c]
    BY <1>1, <1>4
  <1>8. Allowance(lt, ip) = buckets[b].tokens /\ Allowance(lt, ip)' = buckets[b].tokens - 1
    <2>1. Allowance(lt, ip) = buckets[b].tokens
      BY <1>3 DEF Allowance
    <2>2. UNCHANGED limiters
      BY <1>1
    <2>3. Allowance(lt, ip)' = buckets'[b].tokens
      BY <1>3, <2>2 DEF Allowance
    <2>4. QED
      BY <1>5, <1>7, <2>1, <2>3
  <1>9. ASSUME NEW lu \in LimiterTypes, NEW iq \in IPs, ~(lu = lt /\ iq = ip)
        PROVE  Allowance(lu, iq)' = Allowance(lu, iq)
    <2>1. CASE iq \in DOMAIN limiters[lu]
      <3>1. limiters[lu][iq].bucket # b
        <4>1. \A lv \in LimiterTypes : \A ir \in DOMAIN limiters[lv] :
                 limiters[lv][ir].bucket = limiters[lt][ip].bucket => lv = lt /\ ir = ip
          BY <1>2, <1>3, EntryFacts
        <4>2. QED
          BY <1>3, <1>9, <2>1, <4>1, Zenon
      <3>2. limiters[lu][iq].bucket \in DOMAIN buckets
        BY <1>4, <2>1, EntryFacts
      <3>3. QED
        BY <1>1, <1>7, <2>1, <3>1, <3>2 DEF Allowance
    <2>2. CASE iq \notin DOMAIN limiters[lu]
      BY <1>1, <2>2 DEF Allowance
    <2>3. QED
      BY <2>1, <2>2
  <1>10. /\ Tokens[lt][ip] = buckets[b].tokens
         /\ Tokens' = [Tokens EXCEPT ![lt][ip] = @ - 1]
    <2>1. Tokens[lt][ip] = buckets[b].tokens
      BY <1>2, <1>8 DEF Tokens
    <2>2. Tokens' = [lu \in LimiterTypes |-> [iq \in IPs |->
             IF lu = lt /\ iq = ip THEN Tokens[lt][ip] - 1 ELSE Tokens[lu][iq]]]
      BY <1>2, <1>8, <1>9, <2>1 DEF Tokens
    <2>3. [Tokens EXCEPT ![lt][ip] = @ - 1] = [lu \in LimiterTypes |-> [iq \in IPs |->
             IF lu = lt /\ iq = ip THEN Tokens[lt][ip] - 1 ELSE Tokens[lu][iq]]]
      BY <1>2 DEF Tokens
    <2>4. QED
      BY <2>1, <2>2, <2>3
  <1>11. QED
    BY <1>1, <1>6, <1>10 DEF Service!Serve

\* Time fills every bucket, those of addresses without an entry as well.
LEMMA TickRefills ==
    ASSUME IInv, Tick
    PROVE  Service!Refill
  <1>1. clock' = clock + 1 /\ UNCHANGED <<bans, limiters, since, admitted, promised>>
    BY DEF Tick, observed
  <1>2. ASSUME NEW lt \in LimiterTypes, NEW ip \in IPs
        PROVE  Allowance(lt, ip)' = IF Allowance(lt, ip) + Rate[lt] > Burst[lt]
                                      THEN Burst[lt] ELSE Allowance(lt, ip) + Rate[lt]
    <2>1. CASE ip \in DOMAIN limiters[lt]
      <3> DEFINE b == limiters[lt][ip].bucket
      <3>1. b \in DOMAIN buckets /\ buckets[b] \in Bucket /\ buckets[b].lt = lt
        BY <2>1, EntryFacts, Types
      <3>2. buckets'[b].tokens = Smaller(buckets[b].tokens + Rate[lt], Burst[lt])
        BY <3>1 DEF Tick, Bucket
      <3>3. buckets[b].tokens \in Nat /\ Rate[lt] \in Nat /\ Burst[lt] \in Nat
        BY <3>1, Constants DEF Bucket
      <3>4. buckets'[b].tokens = IF buckets[b].tokens + Rate[lt] > Burst[lt]
                                   THEN Burst[lt] ELSE buckets[b].tokens + Rate[lt]
        BY <3>2, <3>3 DEF Smaller
      <3>5. QED
        BY <1>1, <2>1, <3>4 DEF Allowance
    <2>2. CASE ip \notin DOMAIN limiters[lt]
      <3>1. Burst[lt] + Rate[lt] > Burst[lt]
        BY RateAssumption
      <3>2. QED
        BY <1>1, <2>2, <3>1 DEF Allowance
    <2>3. QED
      BY <2>1, <2>2
  <1>3. Tokens' = [lt \in LimiterTypes |-> [ip \in IPs |->
           IF Tokens[lt][ip] + Rate[lt] > Burst[lt] THEN Burst[lt]
                                                    ELSE Tokens[lt][ip] + Rate[lt]]]
    BY <1>2 DEF Tokens
  <1>4. QED
    BY <1>1, <1>3 DEF Service!Refill

\* The other steps are about bans, or nothing the service knows.
LEMMA WriteBanDenies ==
    ASSUME IInv, NEW r \in Requests, WriteBan(r)
    PROVE  Service!SvcNext
  <1>1. pc[r] # "idle"
    BY DEF WriteBan
  <1>2. /\ req[r].ip \in IPs /\ req[r].now \in 0..clock
        /\ req[r].now <= clock /\ clock <= req[r].now + MaxStall
    BY <1>1, Call
  <1>3. Service!Deny(req[r].ip, req[r].now)
    BY <1>2, EntriesLeft DEF WriteBan, Refuse, nextBanExpiry, With, Larger, Service!Deny
  <1>4. QED
    BY <1>2, <1>3 DEF Service!SvcNext

LEMMA LiftsBans ==
    ASSUME NEW S \in SUBSET DOMAIN bans, \A ip \in S : bans[ip] <= clock,
           bans' = Without(bans, S),
           UNCHANGED <<Tokens, clock, since, admitted, promised>>
    PROVE  Service!SvcNext
  BY DEF Without, Service!Lift, Service!SvcNext

LEMMA IsIPBlockedLifts ==
    ASSUME IInv, NEW r \in Requests, IsIPBlocked(r)
    PROVE  Service!SvcNext \/ UNCHANGED Service!svcVars
  <1>1. UNCHANGED <<Tokens, clock, since, admitted, promised>>
    BY EntriesLeft DEF IsIPBlocked, observed
  <1>2. CASE UNCHANGED bans
    BY <1>1, <1>2, ServiceStutter
  <1>3. CASE /\ req[r].ip \in DOMAIN bans /\ BanOver(req[r].ip, clock)
             /\ bans' = Without(bans, {req[r].ip})
    BY <1>1, <1>3, LiftsBans DEF BanOver
  <1>4. QED
    BY <1>2, <1>3 DEF IsIPBlocked

LEMMA CleanupExpiredBansLifts ==
    ASSUME IInv, CleanupExpiredBans
    PROVE  Service!SvcNext
  <1> DEFINE now == req[BanCleaner].now
             S == {ip \in DOMAIN bans : BanOver(ip, now)}
  <1>1. /\ BanCleaner \in Cleaners /\ BanCleaner \in Procs /\ pc[BanCleaner] = "clean"
        /\ bans' = Without(bans, S)
        /\ UNCHANGED <<Tokens, clock, since, admitted, promised>>
    BY EntriesLeft DEF CleanupExpiredBans, observed, Procs, Cleaners
  <1>2. now <= clock /\ now \in Nat /\ clock \in Nat /\ bans \in [DOMAIN bans -> Nat]
    BY <1>1, Types, Parts DEF CallsTimed, Locals
  <1> HIDE DEF now
  <1>3. S \in SUBSET DOMAIN bans /\ \A ip \in S : bans[ip] <= clock
    BY <1>2 DEF BanOver
  <1> HIDE DEF S
  <1>4. QED
    BY <1>1, <1>3, LiftsBans

LEMMA ServiceRequest ==
    ASSUME IInv, NEW r \in Requests, RequestStep(r)
    PROVE  Service!SvcNext \/ UNCHANGED Service!svcVars
  <1>1. ASSUME NEW ip \in IPs, NEW lt \in LimiterTypes, Arrive(r, ip, lt)
        PROVE  UNCHANGED Service!svcVars
    BY <1>1, EntriesLeft, ServiceStutter DEF Arrive, observed
  <1>2. CASE AttachToClientIP(r)
    BY <1>2, AttachTokens, ServiceStutter DEF AttachToClientIP, observed
  <1>3. CASE TakeLimiter(r)
    <2>1. /\ pc[r] = "take" /\ UNCHANGED <<bans, buckets, clock>>
      BY <1>3 DEF TakeLimiter
    <2>2. /\ req[r].lt \in LimiterTypes /\ req[r].now \in Nat
          /\ req[r].now <= clock /\ clock <= req[r].now + MaxStall
      BY <2>1, Call
    <2>3. req[r].ip \in DOMAIN limiters[req[r].lt]
      BY <2>1, Parts DEF LimitsOK, EntriesHeld
    <2>4. /\ limiters' = [limiters EXCEPT ![req[r].lt][req[r].ip].lastSeen = req[r].now]
          /\ UNCHANGED <<since, admitted, promised>>
      BY <1>3, <2>3 DEF TakeLimiter, observed
    <2>5. Dated(req[r].lt, req[r].ip, req[r].now)
      BY <2>1, <2>2, <2>3, <2>4 DEF Dated
    <2>6. QED
      BY <2>1, <2>4, <2>5, DatedTokens, ServiceStutter
  <1>4. CASE Allow(r)
    <2>1. CASE buckets[req[r].bucket].tokens > 0
      <3>1. pc[r] = "allow"
        BY <1>4 DEF Allow
      <3>2. req[r].lt \in LimiterTypes /\ req[r].ip \in IPs
        BY <3>1, Call
      <3>3. QED
        BY <1>4, <2>1, <3>2, AllowServes DEF Service!SvcNext
    <2>2. CASE ~(buckets[req[r].bucket].tokens > 0)
      BY <1>4, <2>2, EntriesLeft, ServiceStutter DEF Allow, observed
    <2>3. QED
      BY <2>1, <2>2
  <1>5. QED
    BY <1>1, <1>2, <1>3, <1>4, IsIPBlockedLifts, WriteBanDenies DEF RequestStep

LEMMA ServiceNext ==
    ASSUME IInv, [Next]_vars
    PROVE  [Service!SvcNext]_Service!svcVars
  <1>1. CASE UNCHANGED vars
    BY <1>1, EntriesLeft, ServiceStutter DEF vars
  <1>2. ASSUME NEW p \in Cleaners, CleanerTick(p)
        PROVE  UNCHANGED Service!svcVars
    BY <1>2, EntriesLeft, ServiceStutter DEF CleanerTick, observed
  <1>3. CASE BanCleanerStep
    BY <1>2, <1>3, CleanupExpiredBansLifts DEF BanCleanerStep, Cleaners
  <1>4. ASSUME NEW lt \in LimiterTypes, CleanupOldLimiterEntries(lt)
        PROVE  UNCHANGED Service!svcVars
    BY <1>4, DroppedTokens, ServiceStutter DEF CleanupOldLimiterEntries, observed
  <1>5. CASE Tick
    BY <1>5, TickRefills DEF Service!SvcNext
  <1>6. QED
    BY <1>1, <1>2, <1>3, <1>4, <1>5, ServiceRequest DEF Next, LimiterCleanerStep, Cleaners

\* The limiter, with its entries that are cleaned up and made anew while calls
\* hold them, serves every address as one bucket that is never thrown away
\* would, and lifts no ban before its end (limiters.go:120-180, 246-308).
THEOREM LimiterImplementsService == Spec => ImplementsRateLimitService
  <1>1. Init => Service!SvcInit
    BY TimeAssumption DEF Init, Tokens, Allowance, Service!SvcInit
  <1>2. QED
    BY <1>1, Inductive, ServiceNext, PTL DEF Spec, ImplementsRateLimitService, Service!SvcSpec
=============================================================================
