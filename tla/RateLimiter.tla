----------------------------- MODULE RateLimiter -----------------------------
(***************************************************************************)
(* Per-address rate limiting and temporary bans (auth/limiters.go) as      *)
(* RateLimitMiddleware uses them, with the two periodic cleaners.  Every   *)
(* critical section of a map mutex is one step; the clock reading a call   *)
(* captured on entry lives on in its locals.  golang.org/x/time/rate is    *)
(* external: a bucket that refills with time, of which Allow takes one.    *)
(***************************************************************************)
EXTENDS Integers, FiniteSets, Sequences

CONSTANTS Requests,       \* goroutines inside IsClientRateLimited
          BanCleaner,     \* the banned clients cleanup goroutine
          LimiterCleaner, \* the rate limiter cleanup goroutine
          IPs,            \* client addresses
          None,           \* no address
          LimiterTypes,   \* APILimiter, AuthLimiter, FileLimiter, WebLimiter
          Burst, Rate,    \* per limiter type: bucket size, tokens per tick
          BanFor,         \* RateLimitTimeout, or defaultBanDuration
          EntryTTL,       \* limitersCleanupInterval
          MaxStall,       \* ticks a call spends between reading the clock and returning
          MaxTime         \* bound of the model's clock

Cleaners == {BanCleaner, LimiterCleaner}

ASSUME ProcAssumption ==
    /\ Requests \cap Cleaners = {} /\ BanCleaner # LimiterCleaner
    /\ None \notin IPs
ASSUME RateAssumption ==
    /\ Burst \in [LimiterTypes -> Nat \ {0}]
    /\ Rate \in [LimiterTypes -> Nat \ {0}]
ASSUME TimeAssumption ==
    /\ BanFor \in Nat \ {0} /\ MaxStall \in Nat /\ MaxTime \in Nat
    /\ EntryTTL \in Nat /\ 2 * MaxStall <= EntryTTL
\* An entry is idle for longer than its bucket takes to fill again: three
\* minutes against the seconds of RateLimitBurst / RateLimitInterval.  Two calls
\* that overlap can date it back by one stall each.
ASSUME RefillAssumption ==
    \A lt \in LimiterTypes : Rate[lt] * (EntryTTL + 1 - 2 * MaxStall) >= Burst[lt]

VARIABLES bans,      \* BannedClients: address -> end of the ban
          limiters,  \* limiters[lt]: the map of that type, address -> entry
          buckets,   \* every rate.Limiter ever made; entries point into it
          clock, pc, req,
          since,     \* the beginning of the window the observer counts in
          admitted,  \* admitted[lt][ip]: requests let through since then
          promised   \* promised[ip]: the latest retryAt a client was told

vars == <<bans, limiters, buckets, clock, pc, req, since, admitted, promised>>
observed == <<since, admitted, promised>>

Procs == Requests \cup Cleaners
Steps == {"idle", "blocked", "extend", "attach", "take", "allow", "ban",
          "clean"}

Entry  == [bucket : Nat, lastSeen : Nat]
Bucket == [lt : LimiterTypes, tokens : Nat]
Locals == [ip : IPs \cup {None}, lt : LimiterTypes \cup {None}, now : Nat,
           bucket : Nat, todo : SUBSET LimiterTypes]
Fresh  == [ip |-> None, lt |-> None, now |-> 0, bucket |-> 0, todo |-> {}]

TypeOK ==
    /\ DOMAIN bans \subseteq IPs /\ bans \in [DOMAIN bans -> Nat]
    /\ DOMAIN limiters = LimiterTypes
    /\ \A lt \in LimiterTypes :
          /\ DOMAIN limiters[lt] \subseteq IPs
          /\ limiters[lt] \in [DOMAIN limiters[lt] -> Entry]
    /\ buckets \in Seq(Bucket)
    /\ clock \in Nat /\ since \in Nat
    /\ pc \in [Procs -> Steps]
    /\ req \in [Procs -> Locals]
    /\ admitted \in [LimiterTypes -> [IPs -> Nat]]
    /\ promised \in [IPs -> Nat]

-----------------------------------------------------------------------------
With(f, x, v) == [y \in DOMAIN f \cup {x} |-> IF y = x THEN v ELSE f[y]]
Without(f, S) == [y \in DOMAIN f \ S |-> f[y]]
Larger(a, b)  == IF a > b THEN a ELSE b
Smaller(a, b) == IF a < b THEN a ELSE b

\* Fault: a fresh limiter on every call.
NewBucketAlways(entries, ip) == TRUE

\* AttachToClientIP makes a limiter only for an address without an entry.
NeedsBucket(entries, ip) == ip \notin DOMAIN entries

\* Fault: the time of the last request is ignored.
AnyAge(entry, now) == now > 0

\* CleanupOldLimiterEntries: now.Sub(limiter.LastSeen) > limitersCleanupInterval.
Idle(entry, now) == now - entry.lastSeen > EntryTTL

\* nextBanExpiry, of the address's request that read the clock at t.
nextBanExpiry(ip, t) == t + BanFor

\* Fault: the comparison is turned round.
StillOver(ip, t) == bans[ip] > t

\* !expiry.After(now): the ban of ip has ended at t.
BanOver(ip, t) == bans[ip] <= t

Goto(p, l) == pc' = [pc EXCEPT ![p] = l]
Return(p)  == Goto(p, "idle") /\ req' = [req EXCEPT ![p] = Fresh]

\* next.ServeHTTP is called for the request.
Admit(r) ==
    /\ admitted' = IF clock >= since
                     THEN [admitted EXCEPT ![req[r].lt][req[r].ip] = @ + 1]
                     ELSE admitted
    /\ UNCHANGED <<since, promised>>

\* 429 until expiry.
Refuse(r, expiry) ==
    /\ promised' = [promised EXCEPT ![req[r].ip] = Larger(@, expiry)]
    /\ UNCHANGED <<since, admitted>>

-----------------------------------------------------------------------------
\* IsClientRateLimited.

Arrive(r, ip, lt) ==
    /\ pc[r] = "idle"
    /\ Goto(r, "blocked")
    /\ req' = [req EXCEPT ![r] = [Fresh EXCEPT !.ip = ip, !.lt = lt, !.now = clock]]
    /\ UNCHANGED <<bans, limiters, buckets, clock, observed>>

\* IsIPBlocked: an ended ban is removed on sight.
IsIPBlocked(r) ==
    /\ pc[r] = "blocked"
    /\ \/ /\ req[r].ip \notin DOMAIN bans
          /\ Goto(r, "attach")
          /\ UNCHANGED bans
       \/ /\ req[r].ip \in DOMAIN bans
          /\ BanOver(req[r].ip, clock)
          /\ bans' = Without(bans, {req[r].ip})
          /\ Goto(r, "attach")
       \/ /\ req[r].ip \in DOMAIN bans
          /\ ~BanOver(req[r].ip, clock)
          /\ Goto(r, "extend")
          /\ UNCHANGED bans
    /\ UNCHANGED <<limiters, buckets, clock, req, observed>>

\* The ban expiry is written under another lock, and from the time read on
\* entry: a blocked client's ban is pushed back, a denied one's begins.
WriteBan(r) ==
    /\ pc[r] \in {"extend", "ban"}
    /\ LET expiry == nextBanExpiry(req[r].ip, req[r].now)
       IN /\ bans' = With(bans, req[r].ip, expiry)
          /\ Refuse(r, expiry)
    /\ Return(r)
    /\ UNCHANGED <<limiters, buckets, clock>>

AttachToClientIP(r) ==
    /\ pc[r] = "attach"
    /\ LET lt == req[r].lt
           entries == limiters[lt]
           ip == req[r].ip
       IN IF NeedsBucket(entries, ip)
            THEN /\ buckets' = Append(buckets, [lt |-> lt, tokens |-> Burst[lt]])
                 /\ limiters' = [limiters EXCEPT ![lt] =
                       With(entries, ip, [bucket |-> Len(buckets) + 1,
                                          lastSeen |-> clock])]
            ELSE /\ limiters' = [limiters EXCEPT ![lt][ip].lastSeen = clock]
                 /\ UNCHANGED buckets
    /\ Goto(r, "take")
    /\ UNCHANGED <<bans, clock, req, observed>>

\* The entry is looked up again; a client whose entry has vanished meanwhile
\* is let through.  LastSeen goes back to the time read on entry.
TakeLimiter(r) ==
    /\ pc[r] = "take"
    /\ LET lt == req[r].lt
           ip == req[r].ip
       IN IF ip \in DOMAIN limiters[lt]
            THEN /\ limiters' = [limiters EXCEPT ![lt][ip].lastSeen = req[r].now]
                 /\ req' = [req EXCEPT ![r].bucket = limiters[lt][ip].bucket]
                 /\ Goto(r, "allow")
                 /\ UNCHANGED observed
            ELSE /\ Admit(r)
                 /\ Return(r)
                 /\ UNCHANGED limiters
    /\ UNCHANGED <<bans, buckets, clock>>

\* Fault: an empty bucket still gives a token.
AllowUnchecked(r) ==
    /\ pc[r] = "allow"
    /\ buckets' = [buckets EXCEPT ![req[r].bucket].tokens = @ - 1]
    /\ Admit(r)
    /\ Return(r)
    /\ UNCHANGED <<bans, limiters, clock>>

\* rate.Limiter.Allow, on the pointer the call holds.
Allow(r) ==
    /\ pc[r] = "allow"
    /\ IF buckets[req[r].bucket].tokens > 0
         THEN /\ buckets' = [buckets EXCEPT ![req[r].bucket].tokens = @ - 1]
              /\ Admit(r)
              /\ Return(r)
         ELSE /\ Goto(r, "ban")
              /\ UNCHANGED <<buckets, req, observed>>
    /\ UNCHANGED <<bans, limiters, clock>>

-----------------------------------------------------------------------------
\* CleanupExpiredBans and CleanupOldLimiterEntries read the clock before they
\* lock; the second one visits the maps in parallel, each under its own mutex.

CleanerTick(p) ==
    /\ pc[p] = "idle"
    /\ Goto(p, "clean")
    /\ req' = [req EXCEPT ![p].now = clock,
                          ![p].todo = IF p = LimiterCleaner THEN LimiterTypes ELSE {}]
    /\ UNCHANGED <<bans, limiters, buckets, clock, observed>>

CleanupExpiredBans ==
    /\ pc[BanCleaner] = "clean"
    /\ bans' = Without(bans, {ip \in DOMAIN bans : BanOver(ip, req[BanCleaner].now)})
    /\ Return(BanCleaner)
    /\ UNCHANGED <<limiters, buckets, clock, observed>>

CleanupOldLimiterEntries(lt) ==
    /\ pc[LimiterCleaner] = "clean"
    /\ lt \in req[LimiterCleaner].todo
    /\ LET entries == limiters[lt]
           now == req[LimiterCleaner].now
       IN limiters' = [limiters EXCEPT ![lt] =
             Without(entries, {ip \in DOMAIN entries : Idle(entries[ip], now)})]
    /\ IF req[LimiterCleaner].todo = {lt}
         THEN Return(LimiterCleaner)
         ELSE /\ req' = [req EXCEPT ![LimiterCleaner].todo = @ \ {lt}]
              /\ UNCHANGED pc
    /\ UNCHANGED <<bans, buckets, clock, observed>>

-----------------------------------------------------------------------------
\* Buckets refill as time passes.  No call, which waits for nothing but short
\* critical sections, takes longer than MaxStall.
Tick ==
    /\ clock < MaxTime
    /\ \A r \in Requests : pc[r] # "idle" => clock < req[r].now + MaxStall
    /\ clock' = clock + 1
    /\ buckets' = [b \in DOMAIN buckets |->
          [buckets[b] EXCEPT !.tokens = Smaller(@ + Rate[buckets[b].lt],
                                                Burst[buckets[b].lt])]]
    /\ UNCHANGED <<bans, limiters, pc, req, observed>>

Init ==
    /\ bans = [ip \in {} |-> 0]
    /\ limiters = [lt \in LimiterTypes |-> [ip \in {} |-> 0]]
    /\ buckets = <<>>
    /\ clock = 0
    /\ pc = [p \in Procs |-> "idle"]
    /\ req = [p \in Procs |-> Fresh]
    /\ since \in 0..MaxTime
    /\ admitted = [lt \in LimiterTypes |-> [ip \in IPs |-> 0]]
    /\ promised = [ip \in IPs |-> 0]

RequestStep(r) ==
    \/ \E ip \in IPs, lt \in LimiterTypes : Arrive(r, ip, lt)
    \/ IsIPBlocked(r)
    \/ WriteBan(r)
    \/ AttachToClientIP(r)
    \/ TakeLimiter(r)
    \/ Allow(r)

BanCleanerStep == CleanerTick(BanCleaner) \/ CleanupExpiredBans

LimiterCleanerStep ==
    \/ CleanerTick(LimiterCleaner)
    \/ \E lt \in LimiterTypes : CleanupOldLimiterEntries(lt)

Next ==
    \/ \E r \in Requests : RequestStep(r)
    \/ BanCleanerStep
    \/ LimiterCleanerStep
    \/ Tick

Spec == Init /\ [][Next]_vars

-----------------------------------------------------------------------------
\* In any window of time, whatever entries are cleaned up and made anew and
\* however calls interleave, one address gets no more requests of a type
\* through than its bucket holds and refills meanwhile (limiters.go:251-308).
RateBound ==
    \A lt \in LimiterTypes, ip \in IPs :
        admitted[lt][ip] <= Burst[lt] + Rate[lt] * Larger(0, clock - since)

\* An entry attached to an address is still there when the call looks it up
\* again, so nobody slips through the branch at limiters.go:279-282.
AttachedStays ==
    \A r \in Requests :
        pc[r] = "take" => req[r].ip \in DOMAIN limiters[req[r].lt]

\* A client told to wait until some time stays banned until then, less what a
\* slower call of the same client may take back: it overwrites the expiry with
\* one computed from an older clock reading (limiters.go:256-264, 300-303).
BanKept ==
    \A ip \in IPs :
        \/ promised[ip] <= clock + MaxStall
        \/ ip \in DOMAIN bans /\ bans[ip] + MaxStall >= promised[ip]

\* A client that stays away is free again after one ban duration, however
\* often its ban was pushed back before.
BanHorizon == \A ip \in DOMAIN bans : bans[ip] <= clock + BanFor

\* Both ends of a ban, under any interleaving of retries, slow calls and the
\* cleaner (limiters.go:256-264, 300-303, 329-346).
BansTimed == BanKept /\ BanHorizon

-----------------------------------------------------------------------------
\* What an address may still take; one without an entry will get a full bucket.
Allowance(lt, ip) ==
    IF ip \in DOMAIN limiters[lt] THEN buckets[limiters[lt][ip].bucket].tokens
                                  ELSE Burst[lt]

\* Entries come and go, and calls race for them; the tokens they stand for are
\* those of one bucket per address and type that is never thrown away.
Tokens  == [lt \in LimiterTypes |-> [ip \in IPs |-> Allowance(lt, ip)]]
Service == INSTANCE RateLimitService WITH tokens <- Tokens

\* Dropping an idle entry and making it anew gives nobody a token, calls that
\* hold a dropped limiter do not exist, and a ban is lifted only when it is over
\* (limiters.go:211-308, 329-379).
ImplementsRateLimitService == Service!SvcSpec

-----------------------------------------------------------------------------
\* What makes them inductive.  A clock reading is at most one stall old.
CallsTimed ==
    /\ \A r \in Requests : pc[r] # "idle" =>
          /\ req[r].ip \in IPs /\ req[r].lt \in LimiterTypes
          /\ req[r].now <= clock /\ clock <= req[r].now + MaxStall
    /\ \A p \in Cleaners : pc[p] = "clean" => req[p].now <= clock

\* A bucket is one address's, is never fuller than its size, and holds what has
\* flown in since the last call that may have used it: two stalls after lastSeen.
BucketsRefilled ==
    \A lt \in LimiterTypes : \A ip \in DOMAIN limiters[lt] :
        LET b == limiters[lt][ip].bucket
        IN  /\ b \in DOMAIN buckets /\ buckets[b].lt = lt
            /\ buckets[b].tokens <= Burst[lt]
            /\ \/ buckets[b].tokens = Burst[lt]
               \/ Rate[lt] * (clock - limiters[lt][ip].lastSeen - 2 * MaxStall)
                    <= buckets[b].tokens
            /\ \A lu \in LimiterTypes : \A iq \in DOMAIN limiters[lu] :
                  limiters[lu][iq].bucket = b => lu = lt /\ iq = ip

\* A call between two critical sections keeps its entry in the map.
EntriesHeld ==
    \A r \in Requests : pc[r] \in {"take", "allow"} =>
        LET entries == limiters[req[r].lt]
        IN  /\ req[r].ip \in DOMAIN entries
            /\ req[r].now <= entries[req[r].ip].lastSeen + MaxStall
            /\ pc[r] = "allow" => req[r].bucket = entries[req[r].ip].bucket

Budget ==
    \A lt \in LimiterTypes, ip \in IPs :
        IF clock >= since
          THEN admitted[lt][ip] + Allowance(lt, ip) <= Burst[lt] + Rate[lt] * (clock - since)
          ELSE admitted[lt][ip] = 0

PromisesNear == \A ip \in IPs : promised[ip] <= clock + BanFor

IInv ==
    /\ TypeOK /\ CallsTimed /\ BucketsRefilled /\ EntriesHeld /\ Budget
    /\ BanKept /\ BanHorizon /\ PromisesNear
=============================================================================
