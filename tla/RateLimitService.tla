-------------------------- MODULE RateLimitService --------------------------
(***************************************************************************)
(* What rate limiting promises, without entries, cleaners, locks or calls: *)
(* every address has one token bucket of each limiter type for good, which *)
(* only time fills and every request let through pays into.  A ban is      *)
(* lifted only when it is over.  RateLimiter.tla implements this.          *)
(***************************************************************************)
EXTENDS Naturals

CONSTANTS IPs,          \* client addresses
          LimiterTypes, \* the kinds of request that are limited apart
          Burst, Rate,  \* per type: bucket size, tokens per tick
          BanFor,       \* how long a refused client is banned
          MaxStall      \* how much of that a slow call may take off

VARIABLES tokens,   \* tokens[lt][ip]: requests ip may make right now
          bans,     \* address -> end of the ban
          clock,
          since,    \* the beginning of the window that is counted in
          admitted, \* admitted[lt][ip]: requests let through since then
          promised  \* promised[ip]: the latest time a client was told to wait for

svcVars == <<tokens, bans, clock, since, admitted, promised>>

SvcInit ==
    /\ tokens = [lt \in LimiterTypes |-> [ip \in IPs |-> Burst[lt]]]
    /\ bans = [ip \in {} |-> 0]
    /\ clock = 0
    /\ since \in Nat
    /\ admitted = [lt \in LimiterTypes |-> [ip \in IPs |-> 0]]
    /\ promised = [ip \in IPs |-> 0]

\* A request goes through and takes a token.
Serve(lt, ip) ==
    /\ tokens[lt][ip] > 0
    /\ tokens' = [tokens EXCEPT ![lt][ip] = @ - 1]
    /\ admitted' = IF clock >= since THEN [admitted EXCEPT ![lt][ip] = @ + 1]
                                     ELSE admitted
    /\ UNCHANGED <<bans, clock, since, promised>>

\* A request that came in at now, not long ago, is refused: its client is
\* banned, and told until when.
Deny(ip, now) ==
    /\ now <= clock /\ clock <= now + MaxStall
    /\ bans' = [y \in DOMAIN bans \cup {ip} |-> IF y = ip THEN now + BanFor ELSE bans[y]]
    /\ promised' = [promised EXCEPT ![ip] = IF @ > now + BanFor THEN @ ELSE now + BanFor]
    /\ UNCHANGED <<tokens, clock, since, admitted>>

Lift(S) ==
    /\ \A ip \in S : bans[ip] <= clock
    /\ bans' = [y \in DOMAIN bans \ S |-> bans[y]]
    /\ UNCHANGED <<tokens, clock, since, admitted, promised>>

\* Time passes and every bucket fills up, used or not.
Refill ==
    /\ clock' = clock + 1
    /\ tokens' = [lt \in LimiterTypes |-> [ip \in IPs |->
          IF tokens[lt][ip] + Rate[lt] > Burst[lt] THEN Burst[lt]
                                                   ELSE tokens[lt][ip] + Rate[lt]]]
    /\ UNCHANGED <<bans, since, admitted, promised>>

SvcNext ==
    \/ \E lt \in LimiterTypes, ip \in IPs : Serve(lt, ip)
    \/ \E ip \in IPs, now \in 0..clock : Deny(ip, now)
    \/ \E S \in SUBSET DOMAIN bans : Lift(S)
    \/ Refill

SvcSpec == SvcInit /\ [][SvcNext]_svcVars
=============================================================================
