----------------------------- MODULE ProviderCache -----------------------------
(***************************************************************************)
(* Lookups of one metered intelligence provider by the threads of several  *)
(* workers (intelligence/providers.py, lookup_provider()), while an        *)
(* administrator rotates its key (routes/settings.py): the cache of        *)
(* answers, the cooldown after a 429, and time.                            *)
(*                                                                         *)
(* Time is a clock of coarse ticks; the lifetimes are numbers of ticks     *)
(* that keep the order of the real ones.                                   *)
(***************************************************************************)
EXTENDS Integers

CONSTANTS
    Queries, Keys, NoKey,
    Lookups,                    \* threads that look up the provider
    Lifetime,                   \* of an available answer: 6 hours
    ErrorLifetime,              \* of any other: 3 minutes
    LongestWait,                \* 86400 seconds
    MaxTime,                    \* bound: ticks of the clock
    None

ASSUME LifetimesAreOrdered ==
    /\ {Lifetime, ErrorLifetime, LongestWait} \subseteq Nat \ {0}
    /\ ErrorLifetime <= Lifetime
    /\ MaxTime \in Nat

VARIABLES
    now,
    key,        \* the stored secret, NoKey without one
    cache,      \* db.threat_intelligence: by query and key
    cooldown,   \* db.provider_cooldowns: by key
    at, my,     \* each thread's next step, and its local variables
    told        \* history: the longest wait each key was told

store == <<cache, cooldown>>
vars == <<now, key, store, at, my, told>>

\* Unavailable stands for every status that is kept like it.
Statuses == {"Available", "Rate Limited", "Unavailable"}

\* key: what the lookup read; wait: history, the wait told by then; got, until:
\* the response and its cooldown; answer: what the lookup returned.
Blank == [query |-> None, key |-> NoKey, wait |-> 0, got |-> None, until |-> 0,
          answer |-> None]

Init ==
    /\ now = 0
    /\ key \in Keys
    /\ cache = [q \in Queries |-> [k \in Keys |-> None]]
    /\ cooldown = [k \in Keys |-> 0]
    /\ at = [l \in Lookups |-> "idle"]
    /\ my = [l \in Lookups |-> Blank]
    /\ told = [k \in Keys |-> 0]

Go(l, from, to, local) ==
    /\ at[l] = from
    /\ at' = [at EXCEPT ![l] = to]
    /\ my' = [my EXCEPT ![l] = local]
Answer(l, from, row) ==
    Go(l, from, "idle", [Blank EXCEPT !.key = my[l].key, !.answer = row])

Tick ==
    /\ now < MaxTime /\ now' = now + 1
    /\ UNCHANGED <<key, store, at, my, told>>

Row(status, k) == [status |-> status, key |-> k]
Alive(entry) == entry # None /\ entry.until > now

----------------------------------------------------------------------------
(* The administrator. *)

SaveKey(k) ==
    /\ key' = k
    /\ UNCHANGED <<now, store, at, my, told>>

\* Disabling the provider keeps lookups from it as well.
RemoveKey == SaveKey(NoKey)

----------------------------------------------------------------------------
(* lookup_provider(). *)

\* statuses(): disabled and keyless providers are not asked.
Begin(l, q) ==
    /\ IF key # NoKey
       THEN Go(l, "idle", "key", [Blank EXCEPT !.query = q])
       ELSE Go(l, "idle", "idle", [Blank EXCEPT !.answer = Row("Unavailable", NoKey)])
    /\ UNCHANGED <<now, key, store, told>>

\* The key is read again. Without one, the lookup fails later on.
ReadKey(l) ==
    /\ at[l] = "key"
    /\ IF key = NoKey THEN Answer(l, "key", Row("Unavailable", NoKey))
       ELSE Go(l, "key", "cache", [my[l] EXCEPT !.key = key, !.wait = told[key]])
    /\ UNCHANGED <<now, key, store, told>>

MutantServed(q, k) == {cache[q][o].row : o \in {x \in Keys : Alive(cache[q][x])}}
Served(q, k) == IF Alive(cache[q][k]) THEN {cache[q][k].row} ELSE {}

ReadCache(l) ==
    /\ at[l] = "cache"
    /\ LET found == Served(my[l].query, my[l].key) IN
       \/ found = {} /\ Go(l, "cache", "cooldown", my[l])
       \/ \E row \in found : Answer(l, "cache", row)
    /\ UNCHANGED <<now, key, store, told>>

MutantCooling(k) == FALSE
Cooling(k) == cooldown[k] > now

CheckCooldown(l) ==
    /\ at[l] = "cooldown"
    /\ IF Cooling(my[l].key) THEN Answer(l, "cooldown", Row("Rate Limited", my[l].key))
       ELSE Go(l, "cooldown", "ask", [my[l] EXCEPT !.wait = 0])
    /\ UNCHANGED <<now, key, store, told>>

\* The response, or the lack of one; an ill-formed body counts as Unavailable.
Receive(l) ==
    \E status \in Statuses :
        /\ Go(l, "ask", IF status = "Rate Limited" THEN "cool down" ELSE "keep",
              [my[l] EXCEPT !.got = Row(status, my[l].key)])
        /\ UNCHANGED <<now, key, store, told>>

Longer(x, y) == IF x < y THEN y ELSE x
Shorter(x, y) == IF x < y THEN x ELSE y
MutantWait(seconds) == seconds
Wait(seconds) == Longer(1, Shorter(seconds, LongestWait))

\* Retry-After may lie in the past. Each 429 replaces the cooldown.
CoolDown(l, seconds) ==
    LET k == my[l].key
        until == now + Wait(seconds)
    IN  /\ Go(l, "cool down", "keep", [my[l] EXCEPT !.until = until])
        /\ cooldown' = [cooldown EXCEPT ![k] = until]
        /\ told' = [told EXCEPT ![k] = Longer(@, until)]
        /\ UNCHANGED <<now, key, cache>>

MutantExpiry(row, until) == now + Lifetime
Expiry(row, until) ==
    CASE row.status = "Rate Limited" -> until
      [] row.status = "Available" -> now + Lifetime
      [] OTHER -> now + ErrorLifetime

\* A cache outage does not discard the answer.
Keep(l) ==
    LET q == my[l].query
        k == my[l].key
        entry == [row |-> my[l].got, until |-> Expiry(my[l].got, my[l].until)]
    IN  /\ at[l] = "keep"
        /\ \E stored \in BOOLEAN :
            /\ cache' = IF stored THEN [cache EXCEPT ![q][k] = entry] ELSE cache
            /\ Answer(l, "keep", my[l].got)
        /\ UNCHANGED <<now, key, cooldown, told>>

----------------------------------------------------------------------------

LookupProvider(l) ==
    \/ \E q \in Queries : Begin(l, q)
    \/ ReadKey(l) \/ ReadCache(l) \/ CheckCooldown(l) \/ Receive(l)
    \/ \E seconds \in 0..(LongestWait + 1) : CoolDown(l, seconds)
    \/ Keep(l)

Next ==
    \/ Tick \/ RemoveKey
    \/ \E k \in Keys : SaveKey(k)
    \/ \E l \in Lookups : LookupProvider(l)

Spec == Init /\ [][Next]_vars

----------------------------------------------------------------------------
(* Properties. *)

Rows == [status : Statuses, key : Keys \cup {NoKey}]
Entries == [row : Rows, until : Nat]

TypeOK ==
    /\ now \in 0..MaxTime /\ key \in Keys \cup {NoKey}
    /\ \A q \in Queries : \A k \in Keys : cache[q][k] \in Entries \cup {None}
    /\ \A k \in Keys : cooldown[k] \in 0..(MaxTime + LongestWait)
    /\ told \in [Keys -> Nat]

Answered(l) == at[l] = "idle" /\ my[l].answer # None

\* An answer was obtained with the key its lookup read: once the key has been
\* rotated, no lookup that begins is told what the old key was told ("Key
\* rotation must immediately invalidate cached credential errors",
\* providers.py:110).
AnsweredForItsKey == \A l \in Lookups : Answered(l) => my[l].answer.key = my[l].key

\* The provider is not asked before the wait is over that its key was told when
\* the lookup began, unless the 429 of a request under way shortened the
\* cooldown (providers.py:119-122, 160-161).
RespectsCooldown ==
    [][\A l \in Lookups : (at[l] = "cooldown" /\ at'[l] = "ask") =>
        \/ my[l].wait <= now
        \/ cooldown[my[l].key] < told[my[l].key]]_vars

\* A rate limit is reported while a wait told for that key is running, and no
\* longer: neither the cooldown nor the cached answer outlives it
\* (providers.py:117, 122, 181).
ReportsNoOldLimit ==
    [][\A l \in Lookups :
        (at[l] \notin {"idle", "keep"} /\ at'[l] = "idle"
            /\ my'[l].answer.status = "Rate Limited") => now < told[my[l].key]]_vars
=============================================================================
