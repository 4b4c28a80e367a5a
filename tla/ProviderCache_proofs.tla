------------------------- MODULE ProviderCache_proofs -------------------------
(***************************************************************************)
(* What lookup_provider() guarantees for every number of lookups, queries, *)
(* keys, and every choice of the lifetimes.                                *)
(*                                                                         *)
(* The argument: an entry of the cache belongs to the key it is filed      *)
(* under; neither a cooldown nor a cached rate limit outlives the longest  *)
(* wait its key was told, which only grows; and a lookup knows of no wait  *)
(* that its key was not told.                                              *)
(***************************************************************************)
EXTENDS ProviderCache, TLAPS

Locals == [query : Queries \cup {None}, key : Keys \cup {NoKey}, wait : Nat,
           got : Rows \cup {None}, until : Nat, answer : Rows \cup {None}]
Steps == {"idle", "key", "cache", "cooldown", "ask", "cool down", "keep"}

Types ==
    /\ now \in 0..MaxTime /\ key \in Keys \cup {NoKey}
    /\ cache \in [Queries -> [Keys -> Entries \cup {None}]]
    /\ cooldown \in [Keys -> 0..(MaxTime + LongestWait)]
    /\ told \in [Keys -> Nat]
    /\ at \in [Lookups -> Steps] /\ my \in [Lookups -> Locals]

\* What is stored for key k.
Filed(k) ==
    /\ cooldown[k] <= told[k]
    /\ \A q \in Queries : cache[q][k] # None =>
        /\ cache[q][k].row.key = k
        /\ cache[q][k].row.status = "Rate Limited" => cache[q][k].until <= told[k]

\* What a lookup at step a with the variables v knows, given the waits told.
Knows(a, v, waits) ==
    /\ a = "idle" => (v.answer # None => v.answer.key = v.key)
    /\ a = "key" => v.query \in Queries /\ v.key = NoKey
    /\ a \notin {"idle", "key"} =>
        /\ v.query \in Queries /\ v.key \in Keys
        /\ v.wait <= waits[v.key]
    /\ a \in {"cool down", "keep"} => v.got \in Rows /\ v.got.key = v.key
    /\ a = "keep" /\ v.got.status = "Rate Limited" => v.until <= waits[v.key]

CacheInv ==
    /\ Types
    /\ \A k \in Keys : Filed(k)
    /\ \A l \in Lookups : Knows(at[l], my[l], told)

LEMMA BlankTyped == Blank \in Locals /\ Blank.key = NoKey /\ Blank.answer = None
  BY DEF Blank, Locals

LEMMA RowTyped ==
  ASSUME NEW status \in Statuses, NEW k \in Keys \cup {NoKey}
  PROVE  Row(status, k) \in Rows /\ Row(status, k).key = k /\ Row(status, k).status = status
  BY DEF Row, Rows

\* A wait is at least one tick and never longer than the longest.
LEMMA WaitBounded ==
  ASSUME NEW seconds \in Nat
  PROVE  Wait(seconds) \in 1..LongestWait
  BY LifetimesAreOrdered DEF Wait, Longer, Shorter

LEMMA CacheInit == Init => CacheInv
<1> SUFFICES ASSUME Init PROVE CacheInv
  OBVIOUS
<1>1. Types
  <2>1. 0 \in 0..MaxTime /\ 0 \in 0..(MaxTime + LongestWait)
    BY LifetimesAreOrdered
  <2>2. now \in 0..MaxTime /\ key \in Keys \cup {NoKey}
    BY <2>1 DEF Init
  <2>3. cooldown \in [Keys -> 0..(MaxTime + LongestWait)] /\ told \in [Keys -> Nat]
    BY <2>1 DEF Init
  <2>4. cache \in [Queries -> [Keys -> Entries \cup {None}]]
    <3>1. [k \in Keys |-> None] \in [Keys -> Entries \cup {None}]
      OBVIOUS
    <3> QED
      BY <3>1 DEF Init
  <2>5. at \in [Lookups -> Steps]
    <3>1. "idle" \in Steps
      BY DEF Steps
    <3>2. at = [l \in Lookups |-> "idle"]
      BY DEF Init
    <3> QED
      BY <3>1, <3>2, Zenon
  <2>6. my \in [Lookups -> Locals]
    <3>1. my = [l \in Lookups |-> Blank]
      BY DEF Init
    <3> QED
      BY <3>1, BlankTyped, Zenon
  <2> QED
    BY <2>2, <2>3, <2>4, <2>5, <2>6 DEF Types
<1>2. \A k \in Keys : Filed(k)
  BY DEF Init, Filed
<1>3. \A l \in Lookups : Knows(at[l], my[l], told)
  BY BlankTyped DEF Init, Knows
<1> QED
  BY <1>1, <1>2, <1>3 DEF CacheInv

\* What a lookup knows stays true while the waits told only grow.
LEMMA KnowledgeStays ==
  ASSUME NEW a, NEW v \in Locals, NEW waits \in [Keys -> Nat], NEW later \in [Keys -> Nat],
         \A k \in Keys : waits[k] <= later[k], Knows(a, v, waits)
  PROVE  Knows(a, v, later)
<1>1. v.wait \in Nat /\ v.until \in Nat
  BY DEF Locals
<1>2. ASSUME NEW n \in Nat, v.key \in Keys, n <= waits[v.key]
      PROVE  n <= later[v.key]
  <2>1. PICK k \in Keys : k = v.key
    BY <1>2
  <2>2. waits[k] \in Nat /\ later[k] \in Nat /\ waits[k] <= later[k] /\ n <= waits[k]
    BY <1>2, <2>1
  <2>3. n <= later[k]
    BY <2>2
  <2> QED
    BY <2>1, <2>3
<1>3. a = "keep" => a \notin {"idle", "key"}
  OBVIOUS
<1> QED
  BY <1>1, <1>2, <1>3, Zenon DEF Knows

\* When one lookup moves, and what it changes besides is typed and well filed,
\* it is enough to look at what that lookup knows afterwards.
LEMMA OneMoves ==
  ASSUME CacheInv, NEW l \in Lookups, NEW from, NEW to \in Steps, NEW local \in Locals,
         Go(l, from, to, local), now' = now, key' = key,
         cache' \in [Queries -> [Keys -> Entries \cup {None}]],
         cooldown' \in [Keys -> 0..(MaxTime + LongestWait)],
         told' \in [Keys -> Nat], \A k \in Keys : told[k] <= told'[k],
         \A k \in Keys : Filed(k)', Knows(to, local, told')
  PROVE  CacheInv'
<1>1. Types'
  BY DEF CacheInv, Types, Go
<1>2. ASSUME NEW o \in Lookups
      PROVE  Knows(at'[o], my'[o], told')
  <2>1. CASE o = l
    BY <2>1 DEF CacheInv, Types, Go
  <2>2. CASE o # l
    <3>1. at'[o] = at[o] /\ my'[o] = my[o]
      BY <2>2 DEF CacheInv, Types, Go
    <3>2. my[o] \in Locals /\ told \in [Keys -> Nat] /\ Knows(at[o], my[o], told)
      BY DEF CacheInv, Types
    <3> QED
      BY <3>1, <3>2, KnowledgeStays
  <2> QED
    BY <2>1, <2>2
<1> QED
  BY <1>1, <1>2 DEF CacheInv

\* A lookup that moves and leaves what is stored and told alone.
LEMMA OneLooks ==
  ASSUME CacheInv, NEW l \in Lookups, NEW from, NEW to \in Steps, NEW local \in Locals,
         Go(l, from, to, local), UNCHANGED <<now, key, store, told>>,
         Knows(to, local, told)
  PROVE  CacheInv'
<1>1. cache' = cache /\ cooldown' = cooldown /\ told' = told
  BY DEF store
<1>2. Types /\ \A k \in Keys : told[k] <= told'[k]
  BY <1>1 DEF CacheInv, Types
<1>3. \A k \in Keys : Filed(k)'
  BY <1>1 DEF CacheInv, Filed
<1> QED
  BY <1>1, <1>2, <1>3, OneMoves DEF Types

\* Returning the answer row, obtained with the key that the lookup read.
LEMMA AnswerTyped ==
  ASSUME NEW k \in Keys \cup {NoKey}, NEW row \in Rows
  PROVE  LET local == [Blank EXCEPT !.key = k, !.answer = row]
         IN  local \in Locals /\ local.key = k /\ local.answer = row
  BY DEF Blank, Locals

----------------------------------------------------------------------------
(* The steps. *)

\* The clock and the administrator disturb nobody's knowledge.
LEMMA TimeAndKey ==
  ASSUME CacheInv, Tick \/ RemoveKey \/ \E k \in Keys : SaveKey(k)
  PROVE  CacheInv'
<1>1. UNCHANGED <<store, at, my, told>>
  BY DEF Tick, RemoveKey, SaveKey
<1>2. cache' = cache /\ cooldown' = cooldown /\ at' = at /\ my' = my /\ told' = told
  BY <1>1 DEF store
<1>3. now' \in 0..MaxTime /\ key' \in Keys \cup {NoKey}
  BY LifetimesAreOrdered DEF CacheInv, Types, Tick, RemoveKey, SaveKey
<1> QED
  BY <1>2, <1>3 DEF CacheInv, Types, Filed

LEMMA BeginStep ==
  ASSUME CacheInv, NEW l \in Lookups, NEW q \in Queries, Begin(l, q)
  PROVE  CacheInv'
<1>1. UNCHANGED <<now, key, store, told>>
  BY DEF Begin
<1>2. CASE key # NoKey
  <2> DEFINE local == [Blank EXCEPT !.query = q]
  <2>1. local \in Locals /\ local.query = q /\ local.key = NoKey
    BY DEF Blank, Locals
  <2>2. Go(l, "idle", "key", local)
    BY <1>2 DEF Begin
  <2> HIDE DEF local
  <2>3. Knows("key", local, told) /\ "key" \in Steps
    BY <2>1 DEF Knows, Steps
  <2> QED
    BY <1>1, <2>1, <2>2, <2>3, OneLooks
<1>3. CASE key = NoKey
  <2> DEFINE row == Row("Unavailable", NoKey)
             local == [Blank EXCEPT !.answer = row]
  <2>1. row \in Rows /\ row.key = NoKey
    BY RowTyped DEF Statuses
  <2>2. Go(l, "idle", "idle", local)
    BY <1>3 DEF Begin
  <2> HIDE DEF row
  <2>3. local \in Locals /\ local.answer = row /\ local.key = NoKey
    BY <2>1 DEF Blank, Locals
  <2> HIDE DEF local
  <2>4. Knows("idle", local, told) /\ "idle" \in Steps
    BY <2>1, <2>3 DEF Knows, Steps
  <2> QED
    BY <1>1, <2>2, <2>3, <2>4, OneLooks
<1> QED
  BY <1>2, <1>3

\* A lookup that answers a row of the key it read, and changes nothing else.
LEMMA AnswerStep ==
  ASSUME CacheInv, NEW l \in Lookups, NEW from, NEW row \in Rows,
         Answer(l, from, row), row.key = my[l].key, UNCHANGED <<now, key, store, told>>
  PROVE  CacheInv'
<1> DEFINE local == [Blank EXCEPT !.key = my[l].key, !.answer = row]
<1>1. my[l] \in Locals
  BY DEF CacheInv, Types
<1>2. my[l].key \in Keys \cup {NoKey}
  BY <1>1 DEF Locals
<1>3. local \in Locals /\ local.key = my[l].key /\ local.answer = row
  BY <1>2, AnswerTyped
<1>4. Go(l, from, "idle", local)
  BY DEF Answer
<1> HIDE DEF local
<1>5. Knows("idle", local, told) /\ "idle" \in Steps
  BY <1>3 DEF Knows, Steps
<1> QED
  BY <1>3, <1>4, <1>5, OneLooks

LEMMA ReadKeyStep ==
  ASSUME CacheInv, NEW l \in Lookups, ReadKey(l)
  PROVE  CacheInv'
<1>1. at[l] = "key" /\ UNCHANGED <<now, key, store, told>>
  BY DEF ReadKey
<1>2. my[l] \in Locals /\ Knows("key", my[l], told)
  BY <1>1 DEF CacheInv, Types
<1>3. CASE key = NoKey
  <2>1. Row("Unavailable", NoKey) \in Rows /\ Row("Unavailable", NoKey).key = NoKey
    BY RowTyped DEF Statuses
  <2>2. my[l].key = NoKey
    BY <1>2 DEF Knows
  <2>3. Answer(l, "key", Row("Unavailable", NoKey))
    BY <1>3 DEF ReadKey
  <2> QED
    BY <1>1, <2>1, <2>2, <2>3, AnswerStep
<1>4. CASE key # NoKey
  <2> DEFINE local == [my[l] EXCEPT !.key = key, !.wait = told[key]]
  <2>1. key \in Keys /\ told[key] \in Nat
    BY <1>4 DEF CacheInv, Types
  <2>2. /\ local \in Locals /\ local.query = my[l].query
        /\ local.key = key /\ local.wait = told[key]
    BY <1>2, <2>1 DEF Locals
  <2>3. Go(l, "key", "cache", local)
    BY <1>4 DEF ReadKey
  <2> HIDE DEF local
  <2>4. my[l].query \in Queries
    BY <1>2 DEF Knows
  <2>5. local.wait <= told[local.key]
    BY <2>1, <2>2
  <2>6. Knows("cache", local, told) /\ "cache" \in Steps
    BY <2>1, <2>2, <2>4, <2>5 DEF Knows, Steps
  <2> QED
    BY <1>1, <2>2, <2>3, <2>6, OneLooks
<1> QED
  BY <1>3, <1>4

LEMMA LessThanTransitive ==
  ASSUME NEW a \in Nat, NEW b \in Nat, NEW c \in Nat, b > a, b <= c
  PROVE  a < c
  OBVIOUS

\* What is stored for a key, in numbers.
LEMMA KeyBounded ==
  ASSUME CacheInv, NEW k \in Keys
  PROVE  /\ told[k] \in Nat /\ cooldown[k] \in Nat /\ now \in Nat
         /\ cooldown[k] <= told[k]
<1>1. told \in [Keys -> Nat] /\ cooldown \in [Keys -> 0..(MaxTime + LongestWait)]
  BY DEF CacheInv, Types
<1>2. cooldown[k] \in 0..(MaxTime + LongestWait)
  BY <1>1
<1>3. now \in 0..MaxTime
  BY DEF CacheInv, Types
<1>4. cooldown[k] <= told[k]
  BY DEF CacheInv, Filed
<1>5. now \in Nat /\ cooldown[k] \in Nat
  BY <1>2, <1>3, LifetimesAreOrdered
<1> QED
  BY <1>1, <1>4, <1>5

\* What a served row is: a living entry that was filed under the key.
LEMMA ServedIsFiled ==
  ASSUME CacheInv, NEW q \in Queries, NEW k \in Keys, NEW row \in Served(q, k)
  PROVE  /\ row \in Rows /\ row.key = k
         /\ row.status = "Rate Limited" => now < told[k]
<1>1. cache[q][k] \in Entries \cup {None} /\ told[k] \in Nat /\ now \in Nat
  BY DEF CacheInv, Types
<1>2. row = cache[q][k].row /\ cache[q][k] # None /\ cache[q][k].until > now
  BY DEF Served, Alive
<1>3. cache[q][k].row \in Rows /\ cache[q][k].until \in Nat
  BY <1>1, <1>2 DEF Entries
<1>4. Filed(k)
  BY DEF CacheInv
<1>5. row.key = k
  BY <1>2, <1>4 DEF Filed
<1>6. row.status = "Rate Limited" => cache[q][k].until <= told[k]
  BY <1>2, <1>4 DEF Filed
<1>7. row.status = "Rate Limited" => now < told[k]
  <2> SUFFICES ASSUME row.status = "Rate Limited" PROVE now < told[k]
    OBVIOUS
  <2>1. PICK until \in Nat : until = cache[q][k].until
    BY <1>3
  <2>2. until <= told[k] /\ until > now
    BY <1>2, <1>6, <2>1
  <2>3. now \in Nat /\ told[k] \in Nat
    BY KeyBounded
  <2> QED
    BY <2>2, <2>3, LessThanTransitive
<1> QED
  BY <1>2, <1>3, <1>5, <1>7

LEMMA ReadCacheStep ==
  ASSUME CacheInv, NEW l \in Lookups, ReadCache(l)
  PROVE  CacheInv'
<1>1. at[l] = "cache" /\ UNCHANGED <<now, key, store, told>>
  BY DEF ReadCache
<1>2. my[l] \in Locals /\ Knows("cache", my[l], told)
  BY <1>1 DEF CacheInv, Types
<1>3. my[l].query \in Queries /\ my[l].key \in Keys
  BY <1>2 DEF Knows
<1>4. CASE Go(l, "cache", "cooldown", my[l])
  <2>1. Knows("cooldown", my[l], told) /\ "cooldown" \in Steps
    BY <1>2 DEF Knows, Steps
  <2> QED
    BY <1>1, <1>2, <1>4, <2>1, OneLooks
<1>5. ASSUME NEW row \in Served(my[l].query, my[l].key), Answer(l, "cache", row)
      PROVE  CacheInv'
  <2>1. row \in Rows /\ row.key = my[l].key
    BY <1>3, ServedIsFiled
  <2> QED
    BY <1>1, <1>5, <2>1, AnswerStep
<1> QED
  BY <1>4, <1>5 DEF ReadCache

LEMMA CheckCooldownStep ==
  ASSUME CacheInv, NEW l \in Lookups, CheckCooldown(l)
  PROVE  CacheInv'
<1>1. at[l] = "cooldown" /\ UNCHANGED <<now, key, store, told>>
  BY DEF CheckCooldown
<1>2. my[l] \in Locals /\ Knows("cooldown", my[l], told)
  BY <1>1 DEF CacheInv, Types
<1>3. my[l].query \in Queries /\ my[l].key \in Keys
  BY <1>2 DEF Knows
<1>4. CASE Cooling(my[l].key)
  <2> DEFINE row == Row("Rate Limited", my[l].key)
  <2>1. row \in Rows /\ row.key = my[l].key
    BY <1>3, RowTyped DEF Statuses
  <2>2. Answer(l, "cooldown", row)
    BY <1>4, Zenon DEF CheckCooldown
  <2> HIDE DEF row
  <2> QED
    BY <1>1, <2>1, <2>2, AnswerStep
<1>5. CASE ~Cooling(my[l].key)
  <2> DEFINE local == [my[l] EXCEPT !.wait = 0]
  <2>1. /\ local \in Locals /\ local.query = my[l].query
        /\ local.key = my[l].key /\ local.wait = 0
    BY <1>2 DEF Locals
  <2>2. Go(l, "cooldown", "ask", local)
    BY <1>5 DEF CheckCooldown
  <2>3. told[my[l].key] \in Nat
    BY <1>3 DEF CacheInv, Types
  <2> HIDE DEF local
  <2>4. local.wait <= told[local.key]
    BY <2>1, <2>3
  <2>5. Knows("ask", local, told) /\ "ask" \in Steps
    BY <1>3, <2>1, <2>4 DEF Knows, Steps
  <2> QED
    BY <1>1, <2>1, <2>2, <2>5, OneLooks
<1> QED
  BY <1>4, <1>5

LEMMA ReceiveStep ==
  ASSUME CacheInv, NEW l \in Lookups, Receive(l)
  PROVE  CacheInv'
<1>1. PICK status \in Statuses :
        /\ Go(l, "ask", IF status = "Rate Limited" THEN "cool down" ELSE "keep",
              [my[l] EXCEPT !.got = Row(status, my[l].key)])
        /\ UNCHANGED <<now, key, store, told>>
  BY DEF Receive
<1>2. my[l] \in Locals /\ Knows("ask", my[l], told)
  BY <1>1 DEF CacheInv, Types, Go
<1>3. my[l].query \in Queries /\ my[l].key \in Keys /\ my[l].wait <= told[my[l].key]
  BY <1>2 DEF Knows
<1> DEFINE row == Row(status, my[l].key)
           local == [my[l] EXCEPT !.got = row]
           to == IF status = "Rate Limited" THEN "cool down" ELSE "keep"
<1>4. row \in Rows /\ row.key = my[l].key /\ row.status = status
  BY <1>3, RowTyped
<1>5. Go(l, "ask", to, local)
  BY <1>1
<1> HIDE DEF row
<1>6. /\ local \in Locals /\ local.query = my[l].query /\ local.key = my[l].key
      /\ local.wait = my[l].wait /\ local.got = row
  BY <1>2, <1>4 DEF Locals
<1>7. to \in Steps /\ to \notin {"idle", "key"}
      /\ (to = "keep" => status # "Rate Limited")
  BY DEF Steps
<1> HIDE DEF local, to
<1>8. Knows(to, local, told)
  BY <1>3, <1>4, <1>6, <1>7 DEF Knows
<1> QED
  BY <1>1, <1>5, <1>6, <1>7, <1>8, OneLooks

LEMMA CoolDownStep ==
  ASSUME CacheInv, NEW l \in Lookups, NEW seconds \in 0..(LongestWait + 1),
         CoolDown(l, seconds)
  PROVE  CacheInv'
<1> DEFINE until == now + Wait(seconds)
           local == [my[l] EXCEPT !.until = until]
<1>1. /\ Go(l, "cool down", "keep", local)
      /\ cooldown' = [cooldown EXCEPT ![my[l].key] = until]
      /\ told' = [told EXCEPT ![my[l].key] = Longer(@, until)]
      /\ now' = now /\ key' = key /\ cache' = cache
  BY DEF CoolDown
<1>2. until \in Nat /\ until \in 0..(MaxTime + LongestWait)
  <2>1. Wait(seconds) \in 1..LongestWait
    BY WaitBounded
  <2>2. now \in 0..MaxTime
    BY DEF CacheInv, Types
  <2> QED
    BY <2>1, <2>2, LifetimesAreOrdered
<1>3. my[l] \in Locals /\ Knows("cool down", my[l], told)
  BY <1>1 DEF CacheInv, Types, Go
<1>4. /\ my[l].query \in Queries /\ my[l].key \in Keys /\ my[l].wait <= told[my[l].key]
      /\ my[l].got \in Rows /\ my[l].got.key = my[l].key /\ my[l].wait \in Nat
  BY <1>3 DEF Knows, Locals
<1> HIDE DEF until
<1>5. /\ local \in Locals /\ local.query = my[l].query /\ local.key = my[l].key
      /\ local.wait = my[l].wait /\ local.got = my[l].got /\ local.until = until
  BY <1>2, <1>3 DEF Locals
<1> HIDE DEF local
<1>6. PICK k \in Keys : k = my[l].key
  BY <1>4
<1>7. /\ told \in [Keys -> Nat] /\ cooldown \in [Keys -> 0..(MaxTime + LongestWait)]
      /\ cache \in [Queries -> [Keys -> Entries \cup {None}]]
  BY DEF CacheInv, Types
<1>8. /\ told' \in [Keys -> Nat] /\ \A o \in Keys : told[o] <= told'[o]
      /\ until <= told'[k]
  <2>1. Longer(told[k], until) \in Nat /\ told[k] <= Longer(told[k], until)
        /\ until <= Longer(told[k], until)
    BY <1>2, <1>7 DEF Longer
  <2>2. told' = [told EXCEPT ![k] = Longer(told[k], until)]
    BY <1>1, <1>6
  <2> QED
    BY <1>7, <2>1, <2>2
<1>9. /\ cooldown' \in [Keys -> 0..(MaxTime + LongestWait)]
      /\ cache' \in [Queries -> [Keys -> Entries \cup {None}]]
  BY <1>1, <1>2, <1>6, <1>7
<1>10. ASSUME NEW o \in Keys
       PROVE  Filed(o)'
  <2>1. Filed(o) /\ told[o] <= told'[o] /\ told[o] \in Nat /\ told'[o] \in Nat
    BY <1>7, <1>8 DEF CacheInv
  <2>2. cooldown'[o] <= told'[o]
    <3>1. CASE o = k
      BY <1>1, <1>6, <1>7, <1>8, <3>1
    <3>2. CASE o # k
      <4>1. cooldown'[o] = cooldown[o]
        BY <1>1, <1>6, <1>7, <3>2
      <4>2. cooldown[o] \in Nat /\ cooldown[o] <= told[o]
        BY KeyBounded
      <4> QED
        BY <2>1, <4>1, <4>2
    <3> QED
      BY <3>1, <3>2
  <2>3. ASSUME NEW q \in Queries, cache[q][o] # None
        PROVE  /\ cache[q][o].row.key = o
               /\ cache[q][o].row.status = "Rate Limited" => cache[q][o].until <= told'[o]
    <3>1. cache[q][o] \in Entries
      BY <1>7, <2>3
    <3>2. cache[q][o].until \in Nat
      BY <3>1 DEF Entries
    <3>3. /\ cache[q][o].row.key = o
          /\ cache[q][o].row.status = "Rate Limited" => cache[q][o].until <= told[o]
      BY <2>1, <2>3 DEF Filed
    <3>4. cache[q][o].until <= told[o] => cache[q][o].until <= told'[o]
      BY <2>1, <3>2
    <3> QED
      BY <3>3, <3>4
  <2> QED
    BY <1>1, <2>2, <2>3 DEF Filed
<1>11. local.wait <= told'[local.key] /\ local.until <= told'[local.key]
  <2>1. told[k] \in Nat /\ told'[k] \in Nat /\ told[k] <= told'[k]
    BY <1>7, <1>8
  <2>2. my[l].wait <= told[k]
    BY <1>4, <1>6
  <2> QED
    BY <1>4, <1>5, <1>6, <1>8, <2>1, <2>2
<1>12. Knows("keep", local, told') /\ "keep" \in Steps
  BY <1>4, <1>5, <1>11 DEF Knows, Steps
<1> QED
  BY <1>1, <1>5, <1>8, <1>9, <1>10, <1>12, OneMoves

LEMMA KeepStep ==
  ASSUME CacheInv, NEW l \in Lookups, Keep(l)
  PROVE  CacheInv'
<1> DEFINE entry == [row |-> my[l].got, until |-> Expiry(my[l].got, my[l].until)]
           local == [Blank EXCEPT !.key = my[l].key, !.answer = my[l].got]
<1>1. /\ at[l] = "keep" /\ Answer(l, "keep", my[l].got)
      /\ now' = now /\ key' = key /\ cooldown' = cooldown /\ told' = told
      /\ cache' = cache \/ cache' = [cache EXCEPT ![my[l].query][my[l].key] = entry]
  BY DEF Keep
<1>2. my[l] \in Locals /\ Knows("keep", my[l], told)
  BY <1>1 DEF CacheInv, Types
<1>3. my[l].until \in Nat /\ now \in Nat
  BY <1>2 DEF CacheInv, Types, Locals
<1>4. /\ my[l].query \in Queries /\ my[l].key \in Keys
      /\ my[l].got \in Rows /\ my[l].got.key = my[l].key
      /\ my[l].got.status = "Rate Limited" => my[l].until <= told[my[l].key]
  BY <1>2 DEF Knows
<1>5. Expiry(my[l].got, my[l].until) \in Nat
      /\ (my[l].got.status = "Rate Limited" => Expiry(my[l].got, my[l].until) = my[l].until)
  <2>1. now + Lifetime \in Nat /\ now + ErrorLifetime \in Nat
    BY <1>3, LifetimesAreOrdered
  <2> QED
    BY <1>3, <2>1 DEF Expiry
<1>6. /\ entry \in Entries /\ entry.row = my[l].got
      /\ entry.until = Expiry(my[l].got, my[l].until)
  BY <1>4, <1>5 DEF Entries
<1>7. local \in Locals /\ local.key = my[l].key /\ local.answer = my[l].got
  BY <1>4, AnswerTyped
<1>8. Go(l, "keep", "idle", local)
  BY <1>1 DEF Answer
<1> HIDE DEF entry, local
<1>9. /\ told \in [Keys -> Nat] /\ cooldown \in [Keys -> 0..(MaxTime + LongestWait)]
      /\ cache \in [Queries -> [Keys -> Entries \cup {None}]]
  BY DEF CacheInv, Types
<1>10. cache' \in [Queries -> [Keys -> Entries \cup {None}]]
  <2>1. CASE cache' = cache
    BY <1>9, <2>1
  <2>2. CASE cache' = [cache EXCEPT ![my[l].query][my[l].key] = entry]
    <3>1. [cache[my[l].query] EXCEPT ![my[l].key] = entry] \in [Keys -> Entries \cup {None}]
      BY <1>4, <1>6, <1>9
    <3> QED
      BY <1>4, <1>9, <2>2, <3>1
  <2> QED
    BY <1>1, <2>1, <2>2
<1>11. ASSUME NEW o \in Keys
       PROVE  Filed(o)'
  <2>1. Filed(o)
    BY DEF CacheInv
  <2>2. ASSUME NEW q \in Queries, cache'[q][o] # None
        PROVE  /\ cache'[q][o].row.key = o
               /\ cache'[q][o].row.status = "Rate Limited" => cache'[q][o].until <= told[o]
    <3>1. CASE cache'[q][o] = cache[q][o]
      BY <2>1, <2>2, <3>1 DEF Filed
    <3>2. CASE o = my[l].key /\ cache'[q][o] = entry
      BY <1>4, <1>5, <1>6, <3>2
    <3>3. cache'[q][o] = cache[q][o] \/ (o = my[l].key /\ cache'[q][o] = entry)
      <4>1. CASE cache' = cache
        BY <4>1
      <4>2. CASE cache' = [cache EXCEPT ![my[l].query][my[l].key] = entry]
        BY <1>4, <1>9, <4>2
      <4> QED
        BY <1>1, <4>1, <4>2
    <3> QED
      BY <3>1, <3>2, <3>3
  <2> QED
    BY <1>1, <2>1, <2>2 DEF Filed
<1>12. Knows("idle", local, told) /\ "idle" \in Steps
  BY <1>4, <1>7 DEF Knows, Steps
<1>13. \A o \in Keys : told[o] <= told'[o]
  BY <1>1, <1>9
<1> QED
  BY <1>1, <1>7, <1>8, <1>9, <1>10, <1>11, <1>12, <1>13, OneMoves

LEMMA CacheStep == CacheInv /\ [Next]_vars => CacheInv'
<1> SUFFICES ASSUME CacheInv, [Next]_vars PROVE CacheInv'
  OBVIOUS
<1>1. CASE Next
  BY <1>1, TimeAndKey, BeginStep, ReadKeyStep, ReadCacheStep, CheckCooldownStep,
     ReceiveStep, CoolDownStep, KeepStep DEF Next, LookupProvider
<1>2. CASE UNCHANGED vars
  BY <1>2 DEF CacheInv, Types, Filed, vars, store
<1> QED
  BY <1>1, <1>2

LEMMA CacheInvariant == Spec => []CacheInv
<1> QED
  BY CacheInit, CacheStep, PTL DEF Spec

----------------------------------------------------------------------------

\* The state is well formed: no cooldown lasts longer than the longest wait.
THEOREM CacheTypeCorrect == Spec => []TypeOK
<1>1. CacheInv => TypeOK
  BY DEF CacheInv, Types, TypeOK
<1> QED
  BY <1>1, CacheInvariant, PTL

\* A lookup answers what was obtained with the key it read (providers.py:110),
\* however many lookups run while the key is rotated.
THEOREM AnswersAreForTheirKey == Spec => []AnsweredForItsKey
<1>1. CacheInv => AnsweredForItsKey
  BY DEF CacheInv, Knows, AnsweredForItsKey, Answered
<1> QED
  BY <1>1, CacheInvariant, PTL

\* No lookup asks the provider before the wait that its key had been told, unless
\* a request under way shortened it (providers.py:119-122).
THEOREM CooldownIsRespected == Spec => RespectsCooldown
<1>1. ASSUME CacheInv, Next, NEW l \in Lookups, at[l] = "cooldown", at'[l] = "ask"
      PROVE  my[l].wait <= now \/ cooldown[my[l].key] < told[my[l].key]
  <2>1. at[l] # at'[l] /\ at \in [Lookups -> Steps]
    BY <1>1 DEF CacheInv, Types
  <2>2. ~Cooling(my[l].key)
    BY <1>1, <2>1 DEF Next, Tick, RemoveKey, SaveKey, LookupProvider, Begin, ReadKey,
       ReadCache, CheckCooldown, Receive, CoolDown, Keep, Answer, Go
  <2>3. my[l] \in Locals /\ Knows("cooldown", my[l], told)
    BY <1>1 DEF CacheInv, Types
  <2>4. my[l].key \in Keys /\ my[l].wait \in Nat /\ my[l].wait <= told[my[l].key]
    BY <2>3 DEF Knows, Locals
  <2>5. /\ told[my[l].key] \in Nat /\ cooldown[my[l].key] \in Nat /\ now \in Nat
        /\ cooldown[my[l].key] <= told[my[l].key]
    BY <1>1, <2>4, KeyBounded
  <2>6. cooldown[my[l].key] <= now
    BY <2>2, <2>5 DEF Cooling
  <2> QED
    BY <2>4, <2>5, <2>6
<1>2. CacheInv /\ [Next]_vars =>
        [\A l \in Lookups : (at[l] = "cooldown" /\ at'[l] = "ask") =>
            \/ my[l].wait <= now
            \/ cooldown[my[l].key] < told[my[l].key]]_vars
  BY <1>1
<1> QED
  BY <1>2, CacheInvariant, PTL DEF Spec, RespectsCooldown

\* No lookup reports a rate limit that is over (providers.py:117, 122, 181).
THEOREM OldLimitsAreForgotten == Spec => ReportsNoOldLimit
<1>1. ASSUME CacheInv, Next, NEW l \in Lookups, at[l] \notin {"idle", "keep"},
             at'[l] = "idle", my'[l].answer.status = "Rate Limited"
      PROVE  now < told[my[l].key]
  <2>1. my \in [Lookups -> Locals] /\ at \in [Lookups -> Steps]
    BY <1>1 DEF CacheInv, Types
  <2>2. \A from : \A row \in Rows : Answer(l, from, row) => my'[l].answer = row
    <3>1. ASSUME NEW from, NEW row \in Rows, Answer(l, from, row)
          PROVE  my'[l].answer = row
      <4>1. my[l].key \in Keys \cup {NoKey}
        BY <2>1 DEF Locals
      <4> DEFINE local == [Blank EXCEPT !.key = my[l].key, !.answer = row]
      <4>2. local.answer = row
        BY <4>1, AnswerTyped
      <4>3. my'[l] = local
        BY <2>1, <3>1 DEF Answer, Go
      <4> HIDE DEF local
      <4> QED
        BY <4>2, <4>3
    <3> QED
      BY <3>1
  <2>3. ReadKey(l) \/ ReadCache(l) \/ CheckCooldown(l)
    <3>1. at' # at /\ at'[l] # at[l]
      BY <1>1
    <3>2. PICK o \in Lookups : LookupProvider(o)
      BY <1>1, <3>1 DEF Next, Tick, RemoveKey, SaveKey
    <3>3. o = l
      <4>1. \A from, to, local : Go(o, from, to, local) => at' = [at EXCEPT ![o] = to]
        BY DEF Go
      <4>2. \E to : at' = [at EXCEPT ![o] = to]
        BY <3>2, <4>1, Zenon DEF LookupProvider, Begin, ReadKey, ReadCache, CheckCooldown,
           Receive, CoolDown, Keep, Answer
      <4> QED
        BY <2>1, <3>1, <4>2
    <3>4. \A q \in Queries : ~Begin(l, q)
      BY <1>1, Zenon DEF Begin, Go
    <3>5. ~Receive(l) /\ \A seconds : ~CoolDown(l, seconds)
      BY <1>1, <2>1 DEF Receive, CoolDown, Go
    <3>6. ~Keep(l)
      BY <1>1 DEF Keep
    <3> QED
      BY <3>2, <3>3, <3>4, <3>5, <3>6, Zenon DEF LookupProvider
  <2>4. CASE ReadKey(l)
    <3>1. Row("Unavailable", NoKey) \in Rows
          /\ Row("Unavailable", NoKey).status = "Unavailable"
      BY RowTyped DEF Statuses
    <3>2. Answer(l, "key", Row("Unavailable", NoKey))
      BY <1>1, <2>1, <2>4 DEF ReadKey, Go
    <3> QED
      BY <1>1, <2>2, <3>1, <3>2
  <2>5. CASE ReadCache(l)
    <3>1. PICK row \in Served(my[l].query, my[l].key) : Answer(l, "cache", row)
      BY <1>1, <2>1, <2>5 DEF ReadCache, Go
    <3>2. Knows("cache", my[l], told)
      BY <1>1, <2>5 DEF CacheInv, ReadCache
    <3>3. my[l].query \in Queries /\ my[l].key \in Keys
      BY <3>2 DEF Knows
    <3>4. row \in Rows /\ (row.status = "Rate Limited" => now < told[my[l].key])
      BY <1>1, <3>3, ServedIsFiled
    <3> QED
      BY <1>1, <2>2, <3>1, <3>4
  <2>6. CASE CheckCooldown(l)
    <3>1. Cooling(my[l].key)
      BY <1>1, <2>1, <2>6 DEF CheckCooldown, Go
    <3>2. Knows("cooldown", my[l], told)
      BY <1>1, <2>6 DEF CacheInv, CheckCooldown
    <3>3. my[l].key \in Keys
      BY <3>2 DEF Knows
    <3>4. /\ told[my[l].key] \in Nat /\ cooldown[my[l].key] \in Nat /\ now \in Nat
          /\ cooldown[my[l].key] <= told[my[l].key]
      BY <1>1, <3>3, KeyBounded
    <3> QED
      BY <3>1, <3>4 DEF Cooling
  <2> QED
    BY <2>3, <2>4, <2>5, <2>6
<1>2. CacheInv /\ [Next]_vars =>
        [\A l \in Lookups :
            (at[l] \notin {"idle", "keep"} /\ at'[l] = "idle"
                /\ my'[l].answer.status = "Rate Limited") => now < told[my[l].key]]_vars
  BY <1>1
<1> QED
  BY <1>2, CacheInvariant, PTL DEF Spec, ReportsNoOldLimit
=============================================================================
