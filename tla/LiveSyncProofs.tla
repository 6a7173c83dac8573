--------------------------- MODULE LiveSyncProofs ---------------------------
(***************************************************************************)
(* For any number of messages, versions, failures, and any size of a poll, *)
(* of the poller's memory and of the queues: what the poller knows as the  *)
(* server has it is in the cache, or comes to it with nothing older behind *)
(* it.  That it gets there is liveness, and TLC's.                         *)
(***************************************************************************)
EXTENDS LiveSync, Integers, FiniteSetTheorems, TLAPS

\* A function on 1..n is a sequence of length n.
LEMMA SeqOf ==
    ASSUME NEW S, NEW n \in Nat, NEW f \in [1 .. n -> S]
    PROVE  f \in Seq(S) /\ Len(f) = n
OBVIOUS

\* Append keeps what was there and adds one at the end.
LEMMA AppendOf ==
    ASSUME NEW S, NEW s \in Seq(S), NEW x \in S
    PROVE  LET t == Append(s, x)
           IN  /\ t \in Seq(S) /\ Len(s) \in Nat /\ Len(t) = Len(s) + 1
               /\ DOMAIN s = 1 .. Len(s) /\ DOMAIN t = 1 .. (Len(s) + 1)
               /\ t[Len(s) + 1] = x
               /\ \A i \in 1 .. Len(s) : t[i] = s[i]
OBVIOUS

\* Tail drops the first and moves the others down.
LEMMA TailOf ==
    ASSUME NEW S, NEW s \in Seq(S), s # <<>>
    PROVE  LET t == Tail(s)
           IN  /\ t \in Seq(S) /\ Len(s) \in Nat \ {0} /\ Len(t) = Len(s) - 1
               /\ DOMAIN s = 1 .. Len(s) /\ DOMAIN t = 1 .. (Len(s) - 1)
               /\ Head(s) = s[1] /\ Head(s) \in S
               /\ \A i \in 1 .. (Len(s) - 1) : t[i] = s[i + 1]
OBVIOUS

\* There are n numbers from 1 to n.
LEMMA UpTo ==
    ASSUME NEW n \in Nat
    PROVE  IsFiniteSet(1 .. n) /\ Cardinality(1 .. n) = n
<1>1. /\ IsFiniteSet(1 .. n)
      /\ 1 > n => Cardinality(1 .. n) = 0
      /\ ~(1 > n) => Cardinality(1 .. n) = n - 1 + 1
  <2>1. 1 \in Int /\ n \in Int
    OBVIOUS
  <2>2. QED
    BY <2>1, FS_Interval, Zenon
<1> DEFINE size == Cardinality(1 .. n)
<1>2. /\ 1 > n => size = 0
      /\ ~(1 > n) => size = n - 1 + 1
  BY <1>1
<1> HIDE DEF size
<1>3. size = n
  BY <1>2
<1>4. QED
  BY <1>1, <1>3, Zenon DEF size

-----------------------------------------------------------------------------
(* The server, a poll and what the poller remembers.                        *)

\* Messages are numbered as they appear.
Upto(n) == \A m \in Messages : server[m] # 0 <=> m <= n

Numbered == \E n \in 0..MaxMessages : Upto(n)

\* Who is told of a message is told of one that is there.
Told == /\ \A m \in calls : server[m] # 0
        /\ \A i \in DOMAIN hooks : server[hooks[i]] # 0

Once(copies) == \A i, j \in DOMAIN copies : i # j => copies[i].id # copies[j].id

Types == TypeOK /\ Numbered /\ Told /\ Once(seen)

LEMMA CountIs ==
    ASSUME NEW n \in 0..MaxMessages, Upto(n)
    PROVE  Count = n
<1>1. {m \in Messages : server[m] # 0} = 1..n
  <2>1. MaxMessages \in Nat /\ n \in Nat /\ n <= MaxMessages
    BY LiveAssumption
  <2>2. \A m \in Messages : m \in 1..MaxMessages /\ (server[m] # 0 <=> m <= n)
    BY DEF Messages, Upto
  <2>3. \A m \in 1..n : m \in Messages
    BY <2>1 DEF Messages
  <2>4. QED
    BY <2>1, <2>2, <2>3
<1>2. n \in Nat
  BY LiveAssumption
<1>3. Count = Cardinality(1..n)
  BY <1>1 DEF Count
<1>4. QED
  BY <1>2, <1>3, UpTo

LEMMA NewestAre ==
    ASSUME NEW n \in 0..MaxMessages, Upto(n), NEW limit \in Nat
    PROVE  LET k == Cardinality(Newest(limit))
           IN  /\ k \in Nat /\ k <= limit /\ k <= n
               /\ \A m \in Newest(limit) : m \in Messages /\ server[m] # 0
<1> DEFINE a == IF n <= limit THEN 1 ELSE n - limit + 1
<1>1. n \in Nat /\ a \in Int /\ a >= 1
  BY LiveAssumption
<1>2. Newest(limit) = a..n
  <2>1. Newest(limit) = {m \in Messages : server[m] # 0 /\ m + limit > n}
    BY CountIs DEF Newest
  <2>2. \A m \in Messages : m \in Nat /\ m >= 1 /\ (server[m] # 0 <=> m <= n)
    BY DEF Messages, Upto
  <2>3. \A m \in a..n : m \in Messages
    BY <1>1, LiveAssumption DEF Messages
  <2>4. QED
    BY <1>1, <2>1, <2>2, <2>3
<1>3. /\ a > n => Cardinality(a..n) = 0
      /\ ~(a > n) => Cardinality(a..n) = n - a + 1
  <2> HIDE DEF a
  <2>1. n \in Int
    BY <1>1
  <2>2. QED
    BY <1>1, <2>1, FS_Interval, Zenon
<1> DEFINE k == Cardinality(a..n)
<1>4. /\ a > n => k = 0
      /\ ~(a > n) => k = n - a + 1
  BY <1>3
<1> HIDE DEF k
<1>5. k \in Nat /\ k <= limit /\ k <= n
  BY <1>1, <1>4
<1>6. \A m \in Newest(limit) : m \in Messages /\ server[m] # 0
  BY DEF Newest
<1>7. QED
  BY <1>2, <1>5, <1>6 DEF k

LEMMA CopyFits ==
    ASSUME TypeOK, NEW m \in Messages, server[m] # 0
    PROVE  Copy(m) \in Copies /\ Copy(m).id = m /\ Copy(m).version = server[m]
BY LiveAssumption DEF TypeOK, Copy, Copies, Versions

\* What forgetting a guid leaves.
Leaves(copies, rest, id) ==
    /\ rest \in Seq(Copies) /\ Once(rest) /\ Len(rest) <= Len(copies)
    /\ \A i \in DOMAIN rest : \E j \in DOMAIN copies : rest[i] = copies[j] /\ copies[j].id # id

LEMMA WithoutCopy ==
    ASSUME NEW copies \in Seq(Copies), Once(copies), NEW id
    PROVE  Leaves(copies, Without(copies, id), id)
<1> DEFINE rest == Without(copies, id)
           N == Len(copies)
<1>0. N \in Nat /\ DOMAIN copies = 1..N /\ \A i \in 1..N : copies[i] \in Copies
  OBVIOUS
<1>1. CASE \A i \in DOMAIN copies : copies[i].id # id
  <2>1. rest = copies
    BY <1>1 DEF Without
  <2> HIDE DEF rest
  <2>2. QED
    BY <1>0, <1>1, <2>1 DEF rest, Leaves
<1>2. CASE \E i \in DOMAIN copies : copies[i].id = id
  <2> DEFINE gone == CHOOSE i \in DOMAIN copies : copies[i].id = id
             from(i) == IF i < gone THEN i ELSE i + 1
  <2>1. gone \in 1..N /\ copies[gone].id = id /\ N - 1 \in Nat
    BY <1>0, <1>2
  <2>2. rest = [i \in 1..(N - 1) |-> copies[from(i)]]
    BY <1>2 DEF Without
  <2> HIDE DEF rest, gone
  <2>3. \A i \in 1..(N - 1) : from(i) \in 1..N /\ from(i) # gone
    BY <1>0, <2>1
  <2>4. \A i, j \in 1..(N - 1) : i # j => from(i) # from(j)
    BY <1>0, <2>1
  <2> HIDE DEF from
  <2>5. /\ rest \in [1..(N - 1) -> Copies] /\ DOMAIN rest = 1..(N - 1)
        /\ \A i \in 1..(N - 1) : rest[i] = copies[from(i)]
    BY <1>0, <2>2, <2>3
  <2>6. rest \in Seq(Copies) /\ Len(rest) = N - 1
    BY <2>1, <2>5, SeqOf
  <2>7. Once(rest)
    BY <1>0, <2>3, <2>4, <2>5 DEF Once
  <2>8. \A i \in DOMAIN rest : \E j \in DOMAIN copies : rest[i] = copies[j] /\ copies[j].id # id
    BY <1>0, <2>1, <2>3, <2>5 DEF Once
  <2>9. QED
    BY <1>0, <2>6, <2>7, <2>8 DEF rest, Leaves
<1>3. QED
  BY <1>1, <1>2

\* What remembering a copy makes of what was remembered.
Holds(entries, copy) ==
    /\ entries \in Seq(Copies) /\ Len(entries) <= SeenMax /\ Once(entries)
    /\ \A i \in DOMAIN entries :
          entries[i] = copy \/ \E j \in DOMAIN seen : entries[i] = seen[j] /\ seen[j].id # copy.id

LEMMA Remembering ==
    ASSUME Types, NEW copy \in Copies
    PROVE  Remembered(copy) = seen \/ Holds(Remembered(copy), copy)
<1> DEFINE others == Without(seen, copy.id)
           longer == Append(others, copy)
<1>0. seen \in Seq(Copies) /\ Len(seen) <= SeenMax /\ Once(seen) /\ SeenMax \in Nat
  BY LiveAssumption DEF Types, TypeOK
<1>1. CASE \E i \in DOMAIN seen : seen[i] = copy
  BY <1>1 DEF Remembered
<1>2. CASE ~ \E i \in DOMAIN seen : seen[i] = copy
  <2>1. Leaves(seen, others, copy.id)
    BY <1>0, WithoutCopy
  <2>2. Remembered(copy) = (IF Len(longer) > SeenMax THEN Tail(longer) ELSE longer)
    BY <1>2 DEF Remembered
  <2> HIDE DEF others
  <2>3. /\ longer \in Seq(Copies) /\ Len(others) \in Nat /\ Len(longer) = Len(others) + 1
        /\ DOMAIN others = 1..Len(others) /\ DOMAIN longer = 1..(Len(others) + 1)
        /\ longer[Len(others) + 1] = copy
        /\ \A i \in 1..Len(others) : longer[i] = others[i]
    BY <2>1, AppendOf DEF Leaves
  <2>4. Len(others) <= SeenMax /\ Len(seen) \in Nat
    BY <1>0, <2>1, <2>3 DEF Leaves
  <2> HIDE DEF longer
  <2>5. \A i \in DOMAIN longer : i = Len(others) + 1 \/ i \in DOMAIN others
    BY <2>3
  <2>6. \A i \in DOMAIN longer :
           longer[i] = copy \/ \E j \in DOMAIN seen : longer[i] = seen[j] /\ seen[j].id # copy.id
    BY <2>1, <2>3, <2>5 DEF Leaves
  <2>7. Once(longer)
    <3>1. \A i \in DOMAIN others : others[i].id # copy.id
      BY <2>1 DEF Leaves
    <3>2. QED
      BY <2>1, <2>3, <2>5, <3>1 DEF Leaves, Once
  <2>8. CASE Len(longer) > SeenMax
    <3> DEFINE rest == Tail(longer)
    <3>1. /\ rest \in Seq(Copies) /\ Len(rest) = Len(longer) - 1
          /\ DOMAIN rest = 1..(Len(longer) - 1)
          /\ \A i \in 1..(Len(longer) - 1) : rest[i] = longer[i + 1]
      BY <2>3, TailOf
    <3>2. \A i \in 1..(Len(longer) - 1) : i + 1 \in DOMAIN longer
      BY <2>3
    <3>3. Remembered(copy) = rest
      BY <2>2, <2>8
    <3> HIDE DEF rest
    <3>4. Len(rest) <= SeenMax
      BY <1>0, <2>3, <2>4, <3>1
    <3>5. \A i, j \in 1..(Len(longer) - 1) : i # j => i + 1 # j + 1
      OBVIOUS
    <3>6. Once(rest)
      BY <2>7, <3>1, <3>2, <3>5 DEF Once
    <3>7. Holds(rest, copy)
      BY <2>6, <3>1, <3>2, <3>4, <3>6 DEF Holds
    <3>8. QED
      BY <3>3, <3>7
  <2>9. CASE ~(Len(longer) > SeenMax)
    <3>1. Remembered(copy) = longer /\ Len(longer) <= SeenMax
      BY <1>0, <2>2, <2>3, <2>9
    <3>2. Holds(longer, copy)
      BY <2>3, <2>6, <2>7, <3>1 DEF Holds
    <3>3. QED
      BY <3>1, <3>2
  <2>10. QED
    BY <2>8, <2>9
<1>3. QED
  BY <1>1, <1>2

-----------------------------------------------------------------------------
(* Types.                                                                   *)

LEMMA Changes ==
    ASSUME Types, NEW m \in Messages, Change(m)
    PROVE  /\ server' \in [Messages -> 0..MaxVersions]
           /\ server'[m] = server[m] + 1 /\ server[m] \in Nat
           /\ \A k \in Messages : k # m => server'[k] = server[k]
           /\ Numbered'
<1>1. /\ server \in [Messages -> 0..MaxVersions] /\ MaxVersions \in Nat /\ MaxMessages \in Nat
      /\ server' = [server EXCEPT ![m] = @ + 1] /\ server[m] < MaxVersions /\ m <= Count + 1
  BY LiveAssumption DEF Types, TypeOK, Change
<1>2. server[m] \in 0..MaxVersions /\ m \in 1..MaxMessages
  BY <1>1 DEF Messages
<1>3. /\ server' \in [Messages -> 0..MaxVersions]
      /\ server'[m] = server[m] + 1 /\ server[m] \in Nat
      /\ \A k \in Messages : k # m => server'[k] = server[k]
  BY <1>1, <1>2
<1>4. PICK n \in 0..MaxMessages : Upto(n)
  BY DEF Types, Numbered
<1>5. n \in Nat /\ \A k \in Messages : k \in Nat
  BY <1>1 DEF Messages
<1>6. m <= n + 1
  BY <1>1, <1>4, CountIs
<1>7. CASE m <= n
  <2>1. \A k \in Messages : server'[k] # 0 <=> k <= n
    BY <1>3, <1>4, <1>7 DEF Upto
  <2>2. QED
    BY <1>3, <2>1 DEF Numbered, Upto
<1>8. CASE ~(m <= n)
  <2>1. m = n + 1 /\ m \in 0..MaxMessages
    BY <1>1, <1>2, <1>5, <1>6, <1>8
  <2>2. \A k \in Messages : k <= n + 1 <=> k <= n \/ k = n + 1
    BY <1>5
  <2>3. \A k \in Messages : server'[k] # 0 <=> k <= m
    BY <1>3, <1>4, <2>1, <2>2 DEF Upto
  <2>4. QED
    BY <1>3, <2>1, <2>3 DEF Numbered, Upto
<1>9. QED
  BY <1>3, <1>7, <1>8

\* What a poll reads.
LEMMA Polled ==
    ASSUME Types, Poll
    PROVE  /\ batch' \in Seq(Copies) /\ Len(batch') <= PollLimit
           /\ \A i \in DOMAIN batch' : \E m \in Messages : server[m] # 0 /\ batch'[i] = Copy(m)
<1>1. PICK n \in 0..MaxMessages : Upto(n)
  BY DEF Types, Numbered
<1> DEFINE k == Cardinality(Newest(PollLimit))
           f == [i \in 1..k |-> Copy(n - k + i)]
<1>2. k \in Nat /\ k <= PollLimit /\ k <= n
  BY <1>1, NewestAre, LiveAssumption
<1>3. batch' = f
  BY <1>1, CountIs DEF Poll
<1> HIDE DEF k
<1>4. ASSUME NEW i \in 1..k PROVE n - k + i \in Messages /\ server[n - k + i] # 0
  <2>1. n - k + i \in 1..MaxMessages /\ n - k + i <= n
    BY <1>2, LiveAssumption
  <2>2. QED
    BY <1>1, <2>1 DEF Upto, Messages
<1>5. \A i \in 1..k : Copy(n - k + i) \in Copies
  BY <1>4, CopyFits DEF Types
<1>6. f \in [1..k -> Copies] /\ DOMAIN f = 1..k
  BY <1>5
<1>7. \A i \in DOMAIN f : \E m \in Messages : server[m] # 0 /\ f[i] = Copy(m)
  BY <1>4, <1>6
<1> HIDE DEF f
<1>8. f \in Seq(Copies) /\ Len(f) = k
  BY <1>2, <1>6, SeqOf
<1>9. QED
  BY <1>2, <1>3, <1>7, <1>8

\* What the loop stores.
LEMMA Stored ==
    ASSUME Types, Store
    PROVE  /\ cache' \in [Messages -> 0..MaxVersions]
           /\ \A m \in Messages :
                 \/ \E c \in held : c.id = m /\ cache'[m] = c.version
                 \/ cache'[m] = cache[m] /\ \A c \in held : c.id # m
<1> DEFINE of(m) == CHOOSE c \in held : c.id = m
           now(m) == IF \E c \in held : c.id = m THEN of(m).version ELSE cache[m]
<1>1. cache' = [m \in Messages |-> now(m)]
  BY DEF Store
<1>2. /\ cache \in [Messages -> 0..MaxVersions] /\ MaxVersions \in Nat
      /\ \A c \in held : c.id \in Messages /\ c.version \in 0..MaxVersions
  BY LiveAssumption DEF Types, TypeOK, Copies, Versions
<1>3. ASSUME NEW m \in Messages
      PROVE  \/ \E c \in held : c.id = m /\ now(m) = c.version
             \/ now(m) = cache[m] /\ \A c \in held : c.id # m
  OBVIOUS
<1>4. \A m \in Messages : now(m) \in 0..MaxVersions
  <2> HIDE DEF now
  <2>1. QED
    BY <1>2, <1>3
<1> HIDE DEF now
<1>5. QED
  BY <1>1, <1>3, <1>4

LEMMA TypesStep ==
    ASSUME Types, [Next]_vars
    PROVE  Types'
<1>0. /\ TypeOK /\ Numbered /\ Told /\ Once(seen)
      /\ MaxVersions \in Nat /\ MaxMessages \in Nat /\ MaxFailures \in Nat
      /\ PollLimit \in Nat /\ ChannelMax \in Nat /\ HookMax \in Nat /\ SeenMax \in Nat
  BY LiveAssumption DEF Types
<1>1. ASSUME UNCHANGED server PROVE Numbered'
  BY <1>0, <1>1 DEF Numbered, Upto
<1>2. ASSUME NEW m \in Messages, Change(m) PROVE Types'
  <2>1. /\ server' \in [Messages -> 0..MaxVersions] /\ Numbered' /\ server'[m] # 0
        /\ \A k \in Messages : server[k] # 0 => server'[k] # 0
    BY <1>2, Changes
  <2>2. UNCHANGED <<phase, failures, prefetched, batch, seen, channel, hooks, held, cache>>
        /\ calls' = calls \cup {m}
    BY <1>2 DEF Change, poller
  <2>3. TypeOK'
    BY <1>0, <2>1, <2>2 DEF TypeOK
  <2>4. \A i \in DOMAIN hooks : hooks[i] \in Messages
    BY <1>0 DEF TypeOK
  <2>5. Told'
    BY <1>0, <2>1, <2>2, <2>4 DEF Told, TypeOK
  <2>6. QED
    BY <1>0, <2>1, <2>2, <2>3, <2>5 DEF Types
<1>3. ASSUME NEW m \in Messages, HookAccepted(m) PROVE Types'
  <2>1. /\ m \in calls /\ Len(hooks) < HookMax /\ hooks' = Append(hooks, m) /\ calls' \subseteq calls
        /\ UNCHANGED <<server, phase, failures, prefetched, batch, seen, channel, held, cache>>
    BY <1>3 DEF HookAccepted, poller
  <2>2. /\ hooks' \in Seq(Messages) /\ Len(hooks) \in Nat /\ Len(hooks') = Len(hooks) + 1
        /\ DOMAIN hooks = 1..Len(hooks) /\ DOMAIN hooks' = 1..(Len(hooks) + 1)
        /\ hooks'[Len(hooks) + 1] = m /\ \A i \in 1..Len(hooks) : hooks'[i] = hooks[i]
    BY <1>0, <2>1, AppendOf DEF TypeOK
  <2>3. Len(hooks') <= HookMax
    BY <1>0, <2>1, <2>2
  <2>4. TypeOK'
    BY <1>0, <2>1, <2>2, <2>3 DEF TypeOK
  <2>5. \A i \in DOMAIN hooks' : i = Len(hooks) + 1 \/ i \in DOMAIN hooks
    BY <2>2
  <2>6. Told'
    BY <1>0, <2>1, <2>2, <2>5 DEF Told
  <2>7. QED
    BY <1>0, <1>1, <2>1, <2>4, <2>6 DEF Types
<1>4. CASE (\E m \in Messages : HookLost(m)) \/ Connect \/ PrefetchFails
  <2>1. /\ calls' \subseteq calls /\ phase' \in {"down", "prefetch", "live"} /\ prefetched' \in BOOLEAN
        /\ UNCHANGED <<server, failures, batch, seen, channel, hooks, held, cache>>
    BY <1>0, <1>4 DEF HookLost, Connect, PrefetchFails, external, poller, TypeOK
  <2>2. TypeOK' /\ Told'
    BY <1>0, <2>1 DEF TypeOK, Told
  <2>3. QED
    BY <1>0, <1>1, <2>1, <2>2 DEF Types
<1>5. CASE PrefetchRead
  <2>1. /\ held' = {Copy(m) : m \in Newest(PrefetchLimit)} /\ prefetched' = TRUE
        /\ phase' \in {"down", "prefetch", "live"}
        /\ UNCHANGED <<server, calls, failures, batch, seen, channel, hooks, cache>>
    BY <1>0, <1>5 DEF PrefetchRead, external, poller, TypeOK
  <2>2. \A m \in Newest(PrefetchLimit) : m \in Messages /\ server[m] # 0
    BY DEF Newest
  <2>3. held' \subseteq Copies
    BY <1>0, <2>1, <2>2, CopyFits
  <2>4. TypeOK' /\ Told'
    BY <1>0, <2>1, <2>3 DEF TypeOK, Told
  <2>5. QED
    BY <1>0, <1>1, <2>1, <2>4 DEF Types
<1>6. CASE Store
  <2>1. /\ held' = {} /\ phase' = "live"
        /\ UNCHANGED <<server, calls, failures, prefetched, batch, seen, channel, hooks>>
    BY <1>6 DEF Store, external, poller
  <2>2. cache' \in [Messages -> 0..MaxVersions]
    BY <1>6, Stored
  <2>3. TypeOK' /\ Told'
    BY <1>0, <2>1, <2>2 DEF TypeOK, Told
  <2>4. QED
    BY <1>0, <1>1, <2>1, <2>3 DEF Types
<1>7. CASE TakePolled
  <2>1. /\ channel # <<>> /\ channel' = Tail(channel)
        /\ cache' = [cache EXCEPT ![Head(channel).id] = Head(channel).version]
        /\ UNCHANGED <<server, calls, phase, failures, prefetched, batch, seen, hooks, held>>
    BY <1>7 DEF TakePolled, external, poller
  <2>2. /\ channel' \in Seq(Copies) /\ Len(channel) \in Nat /\ Len(channel') = Len(channel) - 1
        /\ Head(channel) \in Copies
    BY <1>0, <2>1, TailOf DEF TypeOK
  <2>3. cache' \in [Messages -> 0..MaxVersions]
    BY <1>0, <2>1, <2>2 DEF TypeOK, Copies, Versions
  <2>4. TypeOK' /\ Told'
    BY <1>0, <2>1, <2>2, <2>3 DEF TypeOK, Told
  <2>5. QED
    BY <1>0, <1>1, <2>1, <2>4 DEF Types
<1>8. CASE TakeHook
  <2>1. /\ hooks # <<>> /\ hooks' = Tail(hooks) /\ held' \in {{Copy(Head(hooks))}, {}}
        /\ UNCHANGED <<server, calls, phase, failures, prefetched, batch, seen, channel, cache>>
    BY <1>8 DEF TakeHook, external, poller
  <2>2. /\ hooks' \in Seq(Messages) /\ Len(hooks) \in Nat \ {0} /\ Len(hooks') = Len(hooks) - 1
        /\ DOMAIN hooks = 1..Len(hooks) /\ DOMAIN hooks' = 1..(Len(hooks) - 1)
        /\ Head(hooks) = hooks[1] /\ Head(hooks) \in Messages
        /\ \A i \in 1..(Len(hooks) - 1) : hooks'[i] = hooks[i + 1]
    BY <1>0, <2>1, TailOf DEF TypeOK
  <2>3. 1 \in DOMAIN hooks /\ \A i \in 1..(Len(hooks) - 1) : i + 1 \in DOMAIN hooks
    BY <2>2
  <2>4. Copy(Head(hooks)) \in Copies
    BY <1>0, <2>2, <2>3, CopyFits DEF Told
  <2>5. held' \subseteq Copies
    BY <2>1, <2>4
  <2>6. TypeOK'
    BY <1>0, <2>1, <2>2, <2>5 DEF TypeOK
  <2>7. Told'
    BY <1>0, <2>1, <2>2, <2>3 DEF Told
  <2>8. QED
    BY <1>0, <1>1, <2>1, <2>6, <2>7 DEF Types
<1>9. CASE EndSession
  <2>1. /\ failures' = failures + 1 /\ failures < MaxFailures /\ phase' = "down" /\ prefetched' = FALSE
        /\ batch' = <<>> /\ seen' = <<>> /\ channel' = <<>> /\ hooks' = <<>> /\ held' = {}
        /\ UNCHANGED <<server, calls, cache>>
    BY <1>9 DEF EndSession, external
  <2>2. /\ <<>> \in Seq(Copies) /\ <<>> \in Seq(Messages) /\ Len(<<>>) = 0 /\ DOMAIN <<>> = {}
    OBVIOUS
  <2>3. failures' \in 0..MaxFailures
    BY <1>0, <2>1 DEF TypeOK
  <2>4. /\ Len(<<>>) <= PollLimit /\ Len(<<>>) <= SeenMax
        /\ Len(<<>>) <= ChannelMax /\ Len(<<>>) <= HookMax
    BY <1>0, <2>2
  <2>5. TypeOK'
    BY <1>0, <2>1, <2>2, <2>3, <2>4 DEF TypeOK
  <2>6. Told' /\ Once(seen)'
    BY <1>0, <2>1, <2>2 DEF Told, Once
  <2>7. QED
    BY <1>0, <1>1, <2>1, <2>5, <2>6 DEF Types
<1>10. CASE Poll
  <2>1. UNCHANGED <<server, calls, phase, failures, prefetched, seen, channel, hooks, held, cache>>
    BY <1>10 DEF Poll, external
  <2>2. batch' \in Seq(Copies) /\ Len(batch') <= PollLimit
    BY <1>10, Polled
  <2>3. TypeOK' /\ Told'
    BY <1>0, <2>1, <2>2 DEF TypeOK, Told
  <2>4. QED
    BY <1>0, <1>1, <2>1, <2>3 DEF Types
<1>11. CASE PassOn
  <2>1. /\ batch # <<>> /\ batch' = Tail(batch)
        /\ UNCHANGED <<server, calls, phase, failures, prefetched, hooks, held, cache>>
    BY <1>11 DEF PassOn, external
  <2>2. /\ batch' \in Seq(Copies) /\ Len(batch) \in Nat /\ Len(batch') = Len(batch) - 1
        /\ Head(batch) \in Copies
    BY <1>0, <2>1, TailOf DEF TypeOK
  <2>3. Told' /\ Len(batch') <= PollLimit
    BY <1>0, <2>1, <2>2 DEF Told, TypeOK
  <2>4. CASE UNCHANGED <<seen, channel>>
    <3>1. TypeOK'
      BY <1>0, <2>1, <2>2, <2>3, <2>4 DEF TypeOK
    <3>2. QED
      BY <1>0, <1>1, <2>1, <2>3, <2>4, <3>1 DEF Types
  <2>5. CASE ~ UNCHANGED <<seen, channel>>
    <3> DEFINE copy == Head(batch)
    <3>1. /\ Remembered(copy) # seen /\ Len(channel) < ChannelMax
          /\ seen' = Remembered(copy) /\ channel' = Append(channel, copy)
      BY <1>11, <2>5 DEF PassOn
    <3> HIDE DEF copy
    <3>2. copy \in Copies
      BY <2>2 DEF copy
    <3>3. seen' \in Seq(Copies) /\ Len(seen') <= SeenMax /\ Once(seen')
      BY <3>1, <3>2, Remembering DEF Holds
    <3>4. channel' \in Seq(Copies) /\ Len(channel) \in Nat /\ Len(channel') = Len(channel) + 1
      BY <1>0, <3>1, <3>2, AppendOf DEF TypeOK
    <3>5. Len(channel') <= ChannelMax
      BY <1>0, <3>1, <3>4
    <3>6. TypeOK'
      BY <1>0, <2>1, <2>2, <2>3, <3>3, <3>4, <3>5 DEF TypeOK
    <3>7. QED
      BY <1>0, <1>1, <2>1, <2>3, <3>3, <3>6 DEF Types
  <2>6. QED
    BY <2>4, <2>5
<1>12. CASE UNCHANGED vars
  <2>1. TypeOK' /\ Told' /\ Once(seen)'
    BY <1>0, <1>12 DEF vars, external, poller, TypeOK, Told, Once
  <2>2. QED
    BY <1>1, <1>12, <2>1 DEF vars, external, Types
<1>13. QED
  BY <1>2, <1>3, <1>4, <1>5, <1>6, <1>7, <1>8, <1>9, <1>10, <1>11, <1>12 DEF Next

LEMMA TypesInvariant == Spec => []Types
<1>1. Init => Types
  <2> SUFFICES ASSUME Init PROVE Types
    OBVIOUS
  <2>1. /\ MaxVersions \in Nat /\ MaxMessages \in Nat /\ MaxFailures \in Nat
        /\ PollLimit \in Nat /\ ChannelMax \in Nat /\ HookMax \in Nat /\ SeenMax \in Nat
        /\ <<>> \in Seq(Copies) /\ <<>> \in Seq(Messages) /\ Len(<<>>) = 0 /\ DOMAIN <<>> = {}
    BY LiveAssumption
  <2>2. TypeOK
    <3>1. /\ server \in [Messages -> 0..MaxVersions] /\ cache \in [Messages -> 0..MaxVersions]
          /\ failures \in 0..MaxFailures
      BY <2>1 DEF Init
    <3>2. /\ Len(<<>>) <= PollLimit /\ Len(<<>>) <= SeenMax
          /\ Len(<<>>) <= ChannelMax /\ Len(<<>>) <= HookMax
      BY <2>1
    <3>3. QED
      BY <2>1, <3>1, <3>2 DEF Init, TypeOK
  <2>3. \A m \in Messages : ~(m <= 0) /\ server[m] = 0
    BY DEF Init, Messages
  <2>4. Numbered
    <3>1. 0 \in 0..MaxMessages
      BY <2>1
    <3>2. QED
      BY <2>3, <3>1 DEF Numbered, Upto
  <2>5. Told /\ Once(seen)
    BY <2>1 DEF Init, Told, Once
  <2>6. QED
    BY <2>2, <2>4, <2>5 DEF Types
<1>2. Types /\ [Next]_vars => Types'
  BY TypesStep
<1>3. QED
  BY <1>1, <1>2, PTL DEF Spec

\* Types, and with them the limits of poll_loop's memory and channel and of the
\* listener's queue: a poll returns copies of messages that are there, and what is
\* remembered for a guid replaces what was.
THEOREM LiveTypes == Spec => []TypeOK
<1>1. Types => TypeOK
  BY DEF Types
<1>2. QED
  BY <1>1, TypesInvariant, PTL

-----------------------------------------------------------------------------
(* What the poller knows.  A copy it knows as the server has it is the last *)
(* of its message in the channel, or nothing of the message is there; then  *)
(* it is what the loop holds or, if the loop holds nothing of the message,  *)
(* what the cache has.                                                      *)

Past(copies) == \A i \in DOMAIN copies : copies[i].version <= server[copies[i].id]

Comes(c) ==
    \/ \E k \in DOMAIN channel :
          channel[k] = c /\ \A l \in DOMAIN channel : l > k => channel[l].id # c.id
    \/ /\ \A k \in DOMAIN channel : channel[k].id # c.id
       /\ \A d \in held : d.id = c.id => d = c
       /\ c \in held \/ cache[c.id] = c.version

Coming ==
    \A c \in Copies :
        c.version = server[c.id] /\ (\E i \in DOMAIN seen : seen[i] = c) => Comes(c)

Known == Past(batch) /\ Past(seen) /\ Coming

LEMMA SeenCopies ==
    ASSUME TypeOK
    PROVE  /\ \A i \in DOMAIN seen : seen[i] \in Copies
           /\ \A i \in DOMAIN batch : batch[i] \in Copies
           /\ \A i \in DOMAIN channel : channel[i] \in Copies
           /\ \A c \in Copies : c.id \in Messages /\ c.version \in Nat
           /\ \A m \in Messages : server[m] \in Nat
<1>1. \A c \in Copies : c.id \in Messages /\ c.version \in Nat
  BY LiveAssumption DEF Copies, Versions
<1>2. \A m \in Messages : server[m] \in Nat
  BY LiveAssumption DEF TypeOK
<1>3. QED
  BY <1>1, <1>2 DEF TypeOK

\* The copies of one message are told apart by their version.
LEMMA SameCopy ==
    ASSUME NEW c \in Copies, NEW d \in Copies, c.id = d.id, c.version = d.version
    PROVE  c = d
BY DEF Copies

\* A step that leaves the poller, the queue, the loop and the cache alone.
LEMMA KnownKept ==
    ASSUME Known, UNCHANGED <<server, batch, seen, channel, held, cache>>
    PROVE  Known'
BY DEF Known, Past, Coming, Comes

\* What the poller reads or drops changes nothing of what it knows.
LEMMA ComingKept ==
    ASSUME Known, UNCHANGED <<server, seen, channel, held, cache>>
    PROVE  Past(seen)' /\ Coming'
BY DEF Known, Past, Coming, Comes

\* A message that changes is not known as the server has it.
LEMMA ChangeKnown ==
    ASSUME Types, Known, NEW m \in Messages, Change(m)
    PROVE  Known'
<1>1. /\ server'[m] = server[m] + 1 /\ server[m] \in Nat
      /\ \A k \in Messages : k # m => server'[k] = server[k]
  BY Changes
<1>2. UNCHANGED <<batch, seen, channel, held, cache>>
  BY DEF Change, poller
<1>3. /\ \A i \in DOMAIN seen : seen[i].id \in Messages /\ seen[i].version \in Nat
      /\ \A i \in DOMAIN batch : batch[i].id \in Messages /\ batch[i].version \in Nat
  BY SeenCopies DEF Types
<1>4. Past(batch)' /\ Past(seen)'
  <2>1. \A k \in Messages, v \in Nat : v <= server[k] => v <= server'[k]
    BY <1>1
  <2>2. QED
    BY <1>2, <1>3, <2>1 DEF Known, Past
<1>5. Coming'
  <2> SUFFICES ASSUME NEW c \in Copies, c.version = server'[c.id],
                      NEW i \in DOMAIN seen, seen[i] = c
               PROVE  Comes(c)'
    BY <1>2 DEF Coming
  <2>1. c.version <= server[c.id] /\ c.id \in Messages /\ c.version \in Nat
    BY <1>3 DEF Known, Past
  <2>2. c.id # m
    BY <1>1, <2>1
  <2>3. Comes(c)
    BY <1>1, <2>1, <2>2 DEF Known, Coming
  <2>4. QED
    BY <1>2, <2>3 DEF Comes
<1>6. QED
  BY <1>4, <1>5 DEF Known

\* What the loop reads, when it holds nothing, is as the server has it.
LEMMA ReadKnown ==
    ASSUME Types, Known, held = {},
           \A d \in held' : \E m \in Messages : server[m] # 0 /\ d = Copy(m),
           UNCHANGED <<server, batch, seen, channel, cache>>
    PROVE  Known'
<1>1. Past(batch)' /\ Past(seen)'
  BY DEF Known, Past
<1>2. Coming'
  <2> SUFFICES ASSUME NEW c \in Copies, c.version = server[c.id],
                      NEW i \in DOMAIN seen, seen[i] = c
               PROVE  Comes(c)'
    BY DEF Coming
  <2>1. Comes(c)
    BY DEF Known, Coming
  <2>2. ASSUME NEW d \in held', d.id = c.id PROVE d = c
    <3>1. PICK m \in Messages : server[m] # 0 /\ d = Copy(m)
      OBVIOUS
    <3>2. d \in Copies /\ d.id = m /\ d.version = server[m]
      BY <3>1, CopyFits DEF Types
    <3>3. QED
      BY <2>2, <3>2, SameCopy
  <2>3. QED
    BY <2>1, <2>2 DEF Comes
<1>3. QED
  BY <1>1, <1>2 DEF Known

\* What the loop holds goes to the cache, and there was nothing older in it than what
\* the poller knows.
LEMMA StoreKnown ==
    ASSUME Types, Known, Store
    PROVE  Known'
<1>1. held' = {} /\ UNCHANGED <<server, batch, seen, channel>>
  BY DEF Store, external, poller
<1>2. Past(batch)' /\ Past(seen)'
  BY <1>1 DEF Known, Past
<1>3. Coming'
  <2> SUFFICES ASSUME NEW c \in Copies, c.version = server[c.id],
                      NEW i \in DOMAIN seen, seen[i] = c
               PROVE  Comes(c)'
    BY <1>1 DEF Coming
  <2>1. c.id \in Messages /\ Comes(c)
    BY SeenCopies DEF Types, Known, Coming
  <2>2. \/ \E d \in held : d.id = c.id /\ cache'[c.id] = d.version
        \/ cache'[c.id] = cache[c.id] /\ \A d \in held : d.id # c.id
    BY <2>1, Stored
  <2>3. QED
    BY <1>1, <2>1, <2>2 DEF Comes
<1>4. QED
  BY <1>2, <1>3 DEF Known

\* The last copy of a message to leave the channel is the one that stays.
LEMMA TakeKnown ==
    ASSUME Types, Known, TakePolled
    PROVE  Known'
<1> DEFINE first == Head(channel)
<1>1. /\ channel # <<>> /\ channel' = Tail(channel) /\ held = {} /\ held' = held
      /\ cache' = [cache EXCEPT ![first.id] = first.version]
      /\ UNCHANGED <<server, batch, seen>>
  BY DEF TakePolled, external, poller
<1>2. /\ Len(channel) \in Nat \ {0} /\ DOMAIN channel = 1..Len(channel)
      /\ DOMAIN channel' = 1..(Len(channel) - 1)
      /\ first = channel[1] /\ first \in Copies
      /\ \A i \in 1..(Len(channel) - 1) : channel'[i] = channel[i + 1]
  BY <1>1, TailOf DEF Types, TypeOK
<1> HIDE DEF first
<1>3. /\ cache'[first.id] = first.version
      /\ \A m \in Messages : m # first.id => cache'[m] = cache[m]
  BY <1>1, <1>2 DEF Types, TypeOK, Copies
<1>4. 1 \in DOMAIN channel /\ \A i \in DOMAIN channel' : i + 1 \in DOMAIN channel /\ i + 1 > 1
  BY <1>2
<1>5. Past(batch)' /\ Past(seen)'
  BY <1>1 DEF Known, Past
<1>6. Coming'
  <2> SUFFICES ASSUME NEW c \in Copies, c.version = server[c.id],
                      NEW i \in DOMAIN seen, seen[i] = c
               PROVE  Comes(c)'
    BY <1>1 DEF Coming
  <2>1. c.id \in Messages /\ Comes(c)
    BY SeenCopies DEF Types, Known, Coming
  <2>2. ASSUME NEW k \in DOMAIN channel, channel[k] = c,
               \A l \in DOMAIN channel : l > k => channel[l].id # c.id
        PROVE  Comes(c)'
    <3>1. CASE k = 1
      <4>1. \A l \in DOMAIN channel' : channel'[l].id # c.id
        BY <1>2, <1>4, <2>2, <3>1
      <4>2. cache'[c.id] = c.version
        BY <1>2, <1>3, <2>2, <3>1
      <4>3. QED
        BY <1>1, <4>1, <4>2 DEF Comes
    <3>2. CASE k # 1
      <4>1. k - 1 \in DOMAIN channel' /\ (k - 1) + 1 = k
        BY <1>2, <3>2
      <4>2. channel'[k - 1] = c
        BY <1>2, <2>2, <4>1
      <4>3. \A l \in DOMAIN channel' : l > k - 1 => l + 1 > k
        BY <1>2
      <4>4. \A l \in DOMAIN channel' : l > k - 1 => channel'[l].id # c.id
        BY <1>2, <1>4, <2>2, <4>3
      <4>5. QED
        BY <4>1, <4>2, <4>4 DEF Comes
    <3>3. QED
      BY <3>1, <3>2
  <2>3. ASSUME \A k \in DOMAIN channel : channel[k].id # c.id, cache[c.id] = c.version
        PROVE  Comes(c)'
    <3>1. c.id # first.id
      BY <1>2, <1>4, <2>3
    <3>2. cache'[c.id] = c.version
      BY <1>3, <2>1, <2>3, <3>1
    <3>3. \A l \in DOMAIN channel' : channel'[l].id # c.id
      BY <1>2, <1>4, <2>3
    <3>4. QED
      BY <1>1, <3>2, <3>3 DEF Comes
  <2>4. QED
    BY <1>1, <2>1, <2>2, <2>3 DEF Comes
<1>7. QED
  BY <1>5, <1>6 DEF Known

\* What the poller passes on is behind everything else of its message.
LEMMA PassKnown ==
    ASSUME Types, Known, PassOn
    PROVE  Known'
<1>1. /\ batch # <<>> /\ batch' = Tail(batch)
      /\ UNCHANGED <<server, held, cache>>
  BY DEF PassOn, external
<1>2. /\ Len(batch) \in Nat \ {0} /\ DOMAIN batch = 1..Len(batch)
      /\ DOMAIN batch' = 1..(Len(batch) - 1)
      /\ Head(batch) = batch[1] /\ Head(batch) \in Copies
      /\ \A i \in 1..(Len(batch) - 1) : batch'[i] = batch[i + 1]
  BY <1>1, TailOf DEF Types, TypeOK
<1> PICK copy \in Copies : copy = Head(batch)
  BY <1>2
<1>3. \/ UNCHANGED <<seen, channel>>
      \/ Remembered(copy) # seen /\ seen' = Remembered(copy) /\ channel' = Append(channel, copy)
  BY DEF PassOn
<1>4. 1 \in DOMAIN batch /\ \A i \in DOMAIN batch' : i + 1 \in DOMAIN batch
  BY <1>2
<1>5. Past(batch)'
  BY <1>1, <1>2, <1>4 DEF Known, Past
<1>6. CASE UNCHANGED <<seen, channel>>
  BY <1>1, <1>5, <1>6, ComingKept DEF Known
<1>7. CASE /\ Remembered(copy) # seen /\ seen' = Remembered(copy)
           /\ channel' = Append(channel, copy)
  <2>1. Holds(seen', copy)
    BY <1>2, <1>7, Remembering
  <2>2. /\ Len(channel) \in Nat /\ DOMAIN channel = 1..Len(channel)
        /\ DOMAIN channel' = 1..(Len(channel) + 1)
        /\ channel'[Len(channel) + 1] = copy /\ \A i \in 1..Len(channel) : channel'[i] = channel[i]
    BY <1>2, <1>7, AppendOf DEF Types, TypeOK
  <2>3. copy.version <= server[copy.id]
    BY <1>2, <1>4 DEF Known, Past
  <2>4. Past(seen)'
    BY <1>1, <2>1, <2>3 DEF Holds, Known, Past
  <2>5. Comes(copy)'
    <3>1. Len(channel) + 1 \in DOMAIN channel' /\ \A l \in DOMAIN channel' : ~(l > Len(channel) + 1)
      BY <2>2
    <3>2. QED
      BY <2>2, <3>1 DEF Comes
  <2>6. ASSUME NEW c, c.id # copy.id, Comes(c) PROVE Comes(c)'
    <3>1. \A l \in DOMAIN channel' : l = Len(channel) + 1 \/ l \in DOMAIN channel
      BY <2>2
    <3>2. \A l \in DOMAIN channel : l \in DOMAIN channel'
      BY <2>2
    <3>3. QED
      BY <1>1, <2>2, <2>6, <3>1, <3>2 DEF Comes
  <2>7. Coming'
    <3> SUFFICES ASSUME NEW c \in Copies, c.version = server[c.id], c # copy,
                        NEW i \in DOMAIN seen', seen'[i] = c
                 PROVE  Comes(c)'
      BY <1>1, <2>5 DEF Coming, Comes
    <3>1. PICK j \in DOMAIN seen : c = seen[j] /\ seen[j].id # copy.id
      BY <2>1 DEF Holds
    <3>2. Comes(c)
      BY <3>1 DEF Known, Coming
    <3>3. QED
      BY <2>6, <3>1, <3>2
  <2>8. QED
    BY <1>5, <2>4, <2>7 DEF Known
<1>8. QED
  BY <1>3, <1>6, <1>7

LEMMA KnownStep ==
    ASSUME Types, Known, [Next]_vars
    PROVE  Known'
<1>1. CASE \E m \in Messages : Change(m)
  BY <1>1, ChangeKnown
<1>2. CASE (\E m \in Messages : HookAccepted(m) \/ HookLost(m)) \/ Connect \/ PrefetchFails
           \/ UNCHANGED vars
  BY <1>2, KnownKept
     DEF HookAccepted, HookLost, Connect, PrefetchFails, vars, external, poller
<1>3. CASE PrefetchRead
  <2>1. /\ held = {} /\ held' = {Copy(m) : m \in Newest(PrefetchLimit)}
        /\ UNCHANGED <<server, batch, seen, channel, cache>>
    BY <1>3 DEF PrefetchRead, external, poller
  <2>2. \A m \in Newest(PrefetchLimit) : m \in Messages /\ server[m] # 0
    BY DEF Newest
  <2>3. QED
    BY <2>1, <2>2, ReadKnown
<1>4. CASE TakeHook
  <2>1. /\ held = {} /\ hooks # <<>> /\ held' \in {{Copy(Head(hooks))}, {}}
        /\ UNCHANGED <<server, batch, seen, channel, cache>>
    BY <1>4 DEF TakeHook, external, poller
  <2>2. /\ Head(hooks) = hooks[1] /\ Head(hooks) \in Messages /\ 1 \in DOMAIN hooks
    <3>1. /\ Head(hooks) = hooks[1] /\ Head(hooks) \in Messages
          /\ Len(hooks) \in Nat \ {0} /\ DOMAIN hooks = 1..Len(hooks)
      BY <2>1, TailOf DEF Types, TypeOK
    <3>2. QED
      BY <3>1
  <2>3. server[Head(hooks)] # 0
    BY <2>2 DEF Types, Told
  <2>4. QED
    BY <2>1, <2>2, <2>3, ReadKnown
<1>5. CASE Store
  BY <1>5, StoreKnown
<1>6. CASE TakePolled
  BY <1>6, TakeKnown
<1>7. CASE EndSession
  <2>1. batch' = <<>> /\ seen' = <<>>
    BY <1>7 DEF EndSession
  <2>2. DOMAIN <<>> = {}
    OBVIOUS
  <2>3. QED
    BY <2>1, <2>2 DEF Known, Past, Coming
<1>8. CASE Poll
  <2>1. UNCHANGED <<server, seen, channel, held, cache>>
    BY <1>8 DEF Poll, external
  <2>2. ASSUME NEW i \in DOMAIN batch' PROVE batch'[i].version <= server[batch'[i].id]
    <3>1. PICK m \in Messages : server[m] # 0 /\ batch'[i] = Copy(m)
      BY <1>8, Polled
    <3>2. batch'[i].id = m /\ batch'[i].version = server[m] /\ server[m] \in Nat
      BY <3>1, CopyFits, SeenCopies DEF Types
    <3>3. QED
      BY <3>2
  <2>3. QED
    BY <2>1, <2>2, ComingKept DEF Known, Past
<1>9. CASE PassOn
  BY <1>9, PassKnown
<1>10. QED
  BY <1>1, <1>2, <1>3, <1>4, <1>5, <1>6, <1>7, <1>8, <1>9 DEF Next

\* What poll_loop will not pass on again is in the cache as the server has it when the
\* loop of live_webhook or live_poll has nothing left to store, whatever doorbells and
\* prefetches it stored in between and however sessions ended.
THEOREM KnownCopiesAreStored == Spec => []KnownIsStored
<1>1. Init => Known
  <2>1. DOMAIN <<>> = {}
    OBVIOUS
  <2>2. QED
    BY <2>1 DEF Init, Known, Past, Coming
<1>2. Types /\ Known /\ [Next]_vars => Known'
  BY KnownStep
<1>3. Types /\ Known => KnownIsStored
  <2> SUFFICES ASSUME Types, Known, held = {}, channel = <<>>,
                      NEW i \in DOMAIN seen, seen[i] = Copy(seen[i].id)
               PROVE  cache[seen[i].id] = seen[i].version
    BY DEF KnownIsStored
  <2>1. seen[i].version = server[seen[i].id]
    BY DEF Copy
  <2>2. Comes(seen[i])
    BY <2>1, SeenCopies DEF Types, Known, Coming
  <2>3. DOMAIN channel = {}
    OBVIOUS
  <2>4. QED
    BY <2>2, <2>3 DEF Comes
<1>4. QED
  BY <1>1, <1>2, <1>3, TypesInvariant, PTL DEF Spec
=============================================================================
