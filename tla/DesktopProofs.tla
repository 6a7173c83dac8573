---------------------------- MODULE DesktopProofs ----------------------------
(***************************************************************************)
(* For any drafts, retries, messages, sizes of the channel and of a page,  *)
(* and any number of faults and visits: what the user wrote is delivered   *)
(* or in the outbox and no try is delivered twice, the outbox does not     *)
(* stall, and the open conversation comes to show what the cache holds.    *)
(* The outbox implements OutboxLedger.                                     *)
(***************************************************************************)
EXTENDS Desktop, Integers, FiniteSetTheorems, WellFoundedInduction, TLAPS

\* Every set of naturals with an element has a least one.
LEMMA LeastNat ==
    ASSUME NEW T, T \subseteq Nat, T # {}
    PROVE  \E x \in T : \A y \in T : x <= y
<1> DEFINE R == {ss \in Nat \X Nat : ss[1] < ss[2]}
<1>1. IsWellFoundedOn(R, Nat)
  <2>1. R = OpToRel(<, Nat)
    BY DEF OpToRel
  <2>2. QED
    BY <2>1, NatLessThanWellFounded, Zenon DEF OpToRel
<1>2. \A x, y \in Nat : x < y => <<x, y>> \in R
  OBVIOUS
<1> HIDE DEF R
<1>3. PICK x \in T : \A y \in T : ~(<<y, x>> \in R)
  BY <1>1, WFMin
<1>4. ASSUME NEW y \in T PROVE x <= y
  <2>1. x \in Nat /\ y \in Nat
    BY <1>3
  <2>2. ~(y < x)
    BY <1>2, <1>3, <2>1
  <2>3. QED
    BY <2>1, <2>2
<1>5. QED
  BY <1>3, <1>4

\* A function on 1..n is a sequence of length n.
LEMMA SeqOf ==
    ASSUME NEW S, NEW n \in Nat, NEW f \in [1 .. n -> S]
    PROVE  f \in Seq(S) /\ Len(f) = n
OBVIOUS

\* Append keeps what was there and adds one at the end.
LEMMA AppendOf ==
    ASSUME NEW S, NEW s \in Seq(S), NEW x \in S
    PROVE  LET t == Append(s, x)
           IN  /\ t \in Seq(S) /\ Len(s) \in Nat /\ Len(t) = Len(s) + 1
               /\ DOMAIN s = 1 .. Len(s) /\ DOMAIN t = 1 .. (Len(s) + 1)
               /\ t[Len(s) + 1] = x
               /\ \A i \in 1 .. Len(s) : t[i] = s[i]
OBVIOUS

\* Tail drops the first and moves the others down.
LEMMA TailOf ==
    ASSUME NEW S, NEW s \in Seq(S), s # <<>>
    PROVE  LET t == Tail(s)
           IN  /\ t \in Seq(S) /\ Len(s) \in Nat \ {0} /\ Len(t) = Len(s) - 1
               /\ DOMAIN s = 1 .. Len(s) /\ DOMAIN t = 1 .. (Len(s) - 1)
               /\ Head(s) = s[1] /\ Head(s) \in S
               /\ \A i \in 1 .. (Len(s) - 1) : t[i] = s[i + 1]
OBVIOUS

\* There are n numbers from 1 to n.
LEMMA UpTo ==
    ASSUME NEW n \in Nat
    PROVE  IsFiniteSet(1 .. n) /\ Cardinality(1 .. n) = n
<1>1. /\ IsFiniteSet(1 .. n)
      /\ 1 > n => Cardinality(1 .. n) = 0
      /\ ~(1 > n) => Cardinality(1 .. n) = n - 1 + 1
  <2>1. 1 \in Int /\ n \in Int
    OBVIOUS
  <2>2. QED
    BY <2>1, FS_Interval, Zenon
<1> DEFINE size == Cardinality(1 .. n)
<1>2. /\ 1 > n => size = 0
      /\ ~(1 > n) => size = n - 1 + 1
  BY <1>1
<1> HIDE DEF size
<1>3. size = n
  BY <1>2
<1>4. QED
  BY <1>1, <1>3, Zenon DEF size

-----------------------------------------------------------------------------
(* The rows of the outbox.                                                 *)

OwnIds(rows) == \A i, j \in DOMAIN rows : i # j => rows[i].id # rows[j].id

LeavesOut(rows, rest, id) ==
    /\ rest \in Seq(Rows) /\ OwnIds(rest)
    /\ \A i \in DOMAIN rest : \E j \in DOMAIN rows : rest[i] = rows[j] /\ rows[j].id # id
    /\ \A j \in DOMAIN rows : rows[j].id # id => \E i \in DOMAIN rest : rest[i] = rows[j]

\* A filter by id takes the one row that has it and leaves the others.
LEMMA WithoutRow ==
    ASSUME NEW rows \in Seq(Rows), OwnIds(rows), NEW id
    PROVE  LeavesOut(rows, Without(rows, id), id)
<1> DEFINE rest == Without(rows, id)
           N == Len(rows)
<1>0. N \in Nat /\ DOMAIN rows = 1..N /\ \A i \in 1..N : rows[i] \in Rows
  OBVIOUS
<1>1. CASE \A i \in DOMAIN rows : rows[i].id # id
  <2>1. rest = rows
    BY <1>1 DEF Without
  <2> HIDE DEF rest
  <2>2. QED
    BY <1>1, <2>1 DEF rest, LeavesOut
<1>2. CASE \E i \in DOMAIN rows : rows[i].id = id
  <2> DEFINE gone == CHOOSE i \in DOMAIN rows : rows[i].id = id
             from(i) == IF i < gone THEN i ELSE i + 1
  <2>1. gone \in 1..N /\ rows[gone].id = id /\ N - 1 \in Nat
    BY <1>0, <1>2
  <2>2. rest = [i \in 1..(N - 1) |-> rows[from(i)]]
    BY <1>2 DEF Without
  <2> HIDE DEF rest, gone
  <2>3. \A i \in 1..(N - 1) : from(i) \in 1..N /\ from(i) # gone
    BY <1>0, <2>1
  <2>4. \A i, j \in 1..(N - 1) : i # j => from(i) # from(j)
    BY <1>0, <2>1
  <2>5. \A j \in 1..N : j # gone => \E i \in 1..(N - 1) : from(i) = j
    <3>1. ASSUME NEW j \in 1..N, j < gone PROVE j \in 1..(N - 1) /\ from(j) = j
      BY <1>0, <2>1, <3>1
    <3>2. ASSUME NEW j \in 1..N, j > gone PROVE j - 1 \in 1..(N - 1) /\ from(j - 1) = j
      BY <1>0, <2>1, <3>2
    <3>3. \A j \in 1..N : j # gone => j < gone \/ j > gone
      BY <2>1
    <3> HIDE DEF from
    <3>4. QED
      BY <3>1, <3>2, <3>3
  <2> HIDE DEF from
  <2>6. /\ rest \in [1..(N - 1) -> Rows] /\ DOMAIN rest = 1..(N - 1)
        /\ \A i \in 1..(N - 1) : rest[i] = rows[from(i)]
    BY <1>0, <2>2, <2>3
  <2>7. rest \in Seq(Rows)
    BY <2>1, <2>6, SeqOf
  <2>8. OwnIds(rest)
    BY <1>0, <2>3, <2>4, <2>6 DEF OwnIds
  <2>9. \A i \in DOMAIN rest : \E j \in DOMAIN rows : rest[i] = rows[j] /\ rows[j].id # id
    BY <1>0, <2>1, <2>3, <2>6 DEF OwnIds
  <2>10. \A j \in DOMAIN rows : rows[j].id # id => \E i \in DOMAIN rest : rest[i] = rows[j]
    BY <1>0, <2>1, <2>5, <2>6
  <2>11. QED
    BY <2>7, <2>8, <2>9, <2>10 DEF rest, LeavesOut
<1>3. QED
  BY <1>1, <1>2

-----------------------------------------------------------------------------
(* The outbox: rows, the send that runs, n ids given out, `used` those that *)
(* the server was handed.                                                   *)

RowsFit(rows, run, n, used) ==
    /\ rows \in Seq(Rows) /\ OwnIds(rows)
    /\ \A i \in DOMAIN rows :
          /\ rows[i].id \in 1..n
          /\ rows[i].state = "sending" => rows[i].id = run.id
          /\ rows[i].state = "queued" =>
                rows[i].id # run.id /\ rows[i].id \notin used

SendFits(run, n, used) ==
    /\ run \in [id : 0..n, pc : SendPC]
    /\ run.pc = "idle" <=> run.id = 0
    /\ run.pc = "asked" => run.id \notin used

Moves(rows, run) ==
    \A i \in DOMAIN rows : rows[i].state = "queued" => run.pc # "idle"

SameIds(rows, rest) ==
    DOMAIN rest = DOMAIN rows /\ \A i \in DOMAIN rows : rest[i].id = rows[i].id

\* drainOutgoing leaves things alone or starts the send of one row that waited.
LEMMA Drained ==
    ASSUME NEW rows \in Seq(Rows), OwnIds(rows), NEW run, DrainOutgoing(rows, run)
    PROVE  \/ /\ outgoing' = rows /\ send' = run
              /\ run.pc # "idle" \/ \A i \in DOMAIN rows : rows[i].state # "queued"
           \/ /\ run.pc = "idle"
              /\ \E f \in DOMAIN rows :
                    /\ rows[f].state = "queued"
                    /\ send' = [id |-> rows[f].id, pc |-> "asked"]
                    /\ outgoing' = [rows EXCEPT ![f] = [id |-> rows[f].id, state |-> "sending"]]
<1>0. Len(rows) \in Nat /\ DOMAIN rows = 1..Len(rows) /\ \A i \in DOMAIN rows : rows[i] \in Rows
  OBVIOUS
<1>1. CASE run.pc # "idle" \/ Queued(rows) = {}
  BY <1>1 DEF DrainOutgoing, Queued
<1>2. CASE run.pc = "idle" /\ Queued(rows) # {}
  <2> DEFINE first == CHOOSE i \in Queued(rows) : \A j \in Queued(rows) : i <= j
  <2>1. first \in Queued(rows)
    <3>1. Queued(rows) \subseteq Nat
      BY <1>0 DEF Queued
    <3>2. \E i \in Queued(rows) : \A j \in Queued(rows) : i <= j
      BY <1>2, <3>1, LeastNat
    <3>3. QED
      BY <3>2
  <2>2. /\ outgoing' = Marked(rows, rows[first].id, "sending")
        /\ send' = [id |-> rows[first].id, pc |-> "asked"]
    BY <1>2 DEF DrainOutgoing
  <2> HIDE DEF first
  <2>3. first \in DOMAIN rows /\ rows[first].state = "queued"
    BY <2>1 DEF Queued
  <2>4. Marked(rows, rows[first].id, "sending")
           = [rows EXCEPT ![first] = [id |-> rows[first].id, state |-> "sending"]]
    <3>1. \A i \in DOMAIN rows : rows[i].id = rows[first].id <=> i = first
      BY <2>3 DEF OwnIds
    <3>2. [rows[first] EXCEPT !.state = "sending"] = [id |-> rows[first].id, state |-> "sending"]
      BY <1>0, <2>3 DEF Rows
    <3>3. QED
      BY <3>1, <3>2 DEF Marked
  <2>5. QED
    BY <1>2, <2>2, <2>3, <2>4
<1>3. QED
  BY <1>1, <1>2

LEMMA DrainFits ==
    ASSUME NEW n \in 0..MaxTries, NEW used, NEW rows, NEW run,
           RowsFit(rows, run, n, used), SendFits(run, n, used), DrainOutgoing(rows, run)
    PROVE  /\ RowsFit(outgoing', send', n, used) /\ SendFits(send', n, used)
           /\ Moves(outgoing', send') /\ SameIds(rows, outgoing')
           /\ send' = run \/ send'.pc = "asked"
<1>0. /\ rows \in Seq(Rows) /\ OwnIds(rows)
      /\ Len(rows) \in Nat /\ DOMAIN rows = 1..Len(rows) /\ \A i \in DOMAIN rows : rows[i] \in Rows
  BY DEF RowsFit
<1>1. CASE /\ outgoing' = rows /\ send' = run
           /\ run.pc # "idle" \/ \A i \in DOMAIN rows : rows[i].state # "queued"
  BY <1>1 DEF Moves, SameIds
<1>2. ASSUME run.pc = "idle", NEW f \in DOMAIN rows, rows[f].state = "queued",
             NEW row, row = [id |-> rows[f].id, state |-> "sending"],
             send' = [id |-> rows[f].id, pc |-> "asked"],
             outgoing' = [rows EXCEPT ![f] = row]
      PROVE  /\ RowsFit(outgoing', send', n, used) /\ SendFits(send', n, used)
             /\ Moves(outgoing', send') /\ SameIds(rows, outgoing')
             /\ send'.pc = "asked"
  <2>1. row.id = rows[f].id /\ row.state = "sending" /\ row \in Rows
    BY <1>0, <1>2 DEF Rows
  <2>2. /\ outgoing' \in Seq(Rows) /\ DOMAIN outgoing' = DOMAIN rows
        /\ outgoing'[f] = row /\ \A i \in DOMAIN rows : i # f => outgoing'[i] = rows[i]
    BY <1>0, <1>2, <2>1
  <2>3. send'.id = rows[f].id /\ send'.pc = "asked" /\ rows[f].id \in 1..n
    BY <1>2 DEF RowsFit
  <2>4. SameIds(rows, outgoing') /\ OwnIds(outgoing')
    BY <1>0, <2>1, <2>2 DEF SameIds, OwnIds
  <2>5. RowsFit(outgoing', send', n, used)
    <3> SUFFICES ASSUME NEW i \in DOMAIN rows
                 PROVE  /\ outgoing'[i].id \in 1..n
                        /\ outgoing'[i].state = "sending" => outgoing'[i].id = send'.id
                        /\ outgoing'[i].state = "queued" =>
                              /\ outgoing'[i].id # send'.id
                              /\ outgoing'[i].id \notin used
      BY <2>2, <2>4 DEF RowsFit
    <3>1. CASE i = f
      BY <2>1, <2>2, <2>3, <3>1
    <3>2. CASE i # f
      <4>1. outgoing'[i] = rows[i] /\ rows[i].id # rows[f].id
        BY <1>0, <2>2, <3>2 DEF OwnIds
      <4>2. rows[i].state # "sending"
        BY <1>2 DEF RowsFit, SendFits
      <4>3. QED
        BY <2>3, <4>1, <4>2 DEF RowsFit
    <3>3. QED
      BY <3>1, <3>2
  <2>6. SendFits(send', n, used)
    <3>1. send' \in [id : 0..n, pc : SendPC] /\ send'.id # 0
      BY <1>2, <2>3 DEF SendPC
    <3>2. send'.id \notin used
      BY <1>2, <2>3 DEF RowsFit
    <3>3. QED
      BY <2>3, <3>1, <3>2 DEF SendFits
  <2>7. QED
    BY <2>3, <2>4, <2>5, <2>6 DEF Moves
<1>3. QED
  BY <1>0, <1>1, <1>2, Drained

\* Every text tried is a row, or was delivered.
Accounted(rows, t, srv) ==
    \A k \in DOMAIN t :
        \/ \E i \in DOMAIN rows : t[rows[i].id] = t[k]
        \/ \E m \in DOMAIN srv : srv[m] # 0 /\ t[srv[m]] = t[k]

OneCopy(srv) == \A m, n \in DOMAIN srv : m # n => srv[m] # srv[n] \/ srv[m] = 0

\* What the server holds was tried, and who says so is right.
Truthful ==
    /\ server \in Seq(0..Len(tried)) /\ OneCopy(server)
    /\ posts \subseteq 1..Len(tried) /\ \A try \in posts : ~Delivered(try)
    /\ send.pc \in {"stored", "ok"} => Delivered(send.id)
    /\ \A k \in DOMAIN queue : queue[k].client # 0 => Delivered(queue[k].client)

Outbox ==
    /\ tried \in Seq(Drafts) /\ Len(tried) \in 0..MaxTries
    /\ RowsFit(outgoing, send, Len(tried), Handed) /\ SendFits(send, Len(tried), Handed)
    /\ Moves(outgoing, send)
    /\ Truthful
    /\ Accounted(outgoing, tried, server)

\* What was delivered was handed over before, and what is not done to the server does
\* not change what it was handed.
LEMMA DeliveredWasHanded ==
    ASSUME NEW try, try # 0, Delivered(try)
    PROVE  try \in Handed
BY DEF Delivered, Handed

LEMMA HandedStays ==
    ASSUME UNCHANGED <<server, posts>>
    PROVE  Handed' = Handed /\ \A try : Delivered(try)' <=> Delivered(try)
BY DEF Handed, Delivered

\* The rows may be any that keep the ids and those that are gone were delivered.
LEMMA AccountedStays ==
    ASSUME Outbox, NEW rest,
           \A i \in DOMAIN outgoing :
              \/ \E j \in DOMAIN rest : rest[j].id = outgoing[i].id
              \/ Delivered(outgoing[i].id)
    PROVE  Accounted(rest, tried, server)
<1>1. \A i \in DOMAIN outgoing : outgoing[i].id # 0
  BY DEF Outbox, RowsFit
<1>2. QED
  BY <1>1 DEF Outbox, Accounted, Delivered

\* A server that grows by one message.
LEMMA ServerGrows ==
    ASSUME NEW S, server \in Seq(S), NEW x \in S, server' = Append(server, x)
    PROVE  /\ server' \in Seq(S) /\ DOMAIN server \subseteq DOMAIN server'
           /\ \A m \in DOMAIN server : server'[m] = server[m]
           /\ \A m \in DOMAIN server' : m \in DOMAIN server \/ (m = Len(server') /\ server'[m] = x)
           /\ Len(server') = Len(server) + 1 /\ Len(server') \in DOMAIN server'
           /\ \A t : Delivered(t) => Delivered(t)'
<1>1. /\ server' \in Seq(S) /\ Len(server) \in Nat /\ Len(server') = Len(server) + 1
      /\ DOMAIN server = 1..Len(server) /\ DOMAIN server' = 1..(Len(server) + 1)
      /\ server'[Len(server) + 1] = x /\ \A i \in 1..Len(server) : server'[i] = server[i]
  BY AppendOf
<1>2. QED
  BY <1>1 DEF Delivered

LEMMA Broadcasts ==
    ASSUME queue \in Seq(Events), Len(queue) <= ChannelMax, lagged \in BOOLEAN,
           NEW e \in Events, Broadcast(e)
    PROVE  /\ queue' \in Seq(Events) /\ Len(queue') <= ChannelMax /\ lagged' \in BOOLEAN
           /\ \A k \in DOMAIN queue' : queue'[k] = e \/ \E l \in DOMAIN queue : queue'[k] = queue[l]
           /\ \/ stream = "down"
              \/ lagged' = TRUE
              \/ /\ lagged' = lagged
                 /\ \E l \in DOMAIN queue' : queue'[l] = e
                 /\ \A k \in DOMAIN queue : \E l \in DOMAIN queue' : queue'[l] = queue[k]
<1> USE DesktopAssumption
<1>1. CASE stream = "down"
  BY <1>1 DEF Broadcast
<1>2. CASE stream # "down" /\ Len(queue) < ChannelMax
  <2>1. queue' = Append(queue, e) /\ lagged' = lagged
    BY <1>2 DEF Broadcast
  <2>2. /\ queue' \in Seq(Events) /\ Len(queue) \in Nat /\ Len(queue') = Len(queue) + 1
        /\ DOMAIN queue = 1..Len(queue) /\ DOMAIN queue' = 1..(Len(queue) + 1)
        /\ queue'[Len(queue) + 1] = e /\ \A i \in 1..Len(queue) : queue'[i] = queue[i]
    BY <2>1, AppendOf
  <2>3. \A i \in 1..(Len(queue) + 1) : i = Len(queue) + 1 \/ i \in 1..Len(queue)
    BY <2>2
  <2>4. QED
    BY <1>2, <2>1, <2>2, <2>3
<1>3. CASE stream # "down" /\ ~(Len(queue) < ChannelMax)
  <2> DEFINE rest == Tail(queue)
  <2>1. queue # <<>> /\ Len(queue) = ChannelMax
    BY <1>3
  <2>2. /\ rest \in Seq(Events) /\ Len(queue) \in Nat \ {0} /\ Len(rest) = Len(queue) - 1
        /\ DOMAIN queue = 1..Len(queue) /\ DOMAIN rest = 1..(Len(queue) - 1)
        /\ \A i \in 1..(Len(queue) - 1) : rest[i] = queue[i + 1]
    BY <2>1, TailOf
  <2>3. queue' = Append(rest, e) /\ lagged' = TRUE
    BY <1>3 DEF Broadcast
  <2> HIDE DEF rest
  <2>4. /\ queue' \in Seq(Events) /\ Len(queue') = Len(rest) + 1
        /\ DOMAIN queue' = 1..(Len(rest) + 1)
        /\ queue'[Len(rest) + 1] = e /\ \A i \in 1..Len(rest) : queue'[i] = rest[i]
    BY <2>2, <2>3, AppendOf
  <2>5. \A k \in DOMAIN queue' : queue'[k] = e \/ \E l \in DOMAIN queue : queue'[k] = queue[l]
    <3> SUFFICES ASSUME NEW k \in DOMAIN queue', k # Len(rest) + 1
                 PROVE  \E l \in DOMAIN queue : queue'[k] = queue[l]
      BY <2>4
    <3>1. k \in 1..Len(rest) /\ k + 1 \in DOMAIN queue
      BY <2>2, <2>4
    <3>2. queue'[k] = queue[k + 1]
      BY <2>2, <2>4, <3>1
    <3>3. QED
      BY <3>1, <3>2
  <2>6. Len(queue') <= ChannelMax
    BY <2>1, <2>2, <2>4
  <2>7. QED
    BY <2>3, <2>4, <2>5, <2>6
<1>4. QED
  BY <1>1, <1>2, <1>3

-----------------------------------------------------------------------------
(* The cache, the events and the thread.                                    *)

Feed ==
    /\ cache \subseteq DOMAIN server /\ polled \subseteq cache
    /\ Cardinality({m \in DOMAIN server : server[m] = 0}) <= MaxInbound
    /\ stream \in {"down", "subscribed", "up"} /\ lagged \in BOOLEAN
    /\ queue \in Seq(Events) /\ Len(queue) <= ChannelMax
    /\ \A k \in DOMAIN queue : queue[k].id \in cache
    /\ send.pc = "stored" => \E m \in cache : server[m] = send.id

Bounds == visits \in 0..MaxVisits /\ faults \in 0..MaxFaults

\* The bounds on tries and on messages of others bound the server.
LEMMA ServerFits ==
    ASSUME NEW n \in 0..MaxTries, NEW srv \in Seq(0..n), OneCopy(srv),
           Cardinality({m \in DOMAIN srv : srv[m] = 0}) <= MaxInbound
    PROVE  Len(srv) <= MaxMessages /\ DOMAIN srv \subseteq Messages
<1> DEFINE N == Len(srv)
           Z == {m \in DOMAIN srv : srv[m] = 0}
           T == (1..N) \ Z
           f == [m \in T |-> srv[m]]
<1>0. N \in Nat /\ DOMAIN srv = 1..N /\ \A m \in 1..N : srv[m] \in 0..n
  OBVIOUS
<1>1. IsFiniteSet(1..N) /\ Cardinality(1..N) = N
  BY <1>0, UpTo
<1>2. IsFiniteSet(1..MaxTries) /\ Cardinality(1..MaxTries) = MaxTries
  BY DesktopAssumption, UpTo
<1>3. f \in Injection(T, 1..MaxTries)
  <2>1. f \in [T -> 1..MaxTries]
    BY <1>0, DesktopAssumption
  <2>2. \A k, m \in T : f[k] = f[m] => k = m
    BY <1>0 DEF OneCopy
  <2> HIDE DEF f, T
  <2>3. QED
    BY <2>1, <2>2 DEF Injection, IsInjective
<1>4. Cardinality(T) <= MaxTries
  <2> HIDE DEF f, T
  <2>1. QED
    BY <1>2, <1>3, FS_Injection
<1>5. (1..N) \cap Z = Z /\ Z \subseteq 1..N
  BY <1>0
<1>6. Cardinality(T) = N - Cardinality(Z) /\ Cardinality(Z) \in Nat
  <2>1. IsFiniteSet(Z)
    BY <1>1, <1>5, FS_Subset
  <2> DEFINE A == 1..N
  <2>2. IsFiniteSet(A) /\ Cardinality(A) = N /\ A \cap Z = Z
    BY <1>1, <1>5
  <2> HIDE DEF A, Z
  <2>3. Cardinality(A \ Z) = Cardinality(A) - Cardinality(A \cap Z)
    BY <2>2, FS_Difference
  <2>4. QED
    BY <2>1, <2>2, <2>3, FS_CardinalityType DEF A
<1> HIDE DEF T
<1>7. Cardinality(Z) <= MaxInbound
  OBVIOUS
<1> HIDE DEF Z
<1>8. Cardinality(T) \in Nat
  BY <1>1, FS_Subset, FS_CardinalityType DEF T
<1>9. N <= MaxMessages
  BY <1>0, <1>4, <1>6, <1>7, <1>8, DesktopAssumption DEF MaxMessages
<1>10. QED
  BY <1>0, <1>9, DesktopAssumption DEF Messages, MaxMessages

-----------------------------------------------------------------------------
(* The outbox, step by step.                                                *)

\* What the server can do, and be asked to do: nothing, take a message of another, carry
\* out what was posted, or be handed the send that runs.
ServerMoves ==
    \/ UNCHANGED <<server, posts>>
    \/ server' = Append(server, 0) /\ UNCHANGED posts
    \/ \E try \in posts : server' = Append(server, try) /\ posts' = posts \ {try}
    \/ /\ server' = server /\ posts' = posts \cup {send.id}
       /\ send.pc = "asked" /\ send'.pc # "asked"

LEMMA ServerMoved ==
    ASSUME Outbox, ServerMoves
    PROVE  /\ server' \in Seq(0..Len(tried)) /\ OneCopy(server')
           /\ DOMAIN server \subseteq DOMAIN server' /\ \A m \in DOMAIN server : server'[m] = server[m]
           /\ \A t : Delivered(t) => Delivered(t)'
           /\ posts' \subseteq 1..Len(tried) /\ \A try \in posts' : ~Delivered(try)'
           /\ Handed' \subseteq Handed \cup {send.id}
           /\ Handed' = Handed \/ (send.pc = "asked" /\ send'.pc # "asked")
<1>0. /\ server \in Seq(0..Len(tried)) /\ OneCopy(server) /\ Len(tried) \in Nat
      /\ posts \subseteq 1..Len(tried) /\ \A try \in posts : ~Delivered(try)
  BY DesktopAssumption DEF Outbox, Truthful
<1>1. CASE UNCHANGED <<server, posts>>
  <2>1. Handed' = Handed /\ \A t : Delivered(t)' <=> Delivered(t)
    BY <1>1, HandedStays
  <2>2. QED
    BY <1>0, <1>1, <2>1
<1>2. ASSUME NEW x \in 0..Len(tried), server' = Append(server, x), ~Delivered(x) \/ x = 0
      PROVE  /\ server' \in Seq(0..Len(tried)) /\ OneCopy(server')
             /\ DOMAIN server \subseteq DOMAIN server' /\ \A m \in DOMAIN server : server'[m] = server[m]
             /\ \A t : Delivered(t) => Delivered(t)'
             /\ \A t : Delivered(t)' => Delivered(t) \/ t = x
             /\ \E m \in DOMAIN server' : server'[m] = x
             /\ \A m \in DOMAIN server' : m \in DOMAIN server \/ server'[m] = x
  <2>1. /\ server' \in Seq(0..Len(tried)) /\ DOMAIN server \subseteq DOMAIN server'
        /\ \A m \in DOMAIN server : server'[m] = server[m]
        /\ \A m \in DOMAIN server' : m \in DOMAIN server \/ (m = Len(server') /\ server'[m] = x)
        /\ \A t : Delivered(t) => Delivered(t)'
        /\ Len(server') \in DOMAIN server'
    BY <1>0, <1>2, ServerGrows
  <2>2. \A m \in DOMAIN server : x = 0 \/ server[m] # x
    BY <1>2 DEF Delivered
  <2>3. OneCopy(server')
    BY <1>0, <2>1, <2>2 DEF OneCopy
  <2>4. server'[Len(server')] = x
    <3>1. Len(server') = Len(server) + 1 /\ server'[Len(server) + 1] = x
      BY <1>0, <1>2, AppendOf
    <3>2. QED
      BY <3>1
  <2>5. \A t : Delivered(t)' => Delivered(t) \/ t = x
    BY <2>1 DEF Delivered
  <2>6. QED
    BY <2>1, <2>3, <2>4, <2>5
<1>3. CASE server' = Append(server, 0) /\ UNCHANGED posts
  <2>0. 0 \in 0..Len(tried)
    BY <1>0
  <2>1. /\ server' \in Seq(0..Len(tried)) /\ OneCopy(server')
        /\ DOMAIN server \subseteq DOMAIN server' /\ \A m \in DOMAIN server : server'[m] = server[m]
        /\ \A t : Delivered(t) => Delivered(t)'
        /\ \A t : Delivered(t)' => Delivered(t) \/ t = 0
        /\ \A m \in DOMAIN server' : m \in DOMAIN server \/ server'[m] = 0
    BY <1>2, <1>3, <2>0
  <2>2. Handed' = Handed
    BY <1>3, <2>1 DEF Handed
  <2>3. \A try \in posts : try # 0
    BY <1>0
  <2>4. QED
    BY <1>0, <1>3, <2>1, <2>2, <2>3
<1>4. ASSUME NEW x \in posts, server' = Append(server, x), posts' = posts \ {x}
      PROVE  /\ server' \in Seq(0..Len(tried)) /\ OneCopy(server')
             /\ DOMAIN server \subseteq DOMAIN server' /\ \A m \in DOMAIN server : server'[m] = server[m]
             /\ \A t : Delivered(t) => Delivered(t)'
             /\ posts' \subseteq 1..Len(tried) /\ \A try \in posts' : ~Delivered(try)'
             /\ Handed' = Handed
  <2>0. x \in 0..Len(tried) /\ x # 0 /\ ~Delivered(x)
    BY <1>0
  <2>1. /\ server' \in Seq(0..Len(tried)) /\ OneCopy(server')
        /\ DOMAIN server \subseteq DOMAIN server' /\ \A m \in DOMAIN server : server'[m] = server[m]
        /\ \A t : Delivered(t) => Delivered(t)'
        /\ \A t : Delivered(t)' => Delivered(t) \/ t = x
        /\ \E m \in DOMAIN server' : server'[m] = x
        /\ \A m \in DOMAIN server' : m \in DOMAIN server \/ server'[m] = x
    BY <1>2, <1>4, <2>0
  <2>2. Handed' = Handed
    BY <1>4, <2>0, <2>1 DEF Handed
  <2>3. QED
    BY <1>0, <1>4, <2>1, <2>2
<1>5. CASE /\ server' = server /\ posts' = posts \cup {send.id}
           /\ send.pc = "asked" /\ send'.pc # "asked"
  <2>1. send.id \in 1..Len(tried) /\ send.id \notin Handed
    BY <1>0, <1>5 DEF Outbox, SendFits
  <2>2. ~Delivered(send.id)
    BY <2>1, DeliveredWasHanded
  <2>3. \A t : Delivered(t)' <=> Delivered(t)
    BY <1>5 DEF Delivered
  <2>4. Handed' \subseteq Handed \cup {send.id}
    BY <1>5 DEF Handed
  <2>5. QED
    BY <1>0, <1>5, <2>1, <2>2, <2>3, <2>4
<1>6. QED
  BY <1>1, <1>3, <1>4, <1>5 DEF ServerMoves

LEMMA RowsStay ==
    ASSUME Outbox, UNCHANGED <<outgoing, tried>>, ServerMoves,
           send' \in [id : 0..Len(tried), pc : SendPC], send'.id = send.id,
           send' = send \/ (send.pc # "idle" /\ send'.pc \notin {"idle", "asked"}),
           send'.pc \in {"stored", "ok"} => Delivered(send.id),
           \A k \in DOMAIN queue' :
              \/ queue'[k].client # 0 => Delivered(queue'[k].client)
              \/ \E l \in DOMAIN queue : queue'[k] = queue[l]
    PROVE  Outbox'
<1> DEFINE n == Len(tried)
<1>0. n \in 0..MaxTries
  BY DEF Outbox
<1>1. /\ server' \in Seq(0..n) /\ OneCopy(server')
      /\ DOMAIN server \subseteq DOMAIN server' /\ \A m \in DOMAIN server : server'[m] = server[m]
      /\ \A t : Delivered(t) => Delivered(t)'
      /\ posts' \subseteq 1..n /\ \A try \in posts' : ~Delivered(try)'
      /\ Handed' \subseteq Handed \cup {send.id}
      /\ Handed' = Handed \/ (send.pc = "asked" /\ send'.pc # "asked")
  BY ServerMoved
<1>2. RowsFit(outgoing', send', n, Handed')
  <2>1. \A i \in DOMAIN outgoing : outgoing[i].id \in 1..n
    BY DEF Outbox, RowsFit
  <2>2. QED
    BY <1>0, <1>1, <2>1 DEF Outbox, RowsFit
<1>3. SendFits(send', n, Handed')
  <2>1. send'.pc = "asked" => send' = send /\ send.id # 0
    BY DEF Outbox, SendFits
  <2>2. send'.pc = "idle" <=> send'.id = 0
    BY DEF Outbox, SendFits
  <2>3. QED
    BY <1>1, <2>1, <2>2 DEF Outbox, SendFits
<1>4. Moves(outgoing', send')
  BY DEF Outbox, Moves
<1>5. Truthful'
  BY <1>1 DEF Outbox, Truthful
<1>6. Accounted(outgoing', tried', server')
  BY <1>1 DEF Outbox, Accounted
<1>7. QED
  BY <1>0, <1>2, <1>3, <1>4, <1>5, <1>6 DEF Outbox

\* The rows are rewritten, then drained.
LEMMA RowsRewritten ==
    ASSUME Outbox, tried' \in Seq(Drafts), Len(tried') \in 0..MaxTries, Len(tried) <= Len(tried'),
           NEW rows, NEW run,
           RowsFit(rows, run, Len(tried'), Handed), SendFits(run, Len(tried'), Handed),
           run.pc \in {"stored", "ok"} => Delivered(run.id),
           Accounted(rows, tried', server),
           DrainOutgoing(rows, run), UNCHANGED <<server, posts>>,
           \A k \in DOMAIN queue' : \E l \in DOMAIN queue : queue'[k] = queue[l]
    PROVE  Outbox'
<1> DEFINE n == Len(tried')
<1>1. /\ RowsFit(outgoing', send', n, Handed) /\ SendFits(send', n, Handed)
      /\ Moves(outgoing', send') /\ SameIds(rows, outgoing')
      /\ send' = run \/ send'.pc = "asked"
  BY DrainFits
<1>2. Accounted(outgoing', tried', server)
  BY <1>1 DEF Accounted, SameIds
<1>0. Handed' = Handed /\ \A t : Delivered(t)' <=> Delivered(t)
  BY HandedStays
<1>3. Truthful'
  <2>1. server \in Seq(0..n) /\ posts \subseteq 1..n
    <3>1. 0..Len(tried) \subseteq 0..n /\ posts \subseteq 1..n
      BY DEF Outbox, Truthful
    <3>2. Len(server) \in Nat /\ server \in [1..Len(server) -> 0..Len(tried)]
      BY DEF Outbox, Truthful
    <3>3. server \in [1..Len(server) -> 0..n]
      BY <3>1, <3>2
    <3>4. QED
      BY <3>1, <3>2, <3>3, SeqOf
  <2>2. send'.pc \in {"stored", "ok"} => Delivered(send'.id)
    BY <1>1
  <2>4. QED
    BY <1>0, <2>1, <2>2 DEF Outbox, Truthful
<1>4. QED
  BY <1>0, <1>1, <1>2, <1>3 DEF Outbox

\* One more id is given out.
LEMMA OneMoreTry ==
    ASSUME Outbox, NEW draft \in Drafts, tried' = Append(tried, draft), Len(tried) < MaxTries
    PROVE  LET n == Len(tried')
           IN  /\ tried' \in Seq(Drafts) /\ n \in 1..MaxTries /\ n = Len(tried) + 1
               /\ DOMAIN tried' = 1..n /\ DOMAIN tried = 1..Len(tried)
               /\ tried'[n] = draft /\ \A k \in 1..Len(tried) : tried'[k] = tried[k]
               /\ SendFits(send, n, Handed) /\ send.id # n
               /\ n \notin Handed /\ \A m \in DOMAIN server : server[m] \in 0..Len(tried)
<1>1. /\ tried' \in Seq(Drafts) /\ Len(tried) \in Nat /\ Len(tried') = Len(tried) + 1
      /\ DOMAIN tried = 1..Len(tried) /\ DOMAIN tried' = 1..(Len(tried) + 1)
      /\ tried'[Len(tried) + 1] = draft /\ \A i \in 1..Len(tried) : tried'[i] = tried[i]
  <2>1. tried \in Seq(Drafts)
    BY DEF Outbox
  <2>2. QED
    BY <2>1, AppendOf
<1>2. /\ \A m \in DOMAIN server : server[m] \in 0..Len(tried)
      /\ Len(tried) + 1 \notin Handed
  <2>1. /\ \A m \in DOMAIN server : server[m] \in 0..Len(tried)
        /\ posts \subseteq 1..Len(tried)
    BY DEF Outbox, Truthful
  <2>2. \A try \in Handed : try \in 0..Len(tried)
    BY <1>1, <2>1 DEF Handed
  <2>3. QED
    BY <1>1, <2>1, <2>2
<1>3. /\ send \in [id : 0..Len(tried), pc : SendPC]
      /\ send \in [id : 0..(Len(tried) + 1), pc : SendPC] /\ send.id # Len(tried) + 1
  BY <1>1 DEF Outbox, SendFits
<1>4. SendFits(send, Len(tried) + 1, Handed)
  BY <1>3 DEF Outbox, SendFits
<1>5. Len(tried) + 1 \in 1..MaxTries
  BY <1>1, DesktopAssumption
<1>6. QED
  BY <1>1, <1>2, <1>3, <1>4, <1>5

\* What is handed to drainOutgoing when a text is written ...
Written == Append(outgoing, [id |-> Len(tried'), state |-> "queued"])

LEMMA WrittenFits ==
    ASSUME Outbox, NEW draft \in Drafts, SendMessage(draft)
    PROVE  /\ RowsFit(Written, send, Len(tried'), Handed) /\ DrainOutgoing(Written, send)
           /\ DOMAIN Written = DOMAIN outgoing \cup {Len(outgoing) + 1}
           /\ Written[Len(outgoing) + 1].id = Len(tried')
           /\ \A i \in DOMAIN outgoing : Written[i] = outgoing[i]
           /\ Len(outgoing) + 1 \notin DOMAIN outgoing
<1> DEFINE n == Len(tried')
           row == [id |-> n, state |-> "queued"]
           rows == Append(outgoing, row)
<1>0. /\ tried' = Append(tried, draft) /\ Len(tried) < MaxTries
      /\ DrainOutgoing(rows, send)
  BY DEF SendMessage
<1>1. /\ n \in 1..MaxTries /\ n = Len(tried) + 1
      /\ SendFits(send, n, Handed) /\ send.id # n
      /\ n \notin Handed
  BY <1>0, OneMoreTry
<1>2. row \in Rows /\ row.id = n /\ row.state = "queued"
  BY <1>1 DEF Rows, Tries
<1>w. Written = rows
  BY DEF Written
<1> HIDE DEF row
<1>3. /\ rows \in Seq(Rows) /\ Len(outgoing) \in Nat
      /\ DOMAIN outgoing = 1..Len(outgoing) /\ DOMAIN rows = 1..(Len(outgoing) + 1)
      /\ rows[Len(outgoing) + 1] = row
      /\ \A i \in 1..Len(outgoing) : rows[i] = outgoing[i]
  <2>1. outgoing \in Seq(Rows)
    BY DEF Outbox, RowsFit
  <2>2. QED
    BY <1>2, <2>1, AppendOf
<1> HIDE DEF rows, n
<1>4. /\ DOMAIN rows = DOMAIN outgoing \cup {Len(outgoing) + 1}
      /\ Len(outgoing) + 1 \notin DOMAIN outgoing
  BY <1>3
<1>5. \A i \in DOMAIN outgoing : outgoing[i].id \in 1..Len(tried) /\ outgoing[i].id # n
  <2>1. Len(tried) \in Nat /\ n = Len(tried) + 1
    BY <1>1 DEF Outbox
  <2>2. QED
    BY <2>1 DEF Outbox, RowsFit
<1>6. RowsFit(rows, send, n, Handed)
  <2>1. OwnIds(rows)
    BY <1>2, <1>3, <1>4, <1>5 DEF OwnIds, Outbox, RowsFit
  <2>2. \A i \in DOMAIN outgoing : outgoing[i].id \in 1..n
    BY <1>1, <1>5
  <2>3. n \in 1..n
    BY <1>1
  <2>4. QED
    BY <1>1, <1>2, <1>3, <1>4, <2>1, <2>2, <2>3 DEF Outbox, RowsFit
<1>7. QED
  BY <1>0, <1>2, <1>3, <1>4, <1>6, <1>w DEF n

LEMMA SendMessageStep ==
    ASSUME Outbox, NEW draft \in Drafts, SendMessage(draft)
    PROVE  Outbox'
<1> DEFINE n == Len(tried')
<1>0. tried' = Append(tried, draft) /\ Len(tried) < MaxTries /\ UNCHANGED <<server, posts, queue>>
  BY DEF SendMessage, daemon, feed
<1>1. /\ tried' \in Seq(Drafts) /\ n \in 1..MaxTries /\ n = Len(tried) + 1
      /\ DOMAIN tried' = 1..n /\ DOMAIN tried = 1..Len(tried)
      /\ tried'[n] = draft /\ \A k \in 1..Len(tried) : tried'[k] = tried[k]
      /\ SendFits(send, n, Handed)
      /\ \A m \in DOMAIN server : server[m] \in 0..Len(tried)
  BY <1>0, OneMoreTry
<1>2. /\ RowsFit(Written, send, n, Handed) /\ DrainOutgoing(Written, send)
      /\ DOMAIN Written = DOMAIN outgoing \cup {Len(outgoing) + 1}
      /\ Written[Len(outgoing) + 1].id = n
      /\ \A i \in DOMAIN outgoing : Written[i] = outgoing[i]
  BY WrittenFits
<1> HIDE DEF n
<1>3. \A i \in DOMAIN outgoing : outgoing[i].id \in 1..Len(tried)
  BY DEF Outbox, RowsFit
<1>4. Accounted(Written, tried', server)
  <2> SUFFICES ASSUME NEW k \in 1..n
               PROVE  \/ \E i \in DOMAIN Written : tried'[Written[i].id] = tried'[k]
                      \/ \E m \in DOMAIN server : server[m] # 0 /\ tried'[server[m]] = tried'[k]
    BY <1>1 DEF Accounted
  <2>1. CASE k = n
    BY <1>2, <2>1
  <2>2. CASE k \in DOMAIN tried
    <3>1. CASE \E i \in DOMAIN outgoing : tried[outgoing[i].id] = tried[k]
      BY <1>1, <1>2, <1>3, <2>2, <3>1
    <3>2. CASE \E m \in DOMAIN server : server[m] # 0 /\ tried[server[m]] = tried[k]
      <4>1. PICK m \in DOMAIN server : server[m] # 0 /\ tried[server[m]] = tried[k]
        BY <3>2
      <4>2. server[m] \in 1..Len(tried)
        BY <1>1, <4>1
      <4>3. QED
        BY <1>1, <2>2, <4>1, <4>2
    <3>3. QED
      BY <2>2, <3>1, <3>2 DEF Outbox, Accounted
  <2>3. QED
    BY <1>1, <2>1, <2>2
<1>5. send.pc \in {"stored", "ok"} => Delivered(send.id)
  BY DEF Outbox, Truthful
<1>6. n \in 0..MaxTries /\ Len(tried) <= n
  BY <1>1 DEF Outbox
<1>7. QED
  BY <1>0, <1>1, <1>2, <1>4, <1>5, <1>6, RowsRewritten DEF n

\* ... and when a row is to be sent again.
Rewritten(i) == [outgoing EXCEPT ![i] = [id |-> Len(tried'), state |-> "queued"]]

LEMMA RewrittenFits ==
    ASSUME Outbox, NEW i, Retry(i)
    PROVE  /\ tried' = Append(tried, tried[outgoing[i].id]) /\ tried[outgoing[i].id] \in Drafts
           /\ RowsFit(Rewritten(i), send, Len(tried'), Handed) /\ DrainOutgoing(Rewritten(i), send)
           /\ DOMAIN Rewritten(i) = DOMAIN outgoing /\ i \in DOMAIN outgoing
           /\ Rewritten(i)[i].id = Len(tried')
           /\ \A j \in DOMAIN outgoing : j # i => Rewritten(i)[j] = outgoing[j]
<1> DEFINE n == Len(tried')
           row == [id |-> n, state |-> "queued"]
           rows == [outgoing EXCEPT ![i] = row]
           draft == tried[outgoing[i].id]
<1>0. /\ tried' = Append(tried, draft) /\ Len(tried) < MaxTries
      /\ DrainOutgoing(rows, send) /\ i \in DOMAIN outgoing
  BY DEF Retry
<1>5. \A j \in DOMAIN outgoing : outgoing[j].id \in 1..Len(tried)
  BY DEF Outbox, RowsFit
<1>a. draft \in Drafts
  BY <1>0, <1>5 DEF Outbox
<1>1. /\ n \in 1..MaxTries /\ n = Len(tried) + 1
      /\ SendFits(send, n, Handed) /\ send.id # n
      /\ n \notin Handed
  BY <1>0, <1>a, OneMoreTry
<1>2. row \in Rows /\ row.id = n /\ row.state = "queued"
  BY <1>1 DEF Rows, Tries
<1>w. Rewritten(i) = rows
  BY DEF Rewritten
<1> HIDE DEF row
<1>3. /\ rows \in Seq(Rows) /\ DOMAIN rows = DOMAIN outgoing
      /\ rows[i] = row /\ \A j \in DOMAIN outgoing : j # i => rows[j] = outgoing[j]
  <2>1. outgoing \in Seq(Rows)
    BY DEF Outbox, RowsFit
  <2>2. QED
    BY <1>0, <1>2, <2>1
<1> HIDE DEF rows, n, draft
<1>4. \A j \in DOMAIN outgoing : outgoing[j].id # n
  <2>1. Len(tried) \in Nat /\ n = Len(tried) + 1
    BY <1>1 DEF Outbox
  <2>2. QED
    BY <1>5, <2>1
<1>6. RowsFit(rows, send, n, Handed)
  <2>1. OwnIds(rows)
    <3>1. \A j, k \in DOMAIN outgoing : j # k => outgoing[j].id # outgoing[k].id
      BY DEF OwnIds, Outbox, RowsFit
    <3>2. \A j \in DOMAIN outgoing : rows[j].id = IF j = i THEN n ELSE outgoing[j].id
      BY <1>2, <1>3
    <3>3. QED
      BY <1>3, <1>4, <3>1, <3>2 DEF OwnIds
  <2>2. \A j \in DOMAIN outgoing : outgoing[j].id \in 1..n
    BY <1>1, <1>5
  <2>3. n \in 1..n
    BY <1>1
  <2>4. QED
    BY <1>1, <1>2, <1>3, <2>1, <2>2, <2>3 DEF Outbox, RowsFit
<1>7. QED
  BY <1>0, <1>a, <1>2, <1>3, <1>6, <1>w DEF n, draft

LEMMA RetryStep ==
    ASSUME Outbox, NEW i, Retry(i)
    PROVE  Outbox'
<1> DEFINE n == Len(tried')
           draft == tried[outgoing[i].id]
           rows == Rewritten(i)
<1>0. Len(tried) < MaxTries /\ UNCHANGED <<server, posts, queue>>
  BY DEF Retry, daemon, feed
<1>2. /\ tried' = Append(tried, draft) /\ draft \in Drafts
      /\ RowsFit(rows, send, n, Handed) /\ DrainOutgoing(rows, send)
      /\ DOMAIN rows = DOMAIN outgoing /\ i \in DOMAIN outgoing
      /\ rows[i].id = n
      /\ \A j \in DOMAIN outgoing : j # i => rows[j] = outgoing[j]
  BY RewrittenFits
<1>1. /\ tried' \in Seq(Drafts) /\ n \in 1..MaxTries /\ n = Len(tried) + 1
      /\ DOMAIN tried' = 1..n /\ DOMAIN tried = 1..Len(tried)
      /\ tried'[n] = draft /\ \A k \in 1..Len(tried) : tried'[k] = tried[k]
      /\ SendFits(send, n, Handed)
      /\ \A m \in DOMAIN server : server[m] \in 0..Len(tried)
  BY <1>0, <1>2, OneMoreTry
<1> HIDE DEF n, draft, rows
<1>3. \A j \in DOMAIN outgoing : outgoing[j].id \in 1..Len(tried)
  BY DEF Outbox, RowsFit
<1>4. Accounted(rows, tried', server)
  <2> SUFFICES ASSUME NEW k \in 1..n
               PROVE  \/ \E j \in DOMAIN rows : tried'[rows[j].id] = tried'[k]
                      \/ \E m \in DOMAIN server : server[m] # 0 /\ tried'[server[m]] = tried'[k]
    BY <1>1 DEF Accounted
  <2>0. tried'[rows[i].id] = draft /\ i \in DOMAIN rows
    BY <1>1, <1>2
  <2>1. CASE k = n
    BY <1>1, <2>0, <2>1
  <2>2. CASE k \in DOMAIN tried
    <3>1. ASSUME NEW j \in DOMAIN outgoing, tried[outgoing[j].id] = tried[k]
          PROVE  \E l \in DOMAIN rows : tried'[rows[l].id] = tried'[k]
      <4>1. CASE j = i
        BY <1>1, <2>0, <2>2, <3>1, <4>1 DEF draft
      <4>2. CASE j # i
        BY <1>1, <1>2, <1>3, <2>2, <3>1, <4>2
      <4>3. QED
        BY <4>1, <4>2
    <3>2. CASE \E m \in DOMAIN server : server[m] # 0 /\ tried[server[m]] = tried[k]
      <4>1. PICK m \in DOMAIN server : server[m] # 0 /\ tried[server[m]] = tried[k]
        BY <3>2
      <4>2. server[m] \in 1..Len(tried)
        BY <1>1, <4>1
      <4>3. QED
        BY <1>1, <2>2, <4>1, <4>2
    <3>3. QED
      BY <2>2, <3>1, <3>2 DEF Outbox, Accounted
  <2>3. QED
    BY <1>1, <2>1, <2>2
<1>5. send.pc \in {"stored", "ok"} => Delivered(send.id)
  BY DEF Outbox, Truthful
<1>6. n \in 0..MaxTries /\ Len(tried) <= n
  BY <1>1 DEF Outbox
<1>7. QED
  BY <1>0, <1>1, <1>2, <1>4, <1>5, <1>6, RowsRewritten DEF n

\* The event that is taken from the queue tells of a row only when that was delivered.
LEMMA EventTrue ==
    ASSUME Outbox, Feed, IngestMessage
    PROVE  /\ \A k \in DOMAIN queue' : \E l \in DOMAIN queue : queue'[k] = queue[l]
           /\ \E client : outgoing' = Without(outgoing, client) /\ (client # 0 => Delivered(client))
<1>0. queue' = Tail(queue) /\ queue # <<>> /\ outgoing' = Without(outgoing, Head(queue).client)
  BY DEF IngestMessage
<1>1. /\ Len(queue) \in Nat \ {0} /\ DOMAIN queue = 1..Len(queue)
      /\ DOMAIN queue' = 1..(Len(queue) - 1) /\ Head(queue) = queue[1]
      /\ \A i \in 1..(Len(queue) - 1) : queue'[i] = queue[i + 1]
  BY <1>0, TailOf DEF Feed
<1>2. \A k \in 1..(Len(queue) - 1) : k + 1 \in 1..Len(queue)
  BY <1>1
<1>3. 1 \in DOMAIN queue
  BY <1>1
<1>4. Head(queue).client # 0 => Delivered(Head(queue).client)
  BY <1>1, <1>3 DEF Outbox, Truthful
<1>5. QED
  BY <1>0, <1>1, <1>2, <1>4

LEMMA IngestMessageStep ==
    ASSUME Outbox, Feed, IngestMessage
    PROVE  Outbox'
<1> DEFINE n == Len(tried)
<1>0. UNCHANGED <<server, posts, tried, send>> /\ Handed' = Handed
  BY HandedStays DEF IngestMessage, daemon
<1>1. \A k \in DOMAIN queue' : \E l \in DOMAIN queue : queue'[k] = queue[l]
  BY EventTrue
<1>2. PICK client : outgoing' = Without(outgoing, client) /\ (client # 0 => Delivered(client))
  BY EventTrue
<1> DEFINE rest == Without(outgoing, client)
<1>3. outgoing \in Seq(Rows) /\ OwnIds(outgoing)
  BY DEF Outbox, RowsFit
<1>4. LeavesOut(outgoing, rest, client)
  BY <1>3, WithoutRow
<1> HIDE DEF rest
<1>5. RowsFit(rest, send, n, Handed)
  BY <1>4 DEF LeavesOut, Outbox, RowsFit
<1>6. Moves(rest, send)
  BY <1>4 DEF LeavesOut, Outbox, Moves
<1>7. Accounted(rest, tried, server)
  <2>1. \A i \in DOMAIN outgoing :
           \/ \E j \in DOMAIN rest : rest[j].id = outgoing[i].id
           \/ Delivered(outgoing[i].id)
    <3> SUFFICES ASSUME NEW i \in DOMAIN outgoing
                 PROVE  \/ \E j \in DOMAIN rest : rest[j].id = outgoing[i].id
                        \/ Delivered(outgoing[i].id)
      OBVIOUS
    <3>1. CASE outgoing[i].id = client
      <4>1. client # 0
        BY <3>1 DEF Outbox, RowsFit
      <4>2. QED
        BY <1>2, <3>1, <4>1
    <3>2. CASE outgoing[i].id # client
      BY <1>4, <3>2 DEF LeavesOut
    <3>3. QED
      BY <3>1, <3>2
  <2>2. QED
    BY <2>1, AccountedStays
<1>8. Truthful'
  <2>1. \A t : Delivered(t)' <=> Delivered(t)
    BY <1>0 DEF Delivered
  <2>2. QED
    BY <1>0, <1>1, <2>1 DEF Outbox, Truthful
<1>9. QED
  BY <1>0, <1>2, <1>5, <1>6, <1>7, <1>8 DEF rest, Outbox

\* Of the rows no one is shown sending once the send has ended.
LEMMA SettledRows ==
    ASSUME Outbox, send.pc \in {"ok", "error", "timeout"}
    PROVE  LET rows == Settled(outgoing)
           IN  RowsFit(rows, NoSend, Len(tried), Handed) /\ Accounted(rows, tried, server)
<1> DEFINE rows == Settled(outgoing)
           n == Len(tried)
<1>0. /\ outgoing \in Seq(Rows) /\ OwnIds(outgoing)
      /\ \A i \in DOMAIN outgoing : outgoing[i].id \in 1..n /\ outgoing[i].id # 0
      /\ NoSend.id = 0
  BY DEF Outbox, RowsFit, NoSend
<1>1. CASE send.pc = "ok"
  <2> DEFINE rest == Without(outgoing, send.id)
  <2>0. rows = rest
    BY <1>1 DEF Settled
  <2>1. LeavesOut(outgoing, rest, send.id)
    BY <1>0, WithoutRow
  <2> HIDE DEF rest
  <2>2. RowsFit(rest, NoSend, n, Handed)
    BY <1>0, <2>1 DEF LeavesOut, Outbox, RowsFit
  <2>3. Accounted(rest, tried, server)
    <3>1. Delivered(send.id)
      BY <1>1 DEF Outbox, Truthful
    <3>2. \A i \in DOMAIN outgoing :
             \/ \E j \in DOMAIN rest : rest[j].id = outgoing[i].id
             \/ Delivered(outgoing[i].id)
      <4> SUFFICES ASSUME NEW i \in DOMAIN outgoing, outgoing[i].id # send.id
                   PROVE  \E j \in DOMAIN rest : rest[j].id = outgoing[i].id
        BY <3>1
      <4>1. QED
        BY <2>1 DEF LeavesOut
    <3>3. QED
      BY <3>2, AccountedStays
  <2>4. QED
    BY <2>0, <2>2, <2>3
<1>2. CASE send.pc # "ok"
  <2> DEFINE state == Classified(send.pc)
  <2>1. state \in {"failed", "unconfirmed"}
    BY DEF Classified
  <2>2. rows = Marked(outgoing, send.id, state)
    BY <1>2 DEF Settled
  <2> HIDE DEF state, rows
  <2>3. /\ rows = [i \in DOMAIN outgoing |->
                     IF outgoing[i].id = send.id THEN [outgoing[i] EXCEPT !.state = state] ELSE outgoing[i]]
        /\ Len(outgoing) \in Nat /\ DOMAIN outgoing = 1..Len(outgoing)
    BY <1>0, <2>2 DEF Marked
  <2>4. ASSUME NEW i \in DOMAIN outgoing
        PROVE  /\ rows[i] \in Rows /\ rows[i].id = outgoing[i].id
               /\ \/ rows[i].state = state /\ outgoing[i].id = send.id
                  \/ rows[i] = outgoing[i] /\ outgoing[i].id # send.id
    <3>1. outgoing[i] \in Rows
      BY <1>0
    <3>2. CASE outgoing[i].id = send.id
      <4>1. rows[i] = [outgoing[i] EXCEPT !.state = state]
        BY <2>3, <3>2
      <4>2. QED
        BY <2>1, <3>1, <3>2, <4>1 DEF Rows
    <3>3. CASE outgoing[i].id # send.id
      BY <2>3, <3>1, <3>3
    <3>4. QED
      BY <3>2, <3>3
  <2>5. rows \in Seq(Rows) /\ DOMAIN rows = DOMAIN outgoing
    <3>1. rows \in [1..Len(outgoing) -> Rows]
      BY <2>3, <2>4
    <3>2. QED
      BY <2>3, <3>1, SeqOf
  <2>6. OwnIds(rows)
    BY <1>0, <2>4, <2>5 DEF OwnIds
  <2>7. RowsFit(rows, NoSend, n, Handed)
    <3> SUFFICES ASSUME NEW i \in DOMAIN outgoing
                 PROVE  /\ rows[i].id \in 1..n
                        /\ rows[i].state # "sending"
                        /\ rows[i].state = "queued" =>
                              rows[i].id # 0 /\ rows[i].id \notin Handed
      BY <1>0, <2>5, <2>6 DEF RowsFit
    <3>1. CASE rows[i].state = state
      BY <1>0, <2>1, <2>4, <3>1
    <3>2. CASE rows[i] = outgoing[i] /\ outgoing[i].id # send.id
      BY <1>0, <3>2 DEF Outbox, RowsFit
    <3>3. QED
      BY <2>4, <3>1, <3>2
  <2>8. Accounted(rows, tried, server)
    BY <2>4, <2>5, AccountedStays
  <2>9. QED
    BY <2>7, <2>8 DEF rows
<1>3. QED
  BY <1>1, <1>2

LEMMA SendExitStep ==
    ASSUME Outbox, SendExit
    PROVE  Outbox'
<1> DEFINE rows == Settled(outgoing)
<1>1. /\ RowsFit(rows, NoSend, Len(tried), Handed) /\ Accounted(rows, tried, server)
      /\ DrainOutgoing(rows, NoSend) /\ UNCHANGED <<server, posts, tried, queue>>
  BY SettledRows DEF SendExit, daemon, feed
<1>2. SendFits(NoSend, Len(tried), Handed) /\ NoSend.pc = "idle"
  BY DEF SendFits, NoSend, SendPC, Outbox
<1> HIDE DEF rows
<1>3. tried' = tried /\ tried \in Seq(Drafts) /\ Len(tried) \in 0..MaxTries /\ Len(tried) <= Len(tried)
  BY <1>1 DEF Outbox
<1>4. QED
  BY <1>1, <1>2, <1>3, RowsRewritten

-----------------------------------------------------------------------------
(* What the server holds stays within its bounds.                           *)

Others(srv) == {m \in DOMAIN srv : srv[m] = 0}

LEMMA ServerStep ==
    ASSUME Outbox, Feed, NEW x \in 0..Len(tried), server' = Append(server, x),
           x = 0 => Cardinality(Others(server)) < MaxInbound,
           x # 0 => ~Delivered(x)
    PROVE  /\ Cardinality(Others(server')) <= MaxInbound
           /\ OneCopy(server') /\ server' \in Seq(0..Len(tried))
           /\ Len(server') \in DOMAIN server' /\ DOMAIN server' \subseteq Messages
           /\ DOMAIN server \subseteq DOMAIN server'
           /\ \A m \in DOMAIN server : server'[m] = server[m]
           /\ Len(server') \notin DOMAIN server
<1> DEFINE L == Len(server')
<1>1. /\ server' \in Seq(0..Len(tried)) /\ DOMAIN server \subseteq DOMAIN server'
      /\ \A m \in DOMAIN server : server'[m] = server[m]
      /\ \A m \in DOMAIN server' : m \in DOMAIN server \/ (m = L /\ server'[m] = x)
      /\ L \in DOMAIN server'
  BY ServerGrows DEF Outbox, Truthful
<1>2. L \notin DOMAIN server /\ server'[L] = x
  <2>1. server \in Seq(0..Len(tried))
    BY DEF Outbox, Truthful
  <2>2. DOMAIN server = 1..Len(server) /\ Len(server) \in Nat /\ L = Len(server) + 1
    BY <2>1, AppendOf
  <2>3. L \notin DOMAIN server
    BY <2>2
  <2>4. QED
    BY <1>1, <2>3
<1> HIDE DEF L
<1>3. OneCopy(server')
  BY <1>1 DEF OneCopy, Outbox, Truthful, Delivered
<1>4. Cardinality(Others(server')) <= MaxInbound
  <2>1. IsFiniteSet(Others(server))
    <3>1. server \in Seq(0..Len(tried))
      BY DEF Outbox, Truthful
    <3>2. Len(server) \in Nat /\ DOMAIN server = 1..Len(server)
      BY <3>1
    <3>3. Others(server) \subseteq 1..Len(server)
      BY <3>2 DEF Others
    <3>4. QED
      BY <3>2, <3>3, UpTo, FS_Subset
  <2>2. CASE x = 0
    <3>1. Others(server') = Others(server) \cup {L}
      BY <1>1, <1>2, <2>2 DEF Others
    <3>2. Cardinality(Others(server)) \in Nat
      BY <2>1, FS_CardinalityType
    <3>3. \/ Cardinality(Others(server) \cup {L}) = Cardinality(Others(server))
          \/ Cardinality(Others(server) \cup {L}) = Cardinality(Others(server)) + 1
      BY <2>1, FS_AddElement, Zenon
    <3>4. Cardinality(Others(server)) + 1 <= MaxInbound /\ Cardinality(Others(server)) <= MaxInbound
      BY <2>2, <3>2, DesktopAssumption
    <3>5. Cardinality(Others(server) \cup {L}) <= MaxInbound
      BY <3>3, <3>4
    <3>6. QED
      BY <3>1, <3>5
  <2>3. CASE x # 0
    <3>1. Others(server') = Others(server)
      BY <1>1, <1>2, <2>3 DEF Others
    <3>2. QED
      BY <3>1 DEF Feed, Others
  <2>4. QED
    BY <2>2, <2>3
<1>5. DOMAIN server' \subseteq Messages
  <2> DEFINE srv == server'
  <2>1. /\ Len(tried) \in 0..MaxTries /\ srv \in Seq(0..Len(tried)) /\ OneCopy(srv)
        /\ Cardinality({m \in DOMAIN srv : srv[m] = 0}) <= MaxInbound
    BY <1>1, <1>3, <1>4 DEF Outbox, Others
  <2> HIDE DEF srv
  <2>2. DOMAIN srv \subseteq Messages
    BY <2>1, ServerFits
  <2>3. QED
    BY <2>2 DEF srv
<1>6. QED
  BY <1>1, <1>2, <1>3, <1>4, <1>5 DEF L

LEMMA ServerWithin ==
    ASSUME Outbox, Feed
    PROVE  DOMAIN server \subseteq Messages /\ Len(server) <= MaxMessages
BY ServerFits DEF Outbox, Truthful, Feed

\* The message of a send that was stored is in the cache.
LEMMA Told ==
    ASSUME Outbox, Feed, send.pc = "stored"
    PROVE  LET m == CHOOSE m \in DOMAIN server : server[m] = send.id
           IN  m \in cache /\ m \in Messages /\ server[m] = send.id
<1>1. PICK c \in cache : server[c] = send.id
  BY DEF Feed
<1>2. send.id # 0
  BY DEF Outbox, SendFits
<1>3. \A m \in DOMAIN server : server[m] = send.id => m = c
  BY <1>1, <1>2 DEF Outbox, Truthful, OneCopy, Feed
<1>4. QED
  BY <1>1, <1>3, ServerWithin DEF Feed

-----------------------------------------------------------------------------
(* The outbox, all steps.                                                   *)

Quiet ==
    \/ OpenChat \/ Leave \/ LeaveSettings \/ LoadOlder \/ HistoryRead \/ HistoryExit
    \/ Subscribe \/ IngestSnapshot \/ IngestLagged \/ HistoryFails \/ StreamEnds \/ UNCHANGED vars

LEMMA QuietStep ==
    ASSUME Quiet
    PROVE  /\ UNCHANGED <<server, posts, polled, cache, outgoing, tried, send>>
           /\ queue' \in {queue, <<>>}
BY DEF Quiet, OpenChat, Leave, LeaveSettings, LoadOlder, HistoryRead, HistoryExit, Subscribe,
       IngestSnapshot, IngestLagged, HistoryFails, StreamEnds, vars, daemon, feed, outbox

\* A new event is known to be about a message of the server's, and whose it is.
LEMMA EventFits ==
    ASSUME Outbox, Feed, NEW m \in Messages, NEW client \in 0..Len(tried)
    PROVE  [id |-> m, client |-> client] \in Events
<1>1. client \in Tries \cup {0}
  BY DesktopAssumption DEF Tries, Outbox
<1>2. QED
  BY <1>1 DEF Events

LEMMA OutboxStep ==
    ASSUME Outbox, Feed, [Next]_vars
    PROVE  Outbox'
<1>0. /\ send \in [id : 0..Len(tried), pc : SendPC]
      /\ Len(tried) \in 0..MaxTries
      /\ queue \in Seq(Events) /\ Len(queue) <= ChannelMax /\ lagged \in BOOLEAN
      /\ send.pc \in {"stored", "ok"} => Delivered(send.id)
  BY DEF Outbox, SendFits, Truthful, Feed
<1>1. CASE Quiet
  <2>1. \A k \in DOMAIN queue' : \E l \in DOMAIN queue : queue'[k] = queue[l]
    BY <1>1, QuietStep
  <2>2. QED
    BY <1>0, <1>1, <2>1, QuietStep, RowsStay DEF ServerMoves
<1>2. CASE Arrive
  <2> DEFINE e == [id |-> Len(server'), client |-> 0]
  <2>1. /\ server' = Append(server, 0) /\ Broadcast(e) /\ UNCHANGED <<posts, outbox>>
        /\ Cardinality(Others(server)) < MaxInbound
    BY <1>2 DEF Arrive, ApplyLive, Others
  <2>2. e.client = 0 /\ e \in Events
    <3>1. Len(server') \in Messages /\ 0 \in 0..Len(tried)
      BY <1>0, <2>1, ServerStep
    <3>2. QED
      BY <3>1, EventFits
  <2> HIDE DEF e
  <2>3. \A k \in DOMAIN queue' : queue'[k] = e \/ \E l \in DOMAIN queue : queue'[k] = queue[l]
    BY <1>0, <2>1, <2>2, Broadcasts
  <2>4. QED
    BY <1>0, <2>1, <2>2, <2>3, RowsStay DEF outbox, ServerMoves
<1>3. ASSUME NEW m \in Messages, Echo(m) PROVE Outbox'
  <2> DEFINE e == [id |-> m, client |-> 0]
  <2>1. Broadcast(e) /\ UNCHANGED outbox /\ UNCHANGED <<server, posts>>
    BY <1>3 DEF Echo, ApplyLive
  <2>2. e.client = 0 /\ e \in Events
    BY <1>0, EventFits
  <2> HIDE DEF e
  <2>3. \A k \in DOMAIN queue' : queue'[k] = e \/ \E l \in DOMAIN queue : queue'[k] = queue[l]
    BY <1>0, <2>1, <2>2, Broadcasts
  <2>4. QED
    BY <1>0, <2>1, <2>2, <2>3, RowsStay DEF outbox, ServerMoves
<1>4. ASSUME NEW from, NEW to, SendTo(from, to), "idle" \notin from,
             to \in {"posted", "stored", "error", "timeout"}
      PROVE  /\ send' \in [id : 0..Len(tried), pc : SendPC] /\ send'.id = send.id /\ send'.pc = to
             /\ send.pc # "idle" /\ UNCHANGED <<outgoing, tried, queue>>
  BY <1>0, <1>4 DEF SendTo, SendPC, feed
<1>5. CASE Refuse \/ AnswerError \/ TimeOut
  <2>1. UNCHANGED <<server, posts>> /\ \E to \in {"error", "timeout"} : \E from :
           "idle" \notin from /\ SendTo(from, to)
    <3>1. CASE Refuse
      BY <3>1 DEF Refuse, daemon
    <3>2. CASE AnswerError
      BY <3>2 DEF AnswerError, daemon
    <3>3. CASE TimeOut
      BY <3>3 DEF TimeOut, daemon
    <3>4. QED
      BY <1>5, <3>1, <3>2, <3>3
  <2>2. QED
    BY <1>4, <2>1, RowsStay DEF ServerMoves
<1>6. CASE Post
  <2>1. SendTo({"asked"}, "posted") /\ send.pc = "asked"
    BY <1>6 DEF Post, SendTo
  <2>2. server' = server /\ posts' = posts \cup {send.id}
    BY <1>6 DEF Post
  <2>3. QED
    BY <1>4, <2>1, <2>2, RowsStay DEF ServerMoves
<1>6a. ASSUME NEW try \in Tries, CarryOut(try) PROVE Outbox'
  <2>1. /\ try \in posts /\ server' = Append(server, try) /\ posts' = posts \ {try}
        /\ UNCHANGED <<outgoing, tried, send, queue>>
    BY <1>6a DEF CarryOut, outbox, feed
  <2>2. ServerMoves
    BY <2>1 DEF ServerMoves
  <2>3. QED
    BY <1>0, <2>1, <2>2, RowsStay
<1>7. CASE StoreSent
  <2>1. SendTo({"posted"}, "stored") /\ Delivered(send.id) /\ UNCHANGED <<server, posts>>
    BY <1>7 DEF StoreSent
  <2>2. QED
    BY <1>4, <2>1, RowsStay DEF ServerMoves
<1>8. CASE TellSent
  <2>1. /\ send.pc = "stored" /\ send' = [send EXCEPT !.pc = "ok"]
        /\ UNCHANGED <<server, posts, outgoing, tried>>
    BY <1>8 DEF TellSent, daemon
  <2>2. send'.id = send.id /\ send'.pc = "ok" /\ send' \in [id : 0..Len(tried), pc : SendPC]
    BY <1>0, <2>1 DEF SendPC
  <2>3. PICK client \in {send.id, 0} :
           Broadcast([id |-> CHOOSE m \in DOMAIN server : server[m] = send.id, client |-> client])
    BY <1>8 DEF TellSent
  <2> DEFINE e == [id |-> CHOOSE m \in DOMAIN server : server[m] = send.id, client |-> client]
  <2>4. client \in 0..Len(tried) /\ (client # 0 => Delivered(client))
    BY <1>0, <2>1, <2>3
  <2>5. e \in Events /\ e.client = client
    BY <2>1, <2>4, Told, EventFits
  <2> HIDE DEF e
  <2>6. \A k \in DOMAIN queue' : queue'[k] = e \/ \E l \in DOMAIN queue : queue'[k] = queue[l]
    BY <1>0, <2>3, <2>5, Broadcasts DEF e
  <2>7. \A k \in DOMAIN queue' :
           \/ queue'[k].client # 0 => Delivered(queue'[k].client)
           \/ \E l \in DOMAIN queue : queue'[k] = queue[l]
    BY <2>4, <2>5, <2>6
  <2>8. QED
    BY <1>0, <2>1, <2>2, <2>7, RowsStay DEF ServerMoves
<1>9. CASE Restart
  <2>1. /\ queue' = <<>> /\ UNCHANGED <<server, posts, outgoing, tried>>
        /\ send' = IF send.pc \in {"asked", "posted", "stored", "ok"}
                   THEN [send EXCEPT !.pc = "error"] ELSE send
    BY <1>9 DEF Restart, daemon
  <2>2. CASE send' = send
    BY <1>0, <2>1, <2>2, RowsStay DEF ServerMoves
  <2>3. CASE send' = [send EXCEPT !.pc = "error"] /\ send.pc # "idle"
    <3>1. send'.id = send.id /\ send'.pc = "error" /\ send' \in [id : 0..Len(tried), pc : SendPC]
      BY <1>0, <2>3 DEF SendPC
    <3>2. QED
      BY <2>1, <2>3, <3>1, RowsStay DEF ServerMoves
  <2>4. QED
    BY <2>1, <2>2, <2>3
<1>10. QED
  BY <1>1, <1>2, <1>3, <1>5, <1>6, <1>6a, <1>7, <1>8, <1>9,
     SendMessageStep, RetryStep, SendExitStep, IngestMessageStep DEF Next, Quiet

-----------------------------------------------------------------------------
(* The cache and the events.                                                *)

LEMMA DrainedSend ==
    ASSUME NEW rows, NEW run, DrainOutgoing(rows, run)
    PROVE  send' = run \/ send'.pc = "asked"
BY DEF DrainOutgoing

LEMMA FeedStep ==
    ASSUME Outbox, Feed, [Next]_vars
    PROVE  Feed'
<1>0. /\ cache \subseteq DOMAIN server /\ polled \subseteq cache
      /\ queue \in Seq(Events) /\ Len(queue) <= ChannelMax /\ lagged \in BOOLEAN
      /\ 0 \in 0..Len(tried) /\ send.id \in 0..Len(tried) /\ ChannelMax \in Nat
      /\ <<>> \in Seq(Events) /\ Len(<<>>) <= ChannelMax
  BY DesktopAssumption DEF Outbox, SendFits, Feed
<1>1. CASE Quiet
  <2>1. stream' \in {"down", "subscribed", "up"} /\ lagged' \in BOOLEAN
    BY <1>1 DEF Quiet, OpenChat, Leave, LeaveSettings, LoadOlder, HistoryRead, HistoryExit,
       Subscribe, IngestSnapshot, IngestLagged, HistoryFails, StreamEnds, vars, feed, Feed
  <2>2. queue' \in Seq(Events) /\ Len(queue') <= ChannelMax /\ \A k \in DOMAIN queue' : queue'[k].id \in cache
    <3>1. CASE queue' = queue
      BY <1>0, <3>1 DEF Feed
    <3>2. CASE queue' = <<>>
      BY <1>0, <3>2
    <3>3. QED
      BY <1>1, <3>1, <3>2, QuietStep
  <2>3. QED
    BY <1>1, <2>1, <2>2, QuietStep DEF Feed
<1>2. CASE Arrive
  <2> DEFINE L == Len(server')
             e == [id |-> L, client |-> 0]
  <2>1. /\ server' = Append(server, 0) /\ Cardinality(Others(server)) < MaxInbound
        /\ polled' = polled \cup {L} /\ cache' = cache \cup {L}
        /\ Broadcast(e) /\ UNCHANGED <<stream, send>>
    BY <1>2 DEF Arrive, ApplyLive, Others, outbox
  <2>2. /\ Cardinality(Others(server')) <= MaxInbound /\ L \in DOMAIN server'
        /\ DOMAIN server \subseteq DOMAIN server' /\ L \in Messages
        /\ \A m \in DOMAIN server : server'[m] = server[m]
    BY <1>0, <2>1, ServerStep
  <2>3. e \in Events /\ e.id = L
    BY <1>0, <2>2, EventFits
  <2> HIDE DEF e, L
  <2>4. /\ queue' \in Seq(Events) /\ Len(queue') <= ChannelMax /\ lagged' \in BOOLEAN
        /\ \A k \in DOMAIN queue' : queue'[k] = e \/ \E l \in DOMAIN queue : queue'[k] = queue[l]
    BY <1>0, <2>1, <2>3, Broadcasts
  <2>5. cache' \subseteq DOMAIN server' /\ polled' \subseteq cache'
    BY <1>0, <2>1, <2>2
  <2>6. \A k \in DOMAIN queue' : queue'[k].id \in cache'
    BY <2>1, <2>3, <2>4 DEF Feed
  <2>7. QED
    BY <1>0, <2>1, <2>2, <2>4, <2>5, <2>6 DEF Feed, Others
<1>3. ASSUME NEW m \in Messages, Echo(m) PROVE Feed'
  <2> DEFINE e == [id |-> m, client |-> 0]
  <2>1. /\ polled' = polled \cup {m} /\ cache' = cache \cup {m} /\ m \in DOMAIN server
        /\ Broadcast(e) /\ UNCHANGED <<server, stream, send>>
    BY <1>3 DEF Echo, ApplyLive, outbox
  <2>2. e \in Events /\ e.id = m
    BY <1>0, EventFits
  <2> HIDE DEF e
  <2>3. /\ queue' \in Seq(Events) /\ Len(queue') <= ChannelMax /\ lagged' \in BOOLEAN
        /\ \A k \in DOMAIN queue' : queue'[k] = e \/ \E l \in DOMAIN queue : queue'[k] = queue[l]
    BY <1>0, <2>1, <2>2, Broadcasts
  <2>4. \A k \in DOMAIN queue' : queue'[k].id \in cache'
    BY <2>1, <2>2, <2>3 DEF Feed
  <2>5. QED
    BY <1>0, <2>1, <2>3, <2>4 DEF Feed
<1>4. CASE IngestMessage
  <2>1. /\ queue' = Tail(queue) /\ queue # <<>>
        /\ UNCHANGED <<server, polled, cache, stream, lagged, send>>
    BY <1>4 DEF IngestMessage, daemon
  <2>2. /\ queue' \in Seq(Events) /\ Len(queue) \in Nat \ {0} /\ Len(queue') = Len(queue) - 1
        /\ DOMAIN queue = 1..Len(queue) /\ DOMAIN queue' = 1..(Len(queue) - 1)
        /\ \A i \in 1..(Len(queue) - 1) : queue'[i] = queue[i + 1]
    BY <1>0, <2>1, TailOf
  <2>3. Len(queue') <= ChannelMax /\ \A i \in DOMAIN queue' : i + 1 \in DOMAIN queue
    BY <1>0, <2>2
  <2>4. QED
    BY <2>1, <2>2, <2>3 DEF Feed
<1>5. ASSUME UNCHANGED <<server, polled, cache, stream, queue, lagged>>,
             send'.pc # "stored" \/ send' = send
      PROVE  Feed'
  BY <1>5 DEF Feed
<1>6. ASSUME NEW draft, SendMessage(draft) PROVE Feed'
  BY <1>5, <1>6, DrainedSend DEF SendMessage, daemon, feed
<1>7. ASSUME NEW i, Retry(i) PROVE Feed'
  BY <1>5, <1>7, DrainedSend DEF Retry, daemon, feed
<1>8. CASE SendExit
  BY <1>5, <1>8, DrainedSend DEF SendExit, daemon, feed, NoSend
<1>9. ASSUME NEW from, NEW to, SendTo(from, to)
      PROVE  /\ send'.pc = to /\ send'.id = send.id /\ send.pc \in from
             /\ UNCHANGED <<stream, queue, lagged>>
  BY <1>9 DEF SendTo, feed, Outbox, SendFits
<1>10. CASE Refuse \/ AnswerError \/ TimeOut
  BY <1>5, <1>9, <1>10 DEF Refuse, AnswerError, TimeOut, daemon
<1>11. CASE Post
  BY <1>5, <1>9, <1>11 DEF Post
<1>11a. ASSUME NEW try \in Tries, CarryOut(try) PROVE Feed'
  <2>1. /\ try \in posts /\ server' = Append(server, try)
        /\ UNCHANGED <<send, stream, queue, lagged, polled, cache>>
    BY <1>11a DEF CarryOut, outbox, feed
  <2>2. try \in 0..Len(tried) /\ try # 0 /\ ~Delivered(try)
    BY <2>1 DEF Outbox, Truthful
  <2>3. /\ Cardinality(Others(server')) <= MaxInbound /\ DOMAIN server \subseteq DOMAIN server'
        /\ \A m \in DOMAIN server : server'[m] = server[m]
    BY <2>1, <2>2, ServerStep
  <2>4. QED
    BY <1>0, <2>1, <2>3 DEF Feed, Others
<1>12. CASE StoreSent
  <2> DEFINE m == CHOOSE m \in DOMAIN server : server[m] = send.id
  <2>1. /\ Delivered(send.id) /\ cache' = cache \cup {m} /\ UNCHANGED <<server, polled>>
        /\ SendTo({"posted"}, "stored")
    BY <1>12 DEF StoreSent
  <2>2. m \in DOMAIN server /\ server[m] = send.id
    BY <2>1 DEF Delivered
  <2> HIDE DEF m
  <2>3. send'.id = send.id /\ UNCHANGED <<stream, queue, lagged>>
    BY <1>9, <2>1
  <2>4. QED
    BY <1>0, <2>1, <2>2, <2>3 DEF Feed
<1>13. CASE TellSent
  <2>1. /\ send.pc = "stored" /\ send' = [send EXCEPT !.pc = "ok"]
        /\ UNCHANGED <<server, polled, cache, stream>>
    BY <1>13 DEF TellSent, daemon
  <2>2. send'.pc = "ok"
    BY <2>1 DEF Outbox, SendFits
  <2>3. PICK client \in {send.id, 0} :
           Broadcast([id |-> CHOOSE m \in DOMAIN server : server[m] = send.id, client |-> client])
    BY <1>13 DEF TellSent
  <2> DEFINE e == [id |-> CHOOSE m \in DOMAIN server : server[m] = send.id, client |-> client]
  <2>4. e \in Events /\ e.id \in cache
    BY <1>0, <2>1, <2>3, Told, EventFits
  <2> HIDE DEF e
  <2>5. /\ queue' \in Seq(Events) /\ Len(queue') <= ChannelMax /\ lagged' \in BOOLEAN
        /\ \A k \in DOMAIN queue' : queue'[k] = e \/ \E l \in DOMAIN queue : queue'[k] = queue[l]
    BY <1>0, <2>3, <2>4, Broadcasts DEF e
  <2>6. QED
    BY <1>0, <2>1, <2>2, <2>4, <2>5 DEF Feed
<1>14. CASE Restart
  <2>1. /\ stream' = "down" /\ queue' = <<>> /\ lagged' = FALSE /\ UNCHANGED <<server, polled, cache>>
    BY <1>14 DEF Restart, daemon
  <2>2. send'.pc # "stored"
    <3>1. send \in [id : 0..Len(tried), pc : SendPC]
      BY DEF Outbox, SendFits
    <3>2. CASE send.pc \in {"asked", "posted", "stored", "ok"}
      BY <1>14, <3>1, <3>2 DEF Restart
    <3>3. CASE send.pc \notin {"asked", "posted", "stored", "ok"}
      BY <1>14, <3>3 DEF Restart
    <3>4. QED
      BY <3>2, <3>3
  <2>3. queue' \in Seq(Events) /\ Len(queue') <= ChannelMax /\ DOMAIN queue' = {}
    BY <1>0, <2>1
  <2>4. QED
    BY <1>0, <2>1, <2>2, <2>3 DEF Feed
<1>15. QED
  BY <1>1, <1>2, <1>3, <1>4, <1>6, <1>7, <1>8, <1>10, <1>11, <1>11a, <1>12, <1>13, <1>14
     DEF Next, Quiet

-----------------------------------------------------------------------------
(* The thread and its loads.                                                *)

HistoryFits(h, S) ==
    /\ h \in [pc : HistoryPC, before : 0..MaxMessages, found : SUBSET S,
              pending : SUBSET (0..MaxMessages)]
    /\ \A b, c \in h.pending : b = c
    /\ h.pc = "idle" => h.pending = {}

\* A load of the newest messages has yet to read the cache.
ReloadDue(h) == (h.pc = "asked" /\ h.before = 0) \/ 0 \in h.pending

LEMMA HistoryStarts ==
    ASSUME NEW S
    PROVE  /\ HistoryFits(NoHistory, S)
           /\ \A b \in 0..MaxMessages : HistoryFits(Asked(b), S)
<1>1. 0 \in 0..MaxMessages
  BY DesktopAssumption DEF MaxMessages
<1>2. QED
  BY <1>1 DEF HistoryFits, NoHistory, Asked, HistoryPC

\* What loadMessages does to historyProc.
LEMMA LoadFits ==
    ASSUME NEW S, NEW h, HistoryFits(h, S), NEW b \in 0..MaxMessages
    PROVE  LET next == LoadMessages(h, b)
           IN  /\ HistoryFits(next, S)
               /\ b = 0 => ReloadDue(next)
               /\ h.pc = "idle" => next.pc = "asked" /\ next.before = b /\ next.pending = {}
               /\ h.pc # "idle" => /\ next.pc = h.pc /\ next.before = h.before /\ next.found = h.found
                                   /\ next.pending = {b}
<1> DEFINE next == LoadMessages(h, b)
<1>1. CASE h.pc = "idle"
  <2>1. next = Asked(b)
    BY <1>1 DEF LoadMessages
  <2>2. HistoryFits(next, S) /\ next.pc = "asked" /\ next.before = b /\ next.pending = {}
    BY <2>1, HistoryStarts DEF Asked
  <2> HIDE DEF next
  <2>3. QED
    BY <1>1, <2>2 DEF ReloadDue, next
<1>2. CASE h.pc # "idle"
  <2>1. next = [h EXCEPT !.pending = {b}]
    BY <1>2 DEF LoadMessages
  <2> HIDE DEF next
  <2>2. /\ next.pc = h.pc /\ next.before = h.before /\ next.found = h.found /\ next.pending = {b}
        /\ next \in [pc : HistoryPC, before : 0..MaxMessages, found : SUBSET S,
                     pending : SUBSET (0..MaxMessages)]
    BY <2>1 DEF HistoryFits
  <2>3. HistoryFits(next, S) /\ (b = 0 => ReloadDue(next))
    BY <1>2, <2>2 DEF HistoryFits, ReloadDue
  <2>4. QED
    BY <1>2, <2>2, <2>3 DEF next
<1>3. QED
  BY <1>1, <1>2

Thread ==
    /\ shown \in {"closed", "open", "settings"} /\ excused \in BOOLEAN
    /\ thread \subseteq cache
    /\ HistoryFits(history, cache)

LEMMA NewestIn ==
    ASSUME NEW S
    PROVE  Newest(S) \subseteq S
BY DEF Newest

\* What one step makes of the thread when no load and no event is involved.
LEMMA ThreadKept ==
    ASSUME Thread, UNCHANGED <<shown, thread, history, excused>>, cache \subseteq cache'
    PROVE  Thread'
BY DEF Thread, HistoryFits

LEMMA LoadKeeps ==
    ASSUME Thread, Load, UNCHANGED cache
    PROVE  HistoryFits(history', cache') /\ excused' = FALSE /\ ReloadDue(history')
<1>1. 0 \in 0..MaxMessages
  BY DesktopAssumption DEF MaxMessages
<1>2. HistoryFits(history, cache) /\ history' = LoadMessages(history, 0)
  BY DEF Thread, Load
<1>3. HistoryFits(LoadMessages(history, 0), cache) /\ ReloadDue(LoadMessages(history, 0))
  BY <1>1, <1>2, LoadFits
<1>4. QED
  BY <1>2, <1>3 DEF Load

LEMMA OldestLoads ==
    ASSUME Outbox, Feed, Thread, LoadOlder
    PROVE  \E b \in 0..MaxMessages : history' = LoadMessages(history, b)
<1> DEFINE oldest == CHOOSE m \in thread : \A n \in thread : m <= n
<1>1. thread \subseteq 1..MaxMessages
  BY ServerWithin DEF Thread, Feed, Messages
<1>2. thread \subseteq Nat /\ thread # {}
  BY <1>1 DEF LoadOlder
<1>3. oldest \in thread
  <2>1. \E m \in thread : \A n \in thread : m <= n
    BY <1>2, LeastNat
  <2>2. QED
    BY <2>1
<1>4. history' = LoadMessages(history, oldest)
  BY DEF LoadOlder
<1> HIDE DEF oldest
<1>5. oldest \in 0..MaxMessages
  BY <1>1, <1>3, DesktopAssumption DEF MaxMessages
<1>6. QED
  BY <1>4, <1>5

\* What historyProc's exit makes of the thread.
LEMMA ExitFits ==
    ASSUME Thread, HistoryExit
    PROVE  /\ HistoryFits(history', cache') /\ UNCHANGED <<cache, shown, excused>>
           /\ thread' = IF history.pc = "read" /\ shown = "open" THEN Merged ELSE thread
           /\ thread' \subseteq cache'
           /\ history'.pc # "read"
           /\ shown = "open" /\ 0 \in history.pending => ReloadDue(history')
<1>1. /\ UNCHANGED <<cache, shown, excused>>
      /\ thread' = IF history.pc = "read" /\ shown = "open" THEN Merged ELSE thread
  BY DEF HistoryExit, daemon
<1>2. Merged \subseteq cache
  BY DEF Merged, Thread, HistoryFits
<1>3. thread' \subseteq cache'
  BY <1>1, <1>2 DEF Thread
<1>4. HistoryFits(history', cache) /\ history'.pc # "read"
      /\ (shown = "open" /\ 0 \in history.pending => ReloadDue(history'))
  <2>1. CASE history.pending = {} \/ shown # "open"
    <3>1. history' = NoHistory
      BY <2>1 DEF HistoryExit
    <3>2. QED
      BY <2>1, <3>1, HistoryStarts DEF NoHistory
  <2>2. CASE history.pending # {} /\ shown = "open"
    <3> DEFINE b == CHOOSE b \in history.pending : TRUE
    <3>1. b \in history.pending /\ b \in 0..MaxMessages /\ (0 \in history.pending => b = 0)
      BY <2>2 DEF Thread, HistoryFits
    <3>2. history' = LoadMessages(NoHistory, b)
      BY <2>2 DEF HistoryExit
    <3> HIDE DEF b
    <3>3. history' = Asked(b)
      BY <3>2 DEF LoadMessages, NoHistory
    <3>4. QED
      BY <3>1, <3>3, HistoryStarts DEF Asked, ReloadDue
  <2>3. QED
    BY <2>1, <2>2
<1>5. QED
  BY <1>1, <1>3, <1>4

\* What reading the cache adds to a load.
LEMMA ReadFits ==
    ASSUME Thread, HistoryRead
    PROVE  /\ HistoryFits(history', cache') /\ UNCHANGED <<cache, shown, thread, excused>>
           /\ history'.pc = "read" /\ history'.before = history.before
           /\ history'.pending = history.pending /\ history.found \subseteq history'.found
           /\ history.before = 0 => Newest(cache) \subseteq history'.found
<1> DEFINE S == {m \in cache : history.before = 0 \/ m < history.before}
           found == history.found \cup Newest(S)
<1>1. /\ history' = [history EXCEPT !.pc = "read", !.found = found]
      /\ UNCHANGED <<cache, shown, thread, excused>>
  BY DEF HistoryRead, daemon
<1>2. found \subseteq cache /\ (history.before = 0 => S = cache)
  BY NewestIn DEF Thread, HistoryFits
<1>3. history.before = 0 => Newest(cache) \subseteq found
  BY <1>2
<1>4. history.found \subseteq found
  OBVIOUS
<1> HIDE DEF found
<1>5. /\ history'.pc = "read" /\ history'.found = found
      /\ history'.before = history.before /\ history'.pending = history.pending
      /\ history' \in [pc : HistoryPC, before : 0..MaxMessages, found : SUBSET cache,
                       pending : SUBSET (0..MaxMessages)]
  BY <1>1, <1>2 DEF Thread, HistoryFits, HistoryPC
<1>6. HistoryFits(history', cache)
  BY <1>5 DEF Thread, HistoryFits
<1>7. QED
  BY <1>1, <1>3, <1>4, <1>5, <1>6

\* What an event does to the thread and to a load that runs.
LEMMA EventShown ==
    ASSUME Feed, Thread, IngestMessage
    PROVE  LET m == Head(queue).id
           IN  /\ m \in cache /\ HistoryFits(history', cache)
               /\ thread' = (IF shown = "open" THEN thread \cup {m} ELSE thread)
               /\ history'.pc = history.pc /\ history'.before = history.before
               /\ history'.pending = history.pending
               /\ history.pc # "idle" => history'.found = history.found \cup {m}
               /\ UNCHANGED <<polled, cache, stream, lagged, shown, excused>>
               /\ \A k \in DOMAIN queue : queue[k].id = m \/ \E l \in DOMAIN queue' : queue'[l] = queue[k]
<1> DEFINE m == Head(queue).id
<1>1. /\ queue' = Tail(queue) /\ queue # <<>> /\ history' = Kept(history, m)
      /\ thread' = (IF shown = "open" THEN thread \cup {m} ELSE thread)
      /\ UNCHANGED <<polled, cache, stream, lagged, shown, excused>>
  BY DEF IngestMessage, daemon
<1>2. /\ Len(queue) \in Nat \ {0} /\ DOMAIN queue = 1..Len(queue) /\ Head(queue) = queue[1]
      /\ DOMAIN queue' = 1..(Len(queue) - 1)
      /\ \A i \in 1..(Len(queue) - 1) : queue'[i] = queue[i + 1]
  BY <1>1, TailOf DEF Feed
<1>3. 1 \in DOMAIN queue /\ m = queue[1].id
  BY <1>2
<1>4. m \in cache
  BY <1>3 DEF Feed
<1>5. \A k \in DOMAIN queue : queue[k].id = m \/ \E l \in DOMAIN queue' : queue'[l] = queue[k]
  <2> SUFFICES ASSUME NEW k \in DOMAIN queue, k # 1
               PROVE  \E l \in DOMAIN queue' : queue'[l] = queue[k]
    BY <1>3
  <2>1. k - 1 \in 1..(Len(queue) - 1) /\ (k - 1) + 1 = k
    BY <1>2
  <2>2. queue'[k - 1] = queue[k]
    BY <1>2, <2>1
  <2>3. QED
    BY <1>2, <2>1, <2>2
<1> HIDE DEF m
<1>6. /\ HistoryFits(history', cache)
      /\ history'.pc = history.pc /\ history'.before = history.before
      /\ history'.pending = history.pending
      /\ history.pc # "idle" => history'.found = history.found \cup {m}
  <2>1. CASE history.pc = "idle"
    BY <1>1, <2>1 DEF Kept, Thread
  <2>2. CASE history.pc # "idle"
    <3> DEFINE found == history.found \cup {m}
    <3>1. history' = [history EXCEPT !.found = found]
      BY <1>1, <2>2 DEF Kept
    <3>2. found \subseteq cache
      BY <1>4 DEF Thread, HistoryFits
    <3> HIDE DEF found
    <3>3. /\ history'.pc = history.pc /\ history'.before = history.before
          /\ history'.pending = history.pending /\ history'.found = found
          /\ history' \in [pc : HistoryPC, before : 0..MaxMessages, found : SUBSET cache,
                           pending : SUBSET (0..MaxMessages)]
      BY <3>1, <3>2 DEF Thread, HistoryFits
    <3>4. QED
      BY <3>3 DEF Thread, HistoryFits, found
  <2>3. QED
    BY <2>1, <2>2
<1>7. QED
  BY <1>1, <1>4, <1>5, <1>6 DEF m

LEMMA ThreadStep ==
    ASSUME Outbox, Feed, Thread, [Next]_vars
    PROVE  Thread'
<1>0. /\ shown \in {"closed", "open", "settings"} /\ excused \in BOOLEAN /\ thread \subseteq cache
      /\ HistoryFits(history, cache)
  BY DEF Thread
<1>1. CASE OpenChat
  <2>1. /\ Load /\ UNCHANGED cache /\ shown' = "open" /\ thread' \in {thread, {}}
    BY <1>1 DEF OpenChat, daemon
  <2>2. QED
    BY <1>0, <2>1, LoadKeeps DEF Thread
<1>2. CASE Leave \/ LeaveSettings
  BY <1>0, <1>2 DEF Leave, LeaveSettings, daemon, Thread
<1>3. CASE LoadOlder
  <2>1. PICK b \in 0..MaxMessages : history' = LoadMessages(history, b)
    BY <1>3, OldestLoads
  <2>2. /\ UNCHANGED <<cache, shown, thread>> /\ excused' \in BOOLEAN
    BY <1>0, <1>3 DEF LoadOlder, daemon
  <2>3. HistoryFits(history', cache)
    BY <1>0, <2>1, LoadFits
  <2>4. QED
    BY <1>0, <2>2, <2>3 DEF Thread
<1>4. CASE HistoryRead
  BY <1>0, <1>4, ReadFits DEF Thread
<1>5. CASE HistoryExit
  BY <1>0, <1>5, ExitFits DEF Thread
<1>6. CASE IngestSnapshot \/ IngestLagged
  <2>1. ReloadOpen /\ UNCHANGED <<cache, shown, thread>>
    BY <1>6 DEF IngestSnapshot, IngestLagged, daemon
  <2>2. CASE Load
    BY <1>0, <2>1, <2>2, LoadKeeps DEF Thread
  <2>3. CASE UNCHANGED <<history, excused>>
    BY <2>1, <2>3, ThreadKept
  <2>4. QED
    BY <2>1, <2>2, <2>3 DEF ReloadOpen
<1>7. CASE IngestMessage
  <2> DEFINE m == Head(queue).id
  <2>1. /\ m \in cache /\ HistoryFits(history', cache)
        /\ thread' = (IF shown = "open" THEN thread \cup {m} ELSE thread)
        /\ UNCHANGED <<cache, shown, excused>>
    BY <1>7, EventShown
  <2> HIDE DEF m
  <2>2. QED
    BY <1>0, <2>1 DEF Thread
<1>8. ASSUME UNCHANGED panel, cache \subseteq cache' PROVE Thread'
  BY <1>8, ThreadKept DEF panel
<1>9. CASE Arrive \/ \E m \in Messages : Echo(m)
  BY <1>8, <1>9 DEF Arrive, Echo, ApplyLive
<1>10. CASE (\E draft \in Drafts : SendMessage(draft)) \/ (\E i \in 1..MaxTries : Retry(i))
            \/ (\E try \in Tries : CarryOut(try)) \/ Subscribe \/ StreamEnds \/ TellSent
  BY <1>8, <1>10 DEF SendMessage, Retry, CarryOut, Subscribe, StreamEnds, TellSent, daemon
<1>11. CASE Refuse \/ Post \/ AnswerError \/ TimeOut \/ StoreSent
  BY <1>8, <1>11 DEF Refuse, Post, AnswerError, TimeOut, StoreSent, SendTo, daemon
<1>12. CASE SendExit
  <2>1. UNCHANGED <<cache, shown, thread>>
    BY <1>12 DEF SendExit, daemon
  <2>2. CASE Load
    BY <1>0, <2>1, <2>2, LoadKeeps DEF Thread
  <2>3. CASE UNCHANGED <<history, excused>>
    BY <2>1, <2>3, ThreadKept
  <2>4. QED
    BY <1>12, <2>2, <2>3 DEF SendExit
<1>13. CASE Restart
  <2>1. UNCHANGED <<cache, shown, thread, excused>>
    BY <1>13 DEF Restart, daemon
  <2>2. CASE history' = history
    BY <2>1, <2>2, ThreadKept
  <2>3. CASE history' = [history EXCEPT !.pc = "failed"]
    <3>1. HistoryFits(history', cache)
      BY <1>0, <2>3 DEF HistoryFits, HistoryPC
    <3>2. QED
      BY <1>0, <2>1, <3>1 DEF Thread
  <2>4. QED
    BY <1>13, <2>2, <2>3 DEF Restart
<1>14. CASE HistoryFails
  <2>1. /\ history' = [history EXCEPT !.pc = "failed"] /\ history.pc # "idle"
        /\ UNCHANGED <<cache, shown, thread>> /\ excused' \in BOOLEAN
    BY <1>0, <1>14 DEF HistoryFails, daemon
  <2>2. HistoryFits(history', cache)
    BY <1>0, <2>1 DEF HistoryFits, HistoryPC
  <2>3. QED
    BY <1>0, <2>1, <2>2 DEF Thread
<1>15. CASE UNCHANGED vars
  BY <1>8, <1>15 DEF vars, daemon
<1>16. QED
  BY <1>1, <1>2, <1>3, <1>4, <1>5, <1>6, <1>7, <1>9, <1>10, <1>11, <1>12, <1>13, <1>14, <1>15
     DEF Next

LEMMA BoundsStep ==
    ASSUME Bounds, [Next]_vars
    PROVE  Bounds'
<1> USE DesktopAssumption DEF Bounds
<1>1. CASE OpenChat \/ Leave \/ LoadOlder
  BY <1>1 DEF OpenChat, Leave, LoadOlder, Visit
<1>2. CASE HistoryFails \/ StreamEnds \/ Restart
  BY <1>2 DEF HistoryFails, StreamEnds, Restart, Fault
<1>3. CASE \/ LeaveSettings \/ HistoryRead \/ HistoryExit \/ Arrive \/ (\E m \in Messages : Echo(m))
           \/ Subscribe \/ IngestSnapshot \/ IngestLagged \/ IngestMessage
           \/ (\E draft \in Drafts : SendMessage(draft)) \/ (\E i \in 1..MaxTries : Retry(i))
           \/ Refuse \/ Post \/ (\E try \in Tries : CarryOut(try)) \/ AnswerError \/ TimeOut
           \/ StoreSent \/ TellSent \/ SendExit
  <2>1. UNCHANGED <<visits, faults>>
    BY <1>3 DEF LeaveSettings, HistoryRead, HistoryExit, Arrive, Echo, ApplyLive, Subscribe,
       IngestSnapshot, IngestLagged, IngestMessage, SendMessage, Retry, Refuse, Post, CarryOut,
       AnswerError, TimeOut, StoreSent, SendTo, TellSent, SendExit
  <2>2. QED
    BY <2>1
<1>4. CASE UNCHANGED vars
  BY <1>4 DEF vars
<1>5. QED
  BY <1>1, <1>2, <1>3, <1>4 DEF Next

-----------------------------------------------------------------------------

LEMMA DesktopInvariant == Spec => [](Outbox /\ Feed /\ Thread /\ Bounds)
<1> DEFINE IInv == Outbox /\ Feed /\ Thread /\ Bounds
<1>1. Init => IInv
  <2> SUFFICES ASSUME Init PROVE IInv
    OBVIOUS
  <2> USE DesktopAssumption DEF Init
  <2>1. /\ Len(tried) = 0 /\ DOMAIN tried = {} /\ DOMAIN server = {} /\ DOMAIN outgoing = {}
        /\ DOMAIN queue = {} /\ tried \in Seq(Drafts) /\ outgoing \in Seq(Rows)
        /\ server \in Seq(0..Len(tried)) /\ queue \in Seq(Events) /\ Len(queue) = 0
    OBVIOUS
  <2>2. send.id = 0 /\ send.pc = "idle" /\ send \in [id : 0..Len(tried), pc : SendPC]
    BY <2>1 DEF NoSend, SendPC
  <2>3. Outbox
    BY <2>1, <2>2 DEF Handed, Outbox, RowsFit, SendFits, Moves, Truthful, Accounted, OwnIds, OneCopy
  <2>4. Feed
    <3>1. {m \in DOMAIN server : server[m] = 0} = {}
      BY <2>1
    <3>2. Cardinality({m \in DOMAIN server : server[m] = 0}) <= MaxInbound
      <4>1. Cardinality({}) <= MaxInbound
        BY FS_EmptySet
      <4>2. QED
        BY <3>1, <4>1, Zenon
    <3>3. cache = {} /\ polled = {} /\ stream = "down" /\ lagged = FALSE
      OBVIOUS
    <3>4. Len(queue) <= ChannelMax
      BY <2>1
    <3> HIDE DEF Init
    <3>5. QED
      BY <2>1, <2>2, <3>2, <3>3, <3>4 DEF Feed
  <2>5. Thread
    BY HistoryStarts DEF Thread
  <2>6. QED
    BY <2>3, <2>4, <2>5 DEF Bounds
<1>2. IInv /\ [Next]_vars => IInv'
  BY OutboxStep, FeedStep, ThreadStep, BoundsStep
<1>3. QED
  BY <1>1, <1>2, PTL DEF Spec

\* The plugin's and the daemon's state keep their types and bounds: the channel
\* never overfills, one load waits at most, and the thread shows stored messages only.
THEOREM DesktopTypes == Spec => []TypeOK
<1>1. Outbox /\ Feed /\ Thread /\ Bounds => TypeOK
  <2> SUFFICES ASSUME Outbox, Feed, Thread, Bounds PROVE TypeOK
    OBVIOUS
  <2>1. Len(server) <= MaxMessages /\ server \in Seq(Tries \cup {0})
    <3>1. 0..Len(tried) \subseteq Tries \cup {0}
      BY DesktopAssumption DEF Outbox, Tries
    <3>2. Len(server) \in Nat /\ server \in [1..Len(server) -> 0..Len(tried)]
      BY DEF Outbox, Truthful
    <3>3. server \in [1..Len(server) -> Tries \cup {0}]
      BY <3>1, <3>2
    <3>4. QED
      BY <3>2, <3>3, SeqOf, ServerWithin
  <2>2. history \in History
    BY ServerWithin DEF Thread, HistoryFits, History, Feed
  <2>3. Cardinality(history.pending) <= 1
    <3>1. CASE history.pending = {}
      BY <3>1, FS_EmptySet
    <3>2. ASSUME NEW b \in history.pending PROVE Cardinality(history.pending) <= 1
      <4>1. history.pending = {b}
        BY DEF Thread, HistoryFits
      <4>2. Cardinality({b}) = 1
        BY FS_Singleton
      <4>3. QED
        BY <4>1, <4>2
    <3>3. QED
      BY <3>1, <3>2
  <2>4. send \in [id : Tries \cup {0}, pc : SendPC] /\ outgoing \in Seq(Rows)
    BY DesktopAssumption DEF Outbox, SendFits, RowsFit, Tries
  <2>5. tried \in Seq(Drafts) /\ Len(tried) <= MaxTries /\ posts \subseteq Tries
    BY DesktopAssumption DEF Outbox, Truthful, Tries
  <2>6. QED
    BY <2>1, <2>2, <2>3, <2>4, <2>5 DEF Feed, Thread, Bounds, TypeOK
<1>2. QED
  BY <1>1, DesktopInvariant, PTL

\* Nothing the user wrote is lost between the outbox and the server, and no try is
\* delivered twice.
THEOREM NothingLostOrDoubled == Spec => []SentAsAsked
<1>1. Outbox => SentAsAsked
  <2> SUFFICES ASSUME Outbox PROVE SentAsAsked
    OBVIOUS
  <2>1. \A k \in DOMAIN tried :
           \/ \E i \in DOMAIN outgoing : tried[outgoing[i].id] = tried[k]
           \/ \E m \in DOMAIN server : server[m] # 0 /\ tried[server[m]] = tried[k]
    BY DEF Outbox, Accounted
  <2>2. \A m, n \in DOMAIN server : m # n => server[m] # server[n] \/ server[m] = 0
    BY DEF Outbox, Truthful, OneCopy
  <2>3. QED
    BY <2>1, <2>2 DEF SentAsAsked
<1>2. QED
  BY <1>1, DesktopInvariant, PTL

\* The outbox never stalls: a row waits only behind a send that runs.
THEOREM OutboxNeverStalls == Spec => []OutboxMoves
<1>1. Outbox => OutboxMoves
  BY DEF Outbox, RowsFit, Moves, OutboxMoves
<1>2. QED
  BY <1>1, DesktopInvariant, PTL

-----------------------------------------------------------------------------
(* The open conversation.  Of the newest messages each one is in view, is  *)
(* on its way as an event, or a load that will read it is due.             *)

LoadComes == stream # "up" \/ lagged \/ ReloadDue(history)

OnTheWay(m) == m \notin polled \/ \E k \in DOMAIN queue : queue[k].id = m

\* What the thread is, or will be when the reload that has read the cache ends.
InView == IF history.pc = "read" /\ history.before = 0 THEN Merged ELSE thread

Current ==
    shown = "open" /\ ~excused =>
        LoadComes \/ \A m \in Newest(cache) : OnTheWay(m) \/ m \in InView

LEMMA NewestShrinks ==
    ASSUME NEW S, NEW T, IsFiniteSet(T), S \subseteq T
    PROVE  \A m \in Newest(T) : m \in S => m \in Newest(S)
<1> SUFFICES ASSUME NEW m \in Newest(T), m \in S PROVE m \in Newest(S)
  OBVIOUS
<1> DEFINE A == {n \in S : n > m}
           B == {n \in T : n > m}
<1>1. A \subseteq B /\ B \subseteq T
  OBVIOUS
<1>2. Cardinality(B) < PageLimit
  BY DEF Newest
<1>3. Cardinality(A) <= Cardinality(B) /\ Cardinality(A) \in Nat /\ Cardinality(B) \in Nat
  <2> HIDE DEF A, B
  <2>1. IsFiniteSet(B)
    BY <1>1, FS_Subset
  <2>2. QED
    BY <1>1, <2>1, FS_Subset, FS_CardinalityType
<1>4. Cardinality(A) < PageLimit
  <2> HIDE DEF A, B
  <2>1. QED
    BY <1>2, <1>3, DesktopAssumption
<1>5. QED
  BY <1>4 DEF Newest

LEMMA CacheFinite ==
    ASSUME Outbox, Feed
    PROVE  IsFiniteSet(cache)
<1>1. DOMAIN server = 1..Len(server) /\ Len(server) \in Nat
  BY DEF Outbox, Truthful
<1>2. QED
  BY <1>1, UpTo, FS_Subset DEF Feed

\* A step that takes nothing from view, from the events or from what is to be loaded.
LEMMA StaysCurrent ==
    ASSUME Current, IsFiniteSet(cache'), cache \subseteq cache',
           shown' = "open" /\ ~excused' => shown = "open" /\ ~excused,
           LoadComes => LoadComes',
           InView \subseteq InView',
           \A m \in cache' :
              \/ LoadComes'
              \/ (m \in cache /\ (OnTheWay(m) => OnTheWay(m)' \/ m \in InView'))
              \/ OnTheWay(m)'
    PROVE  Current'
<1> SUFFICES ASSUME shown' = "open", ~excused', ~LoadComes', NEW m \in Newest(cache'), ~OnTheWay(m)'
             PROVE  m \in InView'
  BY DEF Current
<1>1. m \in cache'
  BY DEF Newest
<1>2. m \in cache /\ (OnTheWay(m) => m \in InView')
  BY <1>1
<1>3. m \in Newest(cache)
  <2> DEFINE T == cache'
  <2>1. IsFiniteSet(T) /\ cache \subseteq T /\ m \in Newest(T)
    OBVIOUS
  <2> HIDE DEF T
  <2>2. QED
    BY <1>2, <2>1, NewestShrinks
<1>4. OnTheWay(m) \/ m \in InView
  BY <1>3 DEF Current
<1>5. QED
  BY <1>2, <1>4

\* A step that leaves the conversation and the events alone.
LEMMA UntouchedCurrent ==
    ASSUME Current, IsFiniteSet(cache'), UNCHANGED <<panel, feed, polled, cache>>
    PROVE  Current'
<1>1. InView' = InView /\ (LoadComes => LoadComes') /\ \A m : OnTheWay(m) => OnTheWay(m)'
  BY DEF InView, Merged, LoadComes, OnTheWay, panel, feed
<1>2. QED
  BY <1>1, StaysCurrent DEF panel

\* A load of the newest messages that is due is enough.
LEMMA LoadIsEnough ==
    ASSUME LoadComes'
    PROVE  Current'
BY DEF Current

\* A message that is stored and told of.
LEMMA AppliedCurrent ==
    ASSUME Feed, Current, IsFiniteSet(cache'), NEW m \in Messages, NEW client \in Tries \cup {0},
           cache' = cache \cup {m}, polled' \in {polled, polled \cup {m}},
           Broadcast([id |-> m, client |-> client]), UNCHANGED <<stream, panel>>
    PROVE  Current'
<1> DEFINE e == [id |-> m, client |-> client]
<1>1. e \in Events /\ e.id = m
  BY DEF Events
<1>2. Broadcast(e)
  OBVIOUS
<1> HIDE DEF e
<1>3. \/ stream = "down"
      \/ lagged' = TRUE
      \/ /\ lagged' = lagged
         /\ \E l \in DOMAIN queue' : queue'[l] = e
         /\ \A k \in DOMAIN queue : \E l \in DOMAIN queue' : queue'[l] = queue[k]
  BY <1>1, <1>2, Broadcasts DEF Feed
<1>4. CASE stream = "down" \/ lagged' = TRUE
  BY <1>4, LoadIsEnough DEF LoadComes
<1>5. CASE /\ lagged' = lagged
           /\ \E l \in DOMAIN queue' : queue'[l] = e
           /\ \A k \in DOMAIN queue : \E l \in DOMAIN queue' : queue'[l] = queue[k]
  <2>1. InView' = InView /\ (LoadComes => LoadComes')
    BY <1>5 DEF InView, Merged, LoadComes, panel
  <2>2. OnTheWay(m)'
    BY <1>1, <1>5 DEF OnTheWay
  <2>3. \A n : n # m /\ OnTheWay(n) => OnTheWay(n)'
    <3> SUFFICES ASSUME NEW n, n # m, OnTheWay(n), n \in polled' PROVE \E k \in DOMAIN queue' : queue'[k].id = n
      BY DEF OnTheWay
    <3>1. n \in polled
      OBVIOUS
    <3>2. PICK k \in DOMAIN queue : queue[k].id = n
      BY <3>1 DEF OnTheWay
    <3>3. PICK l \in DOMAIN queue' : queue'[l] = queue[k]
      BY <1>5
    <3>4. QED
      BY <3>2, <3>3
  <2>4. \A n \in cache' : OnTheWay(n)' \/ (n \in cache /\ (OnTheWay(n) => OnTheWay(n)'))
    BY <2>2, <2>3
  <2>5. QED
    BY <2>1, <2>4, StaysCurrent DEF panel
<1>6. QED
  BY <1>3, <1>4, <1>5

\* A reload that is asked for.
LEMMA LoadCurrent ==
    ASSUME Thread, Load, UNCHANGED cache
    PROVE  Current'
BY LoadKeeps, LoadIsEnough DEF LoadComes

\* "Load older": a load that runs goes on; a reload that waited is given up, and that is
\* what `excused` records.
LEMMA OlderCurrent ==
    ASSUME Outbox, Feed, Thread, Current, LoadOlder, IsFiniteSet(cache')
    PROVE  Current'
<1>1. PICK b \in 0..MaxMessages : history' = LoadMessages(history, b)
  BY OldestLoads
<1>2. /\ UNCHANGED <<polled, cache, stream, queue, lagged, shown, thread>>
      /\ excused' = (excused \/ 0 \in history.pending)
  BY DEF LoadOlder, daemon, feed
<1>3. HistoryFits(history, cache)
  BY DEF Thread
<1>4. /\ history.pc = "idle" => history'.pc = "asked"
      /\ history.pc # "idle" => /\ history'.pc = history.pc /\ history'.before = history.before
                                /\ history'.found = history.found
  BY <1>1, <1>3, LoadFits
<1>5. InView \subseteq InView'
  BY <1>2, <1>4 DEF InView, Merged
<1>6. CASE 0 \in history.pending
  BY <1>2, <1>6 DEF Current
<1>7. CASE 0 \notin history.pending
  <2>1. LoadComes => LoadComes'
    BY <1>2, <1>4, <1>7 DEF LoadComes, ReloadDue
  <2>2. \A m : OnTheWay(m) => OnTheWay(m)'
    BY <1>2 DEF OnTheWay
  <2>3. shown' = "open" /\ ~excused' => shown = "open" /\ ~excused
    BY <1>2
  <2>4. QED
    BY <1>2, <1>5, <2>1, <2>2, <2>3, StaysCurrent
<1>8. QED
  BY <1>6, <1>7

\* What the load has read will be in view, what it has not is in view or on its way.
LEMMA ReadCurrent ==
    ASSUME Thread, Current, HistoryRead, IsFiniteSet(cache')
    PROVE  Current'
<1>1. /\ UNCHANGED <<cache, shown, thread, excused>>
      /\ history'.pc = "read" /\ history'.before = history.before
      /\ history'.pending = history.pending /\ history.found \subseteq history'.found
      /\ history.before = 0 => Newest(cache) \subseteq history'.found
  BY ReadFits
<1>2. UNCHANGED <<polled, stream, queue, lagged>> /\ history.pc = "asked"
  BY DEF HistoryRead, daemon, feed
<1>3. CASE history.before = 0
  <2>1. Newest(cache') \subseteq InView'
    BY <1>1, <1>3 DEF InView, Merged
  <2>2. QED
    BY <2>1 DEF Current
<1>4. CASE history.before # 0
  <2>1. InView = thread /\ thread \subseteq InView'
    BY <1>1, <1>2, <1>4 DEF InView
  <2>2. LoadComes => LoadComes'
    BY <1>1, <1>2, <1>4 DEF LoadComes, ReloadDue
  <2>3. \A m : OnTheWay(m) => OnTheWay(m)'
    BY <1>2 DEF OnTheWay
  <2>4. QED
    BY <1>1, <2>1, <2>2, <2>3, StaysCurrent
<1>5. QED
  BY <1>3, <1>4

LEMMA ExitCurrent ==
    ASSUME Thread, Current, HistoryExit, IsFiniteSet(cache')
    PROVE  Current'
<1>1. /\ UNCHANGED <<cache, shown, excused>>
      /\ thread' = IF history.pc = "read" /\ shown = "open" THEN Merged ELSE thread
      /\ history'.pc # "read"
      /\ shown = "open" /\ 0 \in history.pending => ReloadDue(history')
  BY ExitFits
<1>2. UNCHANGED <<polled, stream, queue, lagged>> /\ history.pc \in {"read", "failed"}
  BY DEF HistoryExit, daemon, feed
<1>3. SUFFICES ASSUME shown = "open" PROVE Current'
  BY <1>1 DEF Current
<1>4. InView \subseteq InView'
  BY <1>1, <1>3 DEF InView, Merged
<1>5. LoadComes => LoadComes'
  BY <1>1, <1>2, <1>3 DEF LoadComes, ReloadDue
<1>6. \A m : OnTheWay(m) => OnTheWay(m)'
  BY <1>2 DEF OnTheWay
<1>7. QED
  BY <1>1, <1>4, <1>5, <1>6, StaysCurrent

\* An event that is taken from the queue comes into view, or the load that runs hears
\* of it.
LEMMA EventCurrent ==
    ASSUME Feed, Thread, Current, IngestMessage, IsFiniteSet(cache')
    PROVE  Current'
<1> DEFINE m == Head(queue).id
<1>1. /\ thread' = (IF shown = "open" THEN thread \cup {m} ELSE thread)
      /\ history'.pc = history.pc /\ history'.before = history.before
      /\ history'.pending = history.pending
      /\ history.pc # "idle" => history'.found = history.found \cup {m}
      /\ UNCHANGED <<polled, cache, stream, lagged, shown, excused>>
      /\ \A k \in DOMAIN queue : queue[k].id = m \/ \E l \in DOMAIN queue' : queue'[l] = queue[k]
  BY EventShown
<1> HIDE DEF m
<1>2. SUFFICES ASSUME shown = "open" PROVE Current'
  BY <1>1 DEF Current
<1>3. InView \subseteq InView' /\ m \in InView'
  BY <1>1, <1>2 DEF InView, Merged
<1>4. LoadComes => LoadComes'
  BY <1>1 DEF LoadComes, ReloadDue
<1>5. \A n : OnTheWay(n) => OnTheWay(n)' \/ n = m
  <2> SUFFICES ASSUME NEW n, OnTheWay(n), n \in polled, n # m
               PROVE  \E l \in DOMAIN queue' : queue'[l].id = n
    BY <1>1 DEF OnTheWay
  <2>1. PICK k \in DOMAIN queue : queue[k].id = n
    BY DEF OnTheWay
  <2>2. QED
    BY <1>1, <2>1
<1>6. QED
  BY <1>1, <1>3, <1>4, <1>5, StaysCurrent

\* A load that fails: a reload is excused or another waits, an older page is not missed.
LEMMA FailCurrent ==
    ASSUME Thread, Current, HistoryFails, IsFiniteSet(cache')
    PROVE  Current'
<1>1. /\ UNCHANGED <<polled, cache, stream, queue, lagged, shown, thread>>
      /\ history.pc # "idle"
      /\ excused' = (excused \/ (history.before = 0 /\ 0 \notin history.pending))
  BY DEF HistoryFails, daemon, feed
<1>2. history'.pc = "failed" /\ history'.before = history.before /\ history'.pending = history.pending
  BY DEF HistoryFails, Thread, HistoryFits
<1>3. CASE history.before = 0 /\ 0 \notin history.pending
  BY <1>1, <1>3 DEF Current
<1>4. CASE 0 \in history.pending
  BY <1>2, <1>4, LoadIsEnough DEF LoadComes, ReloadDue
<1>5. CASE history.before # 0
  <2>1. InView' = InView
    BY <1>1, <1>2, <1>5 DEF InView
  <2>2. LoadComes => LoadComes'
    BY <1>1, <1>2, <1>5 DEF LoadComes, ReloadDue
  <2>3. \A m : OnTheWay(m) => OnTheWay(m)'
    BY <1>1 DEF OnTheWay
  <2>4. shown' = "open" /\ ~excused' => shown = "open" /\ ~excused
    BY <1>1
  <2>5. QED
    BY <1>1, <2>1, <2>2, <2>3, <2>4, StaysCurrent
<1>6. QED
  BY <1>3, <1>4, <1>5

LEMMA CurrentStep ==
    ASSUME Outbox, Feed, Thread, Current, [Next]_vars
    PROVE  Current'
<1>0. IsFiniteSet(cache')
  <2>1. Outbox' /\ Feed'
    BY OutboxStep, FeedStep
  <2>2. /\ cache' \subseteq DOMAIN server'
        /\ DOMAIN server' = 1..Len(server') /\ Len(server') \in Nat
    BY <2>1 DEF Outbox, Feed, Truthful
  <2>3. QED
    BY <2>2, UpTo, FS_Subset
<1>1. CASE OpenChat
  BY <1>1, LoadCurrent DEF OpenChat, daemon
<1>2. CASE Leave \/ LeaveSettings
  BY <1>2 DEF Leave, LeaveSettings, Current
<1>3. CASE LoadOlder
  BY <1>0, <1>3, OlderCurrent
<1>4. CASE HistoryRead
  BY <1>0, <1>4, ReadCurrent
<1>5. CASE HistoryExit
  BY <1>0, <1>5, ExitCurrent
<1>6. CASE IngestSnapshot \/ IngestLagged
  <2>1. ReloadOpen /\ UNCHANGED <<cache, shown>>
    BY <1>6 DEF IngestSnapshot, IngestLagged, daemon
  <2>2. QED
    BY <2>1, LoadCurrent DEF ReloadOpen, Current
<1>7. CASE IngestMessage
  BY <1>0, <1>7, EventCurrent
<1>8. CASE Subscribe \/ StreamEnds \/ Restart
  BY <1>8, LoadIsEnough DEF Subscribe, StreamEnds, Restart, LoadComes
<1>9. CASE Arrive \/ \E m \in Messages : Echo(m)
  <2>1. PICK m \in Messages : ApplyLive(m)
    <3>1. CASE Arrive
      <4>1. Outbox' /\ Feed' /\ Len(server') \in DOMAIN server'
        <5>1. 0 \in 0..Len(tried) /\ server' = Append(server, 0) /\ server \in Seq(0..Len(tried))
          BY <3>1 DEF Arrive, Outbox, Truthful
        <5>2. QED
          BY <5>1, OutboxStep, FeedStep, ServerGrows
      <4>2. DOMAIN server' \subseteq Messages
        BY <4>1, ServerFits DEF Outbox, Truthful, Feed
      <4>3. QED
        BY <3>1, <4>1, <4>2 DEF Arrive
    <3>2. QED
      BY <1>9, <3>1 DEF Echo
  <2>2. 0 \in Tries \cup {0}
    OBVIOUS
  <2>3. QED
    BY <1>0, <2>1, <2>2, AppliedCurrent DEF ApplyLive
<1>10. ASSUME UNCHANGED <<panel, feed, polled, cache>> PROVE Current'
  BY <1>0, <1>10, UntouchedCurrent
<1>11. CASE (\E draft \in Drafts : SendMessage(draft)) \/ (\E i \in 1..MaxTries : Retry(i))
  BY <1>10, <1>11 DEF SendMessage, Retry, daemon
<1>12. CASE Refuse \/ Post \/ (\E try \in Tries : CarryOut(try)) \/ AnswerError \/ TimeOut
  BY <1>10, <1>12 DEF Refuse, Post, CarryOut, AnswerError, TimeOut, SendTo, daemon
<1>13. CASE StoreSent
  <2> DEFINE n == CHOOSE m \in DOMAIN server : server[m] = send.id
  <2>1. /\ cache' = cache \cup {n} /\ polled' = polled /\ UNCHANGED <<panel, feed>>
    BY <1>13 DEF StoreSent, SendTo
  <2> HIDE DEF n
  <2>2. InView' = InView /\ (LoadComes => LoadComes') /\ \A m : OnTheWay(m) => OnTheWay(m)'
    BY <2>1 DEF InView, Merged, LoadComes, OnTheWay, panel, feed
  <2>3. \A m \in cache' : m \in cache \/ OnTheWay(m)'
    BY <2>1 DEF OnTheWay, Feed
  <2>4. QED
    BY <1>0, <2>1, <2>2, <2>3, StaysCurrent DEF panel
<1>14. CASE TellSent
  <2> DEFINE n == CHOOSE m \in DOMAIN server : server[m] = send.id
  <2>1. PICK client \in {send.id, 0} : Broadcast([id |-> n, client |-> client])
    BY <1>14 DEF TellSent
  <2>2. n \in cache /\ n \in Messages
    BY <1>14, Told DEF TellSent
  <2>3. UNCHANGED <<stream, panel, cache, polled>>
    BY <1>14 DEF TellSent, daemon
  <2> HIDE DEF n
  <2>4. client \in Tries \cup {0}
    BY DesktopAssumption DEF Outbox, SendFits, Tries
  <2>5. cache' = cache \cup {n} /\ polled' = polled
    BY <2>2, <2>3
  <2>6. QED
    BY <1>0, <2>1, <2>2, <2>3, <2>4, <2>5, AppliedCurrent
<1>15. CASE SendExit
  <2>1. UNCHANGED <<feed, polled, cache, shown, thread>>
    BY <1>15 DEF SendExit, daemon
  <2>2. CASE Load
    BY <2>1, <2>2, LoadCurrent
  <2>3. CASE UNCHANGED <<history, excused>>
    BY <1>10, <2>1, <2>3 DEF panel
  <2>4. QED
    BY <1>15, <2>2, <2>3 DEF SendExit
<1>16. CASE HistoryFails
  BY <1>0, <1>16, FailCurrent
<1>17. CASE UNCHANGED vars
  BY <1>10, <1>17 DEF vars, daemon
<1>18. QED
  BY <1>1, <1>2, <1>3, <1>4, <1>5, <1>6, <1>7, <1>8, <1>9, <1>11, <1>12, <1>13, <1>14, <1>15, <1>16,
     <1>17
     DEF Next

LEMMA CurrentStarts ==
    ASSUME Init
    PROVE  Current
BY DEF Init, Current, LoadComes

\* The open conversation shows the newest messages of the cache whenever there is
\* nothing left to follow: root.messages after historyProc, the subscription and the
\* sends have come to rest (Service.qml), unless the last reload of it failed by itself,
\* or gave way to "Load older" or to the settings.
THEOREM OpenThreadIsCurrent == Spec => []ThreadIsCurrent
<1>1. Init => Current
  BY CurrentStarts
<1>2. Outbox /\ Feed /\ Thread /\ Current /\ [Next]_vars => Current'
  BY CurrentStep
<1>3. Thread /\ Feed /\ Current => ThreadIsCurrent
  <2> SUFFICES ASSUME Thread, Feed, Current, cache \subseteq polled,
                      stream = "up", ~lagged, queue = <<>>,
                      shown = "open", history.pc = "idle", ~excused,
                      NEW m \in Newest(cache)
               PROVE  m \in thread
    BY DEF ThreadIsCurrent, NothingToFollow
  <2>1. ~LoadComes
    BY DEF LoadComes, ReloadDue, Thread, HistoryFits
  <2>2. ~OnTheWay(m)
    <3>1. m \in polled
      BY DEF Newest
    <3>2. DOMAIN queue = {}
      OBVIOUS
    <3>3. QED
      BY <3>1, <3>2 DEF OnTheWay
  <2>3. InView = thread
    BY DEF InView
  <2>4. QED
    BY <2>1, <2>2, <2>3 DEF Current
<1>4. QED
  BY <1>1, <1>2, <1>3, DesktopInvariant, PTL DEF Spec

-----------------------------------------------------------------------------
(* The outbox keeps the promise of OutboxLedger.  What is to be posted has *)
(* a row that is shown sending, which no event and no retry takes away.    *)

ShownSending(rows, id) ==
    \E i \in DOMAIN rows : rows[i].id = id /\ rows[i].state = "sending"

Sending == send.pc = "asked" => ShownSending(outgoing, send.id)

LEMMA DrainedSends ==
    ASSUME NEW rows \in Seq(Rows), OwnIds(rows), NEW run, DrainOutgoing(rows, run),
           run.pc = "asked" => ShownSending(rows, run.id)
    PROVE  Sending'
<1>1. CASE outgoing' = rows /\ send' = run
  BY <1>1 DEF Sending
<1>2. ASSUME NEW f \in DOMAIN rows, send' = [id |-> rows[f].id, pc |-> "asked"],
             outgoing' = [rows EXCEPT ![f] = [id |-> rows[f].id, state |-> "sending"]]
      PROVE  Sending'
  <2>1. f \in DOMAIN outgoing' /\ outgoing'[f] = [id |-> rows[f].id, state |-> "sending"]
    BY <1>2
  <2>2. QED
    BY <1>2, <2>1 DEF Sending, ShownSending
<1>3. QED
  BY <1>1, <1>2, Drained

LEMMA SendingStep ==
    ASSUME Outbox, Feed, Sending, [Next]_vars
    PROVE  Sending'
<1>1. CASE UNCHANGED <<outgoing, send>>
  BY <1>1 DEF Sending
<1>2. CASE Quiet \/ Arrive \/ (\E m \in Messages : Echo(m)) \/ \E try \in Tries : CarryOut(try)
  BY <1>1, <1>2, QuietStep DEF Arrive, Echo, ApplyLive, CarryOut, outbox
<1>3. ASSUME NEW draft \in Drafts, SendMessage(draft) PROVE Sending'
  <2>1. /\ RowsFit(Written, send, Len(tried'), Handed) /\ DrainOutgoing(Written, send)
        /\ \A i \in DOMAIN outgoing : i \in DOMAIN Written /\ Written[i] = outgoing[i]
    BY <1>3, WrittenFits
  <2>2. send.pc = "asked" => ShownSending(Written, send.id)
    BY <2>1 DEF Sending, ShownSending
  <2>3. QED
    BY <2>1, <2>2, DrainedSends DEF RowsFit
<1>4. ASSUME NEW i, Retry(i) PROVE Sending'
  <2> DEFINE rows == Rewritten(i)
  <2>1. /\ RowsFit(rows, send, Len(tried'), Handed) /\ DrainOutgoing(rows, send)
        /\ DOMAIN rows = DOMAIN outgoing
        /\ \A j \in DOMAIN outgoing : j # i => rows[j] = outgoing[j]
        /\ outgoing[i].state # "sending"
    BY <1>4, RewrittenFits DEF Retry
  <2> HIDE DEF rows
  <2>2. send.pc = "asked" => ShownSending(rows, send.id)
    BY <2>1 DEF Sending, ShownSending
  <2>3. QED
    BY <2>1, <2>2, DrainedSends DEF RowsFit
<1>5. CASE SendExit
  <2> DEFINE rows == Settled(outgoing)
  <2>1. RowsFit(rows, NoSend, Len(tried), Handed) /\ DrainOutgoing(rows, NoSend)
    BY <1>5, SettledRows DEF SendExit
  <2> HIDE DEF rows
  <2>2. NoSend.pc # "asked"
    BY DEF NoSend
  <2>3. QED
    BY <2>1, <2>2, DrainedSends DEF RowsFit
<1>6. CASE IngestMessage
  <2> SUFFICES ASSUME send.pc = "asked" PROVE ShownSending(outgoing', send.id)
    BY <1>6 DEF IngestMessage, Sending
  <2>1. PICK client : outgoing' = Without(outgoing, client) /\ (client # 0 => Delivered(client))
    BY <1>6, EventTrue
  <2>2. LeavesOut(outgoing, outgoing', client)
    BY <2>1, WithoutRow DEF Outbox, RowsFit
  <2>3. send.id # client
    <3>1. send.id # 0 /\ send.id \notin Handed
      BY DEF Outbox, SendFits
    <3>2. QED
      BY <2>1, <3>1, DeliveredWasHanded
  <2>4. QED
    BY <2>2, <2>3 DEF Sending, ShownSending, LeavesOut
<1>7. CASE Refuse \/ Post \/ AnswerError \/ TimeOut \/ StoreSent \/ TellSent \/ Restart
  <2>1. send \in [id : 0..Len(tried), pc : SendPC]
    BY DEF Outbox, SendFits
  <2>2. send'.pc # "asked"
    BY <1>7, <2>1 DEF Refuse, Post, AnswerError, TimeOut, StoreSent, SendTo, TellSent, Restart
  <2>3. QED
    BY <2>2 DEF Sending
<1>8. QED
  BY <1>2, <1>3, <1>4, <1>5, <1>6, <1>7 DEF Next, Quiet

-----------------------------------------------------------------------------
(* Every step is a step of the promise, or none.                           *)

Ids(rows) == {rows[i].id : i \in DOMAIN rows}

PromiseStep == [Promise!Next]_(Promise!promise)

LEMMA PromiseStutters ==
    ASSUME tried' = tried, UNCHANGED <<server, posts>>, Ids(outgoing') = Ids(outgoing)
    PROVE  PromiseStep
BY HandedStays DEF PromiseStep, Promise!promise, Ids

LEMMA ClearsRow ==
    ASSUME tried' = tried, UNCHANGED <<server, posts>>, NEW id, Delivered(id),
           Ids(outgoing') = Ids(outgoing) \ {id}
    PROVE  PromiseStep
<1>1. CASE id \in Ids(outgoing)
  <2>1. Promise!Delivered(id)
    BY DEF Delivered, Promise!Delivered
  <2>2. Promise!Clear(id)
    BY <1>1, <2>1, HandedStays DEF Promise!Clear, Ids
  <2>3. QED
    BY <1>1, <2>2 DEF PromiseStep, Promise!Next, Ids
<1>2. CASE id \notin Ids(outgoing)
  BY <1>2, PromiseStutters
<1>3. QED
  BY <1>1, <1>2

LEMMA WithoutIds ==
    ASSUME NEW rows \in Seq(Rows), OwnIds(rows), NEW id
    PROVE  Ids(Without(rows, id)) = Ids(rows) \ {id}
<1> DEFINE rest == Without(rows, id)
<1>1. LeavesOut(rows, rest, id)
  BY WithoutRow
<1> HIDE DEF rest
<1>2. QED
  BY <1>1 DEF LeavesOut, Ids, rest

LEMMA DrainedIds ==
    ASSUME NEW n \in 0..MaxTries, NEW rows, NEW run,
           RowsFit(rows, run, n, Handed), SendFits(run, n, Handed), DrainOutgoing(rows, run)
    PROVE  Ids(outgoing') = Ids(rows)
<1>1. SameIds(rows, outgoing')
  BY DrainFits
<1>2. QED
  BY <1>1 DEF SameIds, Ids

LEMMA SendMessagePromised ==
    ASSUME Outbox, NEW draft \in Drafts, SendMessage(draft)
    PROVE  PromiseStep
<1>0. /\ tried' = Append(tried, draft) /\ Len(tried) < MaxTries /\ server' = server
      /\ Handed' = Handed /\ \A i \in DOMAIN tried : tried[i] # draft
  BY HandedStays DEF SendMessage, daemon
<1>1. Len(tried') \in 0..MaxTries /\ SendFits(send, Len(tried'), Handed)
  BY <1>0, OneMoreTry
<1>2. /\ RowsFit(Written, send, Len(tried'), Handed) /\ DrainOutgoing(Written, send)
      /\ DOMAIN Written = DOMAIN outgoing \cup {Len(outgoing) + 1}
      /\ Written[Len(outgoing) + 1].id = Len(tried')
      /\ \A i \in DOMAIN outgoing : Written[i] = outgoing[i]
  BY WrittenFits
<1>3. Ids(outgoing') = Ids(Written)
  BY <1>1, <1>2, DrainedIds
<1>4. Ids(Written) = Ids(outgoing) \cup {Len(tried')}
  BY <1>2 DEF Ids
<1>5. Promise!Ask(draft)
  BY <1>0, <1>3, <1>4 DEF Promise!Ask, Ids
<1>6. QED
  BY <1>5 DEF PromiseStep, Promise!Next

LEMMA RetryPromised ==
    ASSUME Outbox, NEW i, Retry(i)
    PROVE  PromiseStep
<1> DEFINE rows == Rewritten(i)
<1>a. PICK old : old = outgoing[i].id
  OBVIOUS
<1>0. Len(tried) < MaxTries /\ server' = server /\ Handed' = Handed
  BY HandedStays DEF Retry, daemon
<1>1. /\ tried' = Append(tried, tried[old]) /\ tried[old] \in Drafts
      /\ RowsFit(rows, send, Len(tried'), Handed) /\ DrainOutgoing(rows, send)
      /\ DOMAIN rows = DOMAIN outgoing /\ i \in DOMAIN outgoing
      /\ rows[i].id = Len(tried')
      /\ \A j \in DOMAIN outgoing : j # i => rows[j] = outgoing[j]
  BY <1>a, RewrittenFits
<1>2. Len(tried') \in 0..MaxTries /\ SendFits(send, Len(tried'), Handed)
  BY <1>0, <1>1, OneMoreTry
<1> HIDE DEF rows
<1>3. Ids(outgoing') = Ids(rows)
  BY <1>1, <1>2, DrainedIds
<1>4. Ids(rows) = (Ids(outgoing) \ {old}) \cup {Len(tried')}
  <2>1. \A j, k \in DOMAIN outgoing : j # k => outgoing[j].id # outgoing[k].id
    BY DEF Outbox, RowsFit, OwnIds
  <2>2. Ids(rows) \subseteq (Ids(outgoing) \ {old}) \cup {Len(tried')}
    BY <1>a, <1>1, <2>1 DEF Ids
  <2>3. Len(tried') \in Ids(rows)
    BY <1>1 DEF Ids
  <2>4. Ids(outgoing) \ {old} \subseteq Ids(rows)
    BY <1>a, <1>1 DEF Ids
  <2>5. QED
    BY <2>2, <2>3, <2>4
<1>5. old \in Ids(outgoing)
  BY <1>a, <1>1 DEF Ids
<1>6. Promise!AskAgain(old)
  BY <1>0, <1>1, <1>3, <1>4, <1>5 DEF Promise!AskAgain, Ids
<1>7. QED
  BY <1>5, <1>6 DEF PromiseStep, Promise!Next, Ids

\* What is posted is shown sending, and this number was not posted before ...
LEMMA PostPromised ==
    ASSUME Outbox, Sending, Post
    PROVE  PromiseStep
<1>1. /\ send.pc = "asked" /\ UNCHANGED <<outgoing, tried, server>>
      /\ posts' = posts \cup {send.id}
  BY DEF Post, SendTo
<1>2. send.id \in Ids(outgoing)
  BY <1>1 DEF Sending, ShownSending, Ids
<1>3. send.id \notin Handed /\ Handed' = Handed \cup {send.id}
  BY <1>1 DEF Outbox, SendFits, Handed
<1>4. Promise!HandOver(send.id)
  BY <1>1, <1>2, <1>3 DEF Promise!HandOver, Ids
<1>5. QED
  BY <1>2, <1>4 DEF PromiseStep, Promise!Next, Ids

\* ... and is delivered once, whoever still waits for it.
LEMMA CarryOutPromised ==
    ASSUME Outbox, NEW try \in Tries, CarryOut(try)
    PROVE  PromiseStep
<1>1. /\ try \in posts /\ server' = Append(server, try) /\ posts' = posts \ {try}
      /\ UNCHANGED <<outgoing, tried>>
  BY DEF CarryOut, outbox
<1>2. /\ server \in Seq(0..Len(tried)) /\ try \in 0..Len(tried) /\ try # 0 /\ ~Delivered(try)
  BY <1>1 DEF Outbox, Truthful
<1>3. Handed' = Handed
  <2>1. /\ DOMAIN server \subseteq DOMAIN server' /\ \A m \in DOMAIN server : server'[m] = server[m]
        /\ \A m \in DOMAIN server' : m \in DOMAIN server \/ server'[m] = try
        /\ \E m \in DOMAIN server' : server'[m] = try
    BY <1>1, <1>2, AppendOf
  <2>2. QED
    BY <1>1, <1>2, <2>1 DEF Handed
<1>4. try \in Handed /\ ~Promise!Delivered(try)
  BY <1>1, <1>2 DEF Handed, Delivered, Promise!Delivered
<1>5. Promise!Deliver(try)
  BY <1>1, <1>3, <1>4 DEF Promise!Deliver
<1>6. QED
  BY <1>4, <1>5 DEF PromiseStep, Promise!Next

LEMMA IngestMessagePromised ==
    ASSUME Outbox, Feed, IngestMessage
    PROVE  PromiseStep
<1>1. PICK client : outgoing' = Without(outgoing, client) /\ (client # 0 => Delivered(client))
  BY EventTrue
<1>2. Ids(outgoing') = Ids(outgoing) \ {client} /\ 0 \notin Ids(outgoing)
  <2>1. outgoing \in Seq(Rows) /\ OwnIds(outgoing)
    BY DEF Outbox, RowsFit
  <2>2. \A i \in DOMAIN outgoing : outgoing[i].id # 0
    BY DEF Outbox, RowsFit
  <2>3. Ids(Without(outgoing, client)) = Ids(outgoing) \ {client}
    BY <2>1, WithoutIds
  <2>4. QED
    BY <1>1, <2>2, <2>3 DEF Ids
<1>3. UNCHANGED <<tried, server, posts>>
  BY DEF IngestMessage, daemon
<1>4. CASE client = 0
  BY <1>2, <1>3, <1>4, PromiseStutters
<1>5. CASE client # 0
  BY <1>1, <1>2, <1>3, <1>5, ClearsRow
<1>6. QED
  BY <1>4, <1>5

LEMMA SendExitPromised ==
    ASSUME Outbox, SendExit
    PROVE  PromiseStep
<1> DEFINE rows == Settled(outgoing)
<1>1. /\ RowsFit(rows, NoSend, Len(tried), Handed) /\ DrainOutgoing(rows, NoSend)
      /\ UNCHANGED <<server, posts, tried>>
  BY SettledRows DEF SendExit, daemon
<1>2. SendFits(NoSend, Len(tried), Handed) /\ Len(tried) \in 0..MaxTries
  BY DEF SendFits, NoSend, SendPC, Outbox
<1>3. outgoing \in Seq(Rows) /\ OwnIds(outgoing)
  BY DEF Outbox, RowsFit
<1>4. CASE send.pc = "ok"
  <2>1. rows = Without(outgoing, send.id)
    BY <1>4 DEF Settled
  <2>2. Ids(rows) = Ids(outgoing) \ {send.id}
    BY <1>3, <2>1, WithoutIds
  <2>3. Delivered(send.id)
    BY <1>4 DEF Outbox, Truthful
  <2> HIDE DEF rows
  <2>4. Ids(outgoing') = Ids(rows)
    BY <1>1, <1>2, DrainedIds
  <2>5. QED
    BY <1>1, <2>2, <2>3, <2>4, ClearsRow
<1>5. CASE send.pc # "ok"
  <2> DEFINE state == Classified(send.pc)
  <2>1. rows = Marked(outgoing, send.id, state)
    BY <1>5 DEF Settled
  <2> HIDE DEF rows, state
  <2>2. DOMAIN rows = DOMAIN outgoing /\ \A i \in DOMAIN outgoing : rows[i].id = outgoing[i].id
    <3>1. \A i \in DOMAIN outgoing : outgoing[i] \in Rows
      BY <1>3
    <3>2. \A row \in Rows : [row EXCEPT !.state = state].id = row.id
      BY DEF Rows
    <3>3. QED
      BY <2>1, <3>1, <3>2 DEF Marked
  <2>3. Ids(rows) = Ids(outgoing)
    BY <2>2 DEF Ids
  <2>4. Ids(outgoing') = Ids(rows)
    BY <1>1, <1>2, DrainedIds
  <2>5. QED
    BY <1>1, <2>3, <2>4, PromiseStutters
<1>6. QED
  BY <1>4, <1>5

LEMMA StepPromised ==
    ASSUME Outbox, Feed, Sending, [Next]_vars
    PROVE  PromiseStep
<1>1. CASE UNCHANGED <<outgoing, tried, server, posts>>
  BY <1>1, PromiseStutters
<1>2. CASE Quiet \/ \E m \in Messages : Echo(m)
  BY <1>1, <1>2, QuietStep DEF Echo, ApplyLive, outbox
<1>3. CASE Arrive
  <2>1. server' = Append(server, 0) /\ UNCHANGED <<outgoing, tried, posts>>
    BY <1>3 DEF Arrive, ApplyLive, outbox
  <2>2. Handed' = Handed
    <3>1. 0 \in 0..Len(tried) /\ server \in Seq(0..Len(tried))
      BY DEF Outbox, Truthful
    <3>2. /\ DOMAIN server \subseteq DOMAIN server' /\ \A m \in DOMAIN server : server'[m] = server[m]
          /\ \A m \in DOMAIN server' : m \in DOMAIN server \/ server'[m] = 0
      BY <2>1, <3>1, AppendOf
    <3>3. QED
      BY <2>1, <3>2 DEF Handed
  <2>3. Promise!Receive
    BY <2>1, <2>2 DEF Promise!Receive
  <2>4. QED
    BY <2>3 DEF PromiseStep, Promise!Next
<1>4. CASE Refuse \/ AnswerError \/ TimeOut \/ StoreSent \/ TellSent \/ Restart
  BY <1>1, <1>4 DEF Refuse, AnswerError, TimeOut, StoreSent, TellSent, Restart, SendTo, daemon
<1>5. QED
  BY <1>2, <1>3, <1>4, SendMessagePromised, RetryPromised, PostPromised, CarryOutPromised,
     IngestMessagePromised, SendExitPromised DEF Next, Quiet

\* The plugin and the daemon's sends implement the outbox of OutboxLedger, for any
\* drafts, tries and faults: a try is handed to the server once and while its row is
\* shown, delivered once at most, whenever the server gets to it, and a row leaves only
\* when its own try was delivered (drainOutgoing, removeOutgoing and sendProc's exit in
\* Service.qml, send_text in bb.rs).
THEOREM OutboxKeepsItsPromise == Spec => OutboxSpec
<1>1. Init => Promise!Init /\ Sending
  BY DEF Init, Promise!Init, NoSend, Sending, Handed
<1>2. Outbox /\ Feed /\ Sending /\ [Next]_vars => Sending' /\ PromiseStep
  BY SendingStep, StepPromised
<1>3. QED
  BY <1>1, <1>2, DesktopInvariant, PTL DEF Spec, OutboxSpec, Promise!Spec, PromiseStep
=============================================================================
