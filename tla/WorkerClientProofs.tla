------------------------ MODULE WorkerClientProofs ------------------------
(* The JavaScript client, for any number of requests and of crashing         *)
(* workers.  Every handler maps the client at rest, through clients that     *)
(* have finished a task and not yet looked at the queue, to one that is at   *)
(* rest again or has posted one task: the lemmas follow those operators.     *)
EXTENDS WorkerClient, SequenceTheorems, TLAPS

Clients ==
    [queue : Seq(Tasks), active : Tasks \cup {None}, worker : Nat, spawned : Nat,
     idleTimer : BOOLEAN, listening : SUBSET Tasks, settled : [Tasks -> Seq(Outcomes)]]

InQueue(q, t) == \E i \in 1..Len(q) : q[i] = t

(* The queue is in the order of the requests, all later than `low`. *)
QueueOK(q, low, n) ==
    /\ q \in Seq(Tasks)
    /\ \A i, j \in 1..Len(q) : i < j => q[i] < q[j]
    /\ \A i \in 1..Len(q) : low < q[i] /\ q[i] <= n

(* A client after n requests: what is unsettled is active or waiting, and no *)
(* more workers were spawned than tasks have left the queue.                 *)
Coherent(c, n) ==
    /\ c \in Clients
    /\ c.worker <= c.spawned /\ c.spawned <= n /\ c.active <= n
    /\ QueueOK(c.queue, c.spawned, n) /\ QueueOK(c.queue, c.active, n)
    /\ \A t \in Tasks : Len(c.settled[t]) <= 1
    /\ \A t \in Tasks : c.settled[t] = <<>> <=> (n < t \/ t = c.active \/ InQueue(c.queue, t))
    /\ \A t \in c.listening : t <= n /\ c.settled[t] = <<>>

Unposted(c, n) ==
    \A t \in Tasks : home[t] # None => home[t] <= c.spawned /\ t <= n /\ ~InQueue(c.queue, t)

Working == {"posted", "working"}

TasksOK ==
    /\ home \in [Tasks -> 0..N] /\ stage \in [Tasks -> Stages]
    /\ \A t \in Tasks : home[t] = None <=> stage[t] = "none"

(* The client's worker, if there is one, works on nothing. *)
FreeWorker(c) == \A t \in Tasks : home[t] = c.worker => stage[t] \notin Working

Timed(c) ==
    /\ c.idleTimer => c.active = None /\ c.queue = <<>>
    /\ (c.worker # None /\ c.active = None) => c.idleTimer

Occupied(c) ==
    IF c.active = None THEN FreeWorker(c)
    ELSE /\ c.worker # None /\ home[c.active] = c.worker
         /\ \A t \in Tasks \ {c.active} : home[t] = c.worker => stage[t] \notin Working

Resting(c, n) == Coherent(c, n) /\ Unposted(c, n) /\ Timed(c) /\ Occupied(c)

(* A task has been posted, which the workers do not know yet. *)
Started(c, n) ==
    /\ Coherent(c, n) /\ Unposted(c, n) /\ Timed(c) /\ FreeWorker(c)
    /\ c.active # None /\ home[c.active] = None /\ c.worker # None

Handled(c, d, n) == Started(d, n) \/ (Resting(d, n) /\ d.active \in {None, c.active})

(* Every request before u has been answered. *)
InTurn(d, u) == \A v \in Tasks : v < u => d.settled[v] # <<>>

(* u was told that it could not be posted, or was aborted when it was.       *)
NotPosted(d, u) ==
    d.settled[u] = <<"unposted">> \/ (d.settled[u] = <<"aborted">> /\ InTurn(d, u))

(* What callers were told from c to d: t its outcome, others that their task *)
(* was not posted.                                                           *)
TellsTo(c, d, t, o) ==
    \A u \in Tasks :
        \/ d.settled[u] = c.settled[u]
        \/ c.settled[u] = <<>> /\ (NotPosted(d, u) \/ (u = t /\ d.settled[u] = <<o>>))

---------------------------------------------------------------------------
(* The queue. *)

LEMMA TasksAreNumbers == N \in Nat /\ \A t \in Tasks : t \in Nat /\ 0 < t /\ t <= N
BY RequestsAssumption DEF Tasks

LEMMA Suffix ==
    ASSUME NEW q \in Seq(Tasks), NEW k \in 0..Len(q)
    PROVE  LET r == SubSeq(q, k + 1, Len(q)) IN
           /\ r \in Seq(Tasks) /\ Len(r) = Len(q) - k
           /\ \A i \in 1 .. Len(q) - k : r[i] = q[k + i]
<1>1. PICK m : m = k + 1
  OBVIOUS
<1>2. Len(q) \in Nat /\ m \in Int /\ Len(q) \in Int /\ k \in Nat
  BY <1>1, LenProperties
<1>3. \A i \in m .. Len(q) : q[i] \in Tasks
  BY <1>1, <1>2, ElementOfSeq
<1> DEFINE r == SubSeq(q, m, Len(q))
<1>4. /\ r \in Seq(Tasks) /\ Len(r) = IF m <= Len(q) THEN Len(q) - m + 1 ELSE 0
      /\ \A i \in 1 .. Len(q) - m + 1 : r[i] = q[m + i - 1]
  BY <1>2, <1>3, SubSeqProperties
<1> HIDE DEF r
<1>5. Len(r) = Len(q) - k
  BY <1>1, <1>2, <1>4
<1>6. ASSUME NEW i \in 1 .. Len(q) - k PROVE r[i] = q[k + i]
  <2>1. i \in 1 .. Len(q) - m + 1 /\ m + i - 1 = k + i
    BY <1>1, <1>2
  <2> QED
    BY <1>4, <2>1
<1> QED
  BY <1>1, <1>4, <1>5, <1>6 DEF r

LEMMA QueueRest ==
    ASSUME NEW q, NEW low, NEW n, QueueOK(q, low, n), NEW k \in 0..Len(q)
    PROVE  LET r == SubSeq(q, k + 1, Len(q)) IN
           /\ QueueOK(r, low, n) /\ Len(r) = Len(q) - k
           /\ \A t : InQueue(q, t) <=> InQueue(r, t) \/ \E i \in 1..k : q[i] = t
           /\ \A t : InQueue(r, t) => \A i \in 1..k : q[i] # t
<1> DEFINE r == SubSeq(q, k + 1, Len(q))
<1>1. q \in Seq(Tasks) /\ Len(q) \in Nat /\ k \in 0..Len(q)
  BY LenProperties DEF QueueOK
<1>2. \A i \in 1..Len(q) : q[i] \in Tasks
  BY <1>1, ElementOfSeq
<1>3. /\ r \in Seq(Tasks) /\ Len(r) = Len(q) - k
      /\ \A i \in 1 .. Len(q) - k : r[i] = q[k + i]
  BY <1>1, Suffix
<1> HIDE DEF r
<1>4. Len(r) = Len(q) - k /\ \A i \in 1..Len(r) : r[i] = q[k + i] /\ k + i \in 1..Len(q)
  BY <1>1, <1>3
<1>5. QueueOK(r, low, n)
  <2>1. ASSUME NEW i \in 1..Len(r), NEW j \in 1..Len(r), i < j PROVE r[i] < r[j]
    <3>1. k + i < k + j
      BY <1>1, <1>3, <2>1
    <3> QED
      BY <1>4, <3>1 DEF QueueOK
  <2>2. \A i \in 1..Len(r) : low < r[i] /\ r[i] <= n
    BY <1>4 DEF QueueOK
  <2> QED
    BY <1>3, <2>1, <2>2 DEF QueueOK
<1>6. \A t : InQueue(q, t) <=> InQueue(r, t) \/ \E i \in 1..k : q[i] = t
  <2>1. ASSUME NEW t, NEW i \in 1..Len(q), q[i] = t
        PROVE  InQueue(r, t) \/ \E j \in 1..k : q[j] = t
    <3>1. CASE i <= k
      BY <1>1, <2>1, <3>1
    <3>2. CASE k < i
      <4>1. i - k \in 1..Len(r) /\ k + (i - k) = i
        BY <1>1, <1>4, <3>2
      <4> QED
        BY <1>4, <2>1, <4>1 DEF InQueue
    <3> QED
      BY <1>1, <3>1, <3>2
  <2>2. ASSUME NEW t, InQueue(r, t) \/ \E i \in 1..k : q[i] = t PROVE InQueue(q, t)
    BY SMTT(60), <1>1, <1>4, <2>2 DEF InQueue
  <2> QED
    BY <2>1, <2>2 DEF InQueue
<1>7. \A t : InQueue(r, t) => \A i \in 1..k : q[i] # t
  <2> SUFFICES ASSUME NEW j \in 1..Len(r), NEW i \in 1..k PROVE q[i] # r[j]
    BY DEF InQueue
  <2>1. /\ r[j] = q[k + j] /\ k + j \in 1..Len(q) /\ i \in 1..Len(q) /\ i < k + j
    BY <1>1, <1>4
  <2>2. q[i] < q[k + j] /\ q[i] \in Nat /\ q[k + j] \in Nat
    BY <1>2, <2>1, TasksAreNumbers DEF QueueOK
  <2> QED
    BY <2>1, <2>2
<1> QED
  BY <1>4, <1>5, <1>6, <1>7 DEF r

LEMMA QueueHead ==
    ASSUME NEW q, NEW low, NEW n, QueueOK(q, low, n), q # <<>>
    PROVE  /\ Head(q) \in Tasks /\ low < Head(q) /\ Head(q) <= n
           /\ QueueOK(Tail(q), Head(q), n)
           /\ \A t : InQueue(q, t) <=> InQueue(Tail(q), t) \/ t = Head(q)
<1>1. q \in Seq(Tasks) /\ Len(q) \in Nat \ {0} /\ Head(q) = q[1]
  BY EmptySeq DEF QueueOK
<1>2. /\ Head(q) \in Tasks /\ Tail(q) \in Seq(Tasks) /\ Len(Tail(q)) = Len(q) - 1
      /\ \A i \in 1..Len(Tail(q)) : Tail(q)[i] = q[i + 1]
  BY <1>1, HeadTailProperties
<1>3. \A i \in 1..Len(Tail(q)) : Tail(q)[i] = q[i + 1] /\ i + 1 \in 1..Len(q) /\ 1 < i + 1
  BY <1>1, <1>2
<1>4. 1 \in 1..Len(q)
  BY <1>1
<1>5. QueueOK(Tail(q), Head(q), n)
  <2>1. \A i \in 1..Len(Tail(q)) : Head(q) < Tail(q)[i] /\ Tail(q)[i] <= n
    BY <1>1, <1>3, <1>4 DEF QueueOK
  <2>2. ASSUME NEW i \in 1..Len(Tail(q)), NEW j \in 1..Len(Tail(q)), i < j
        PROVE  Tail(q)[i] < Tail(q)[j]
    <3>1. i + 1 < j + 1
      BY <1>1, <1>2, <2>2
    <3> QED
      BY <1>3, <3>1 DEF QueueOK
  <2> QED
    BY <1>2, <2>1, <2>2 DEF QueueOK
<1>6. \A t : InQueue(q, t) <=> InQueue(Tail(q), t) \/ t = Head(q)
  <2>1. ASSUME NEW i \in 1..Len(q) PROVE q[i] = Head(q) \/ InQueue(Tail(q), q[i])
    <3>1. CASE i = 1
      BY <1>1, <3>1
    <3>2. CASE i # 1
      <4>1. i - 1 \in 1..Len(Tail(q)) /\ (i - 1) + 1 = i
        BY <1>1, <1>2, <3>2
      <4> QED
        BY <1>3, <4>1 DEF InQueue
    <3> QED
      BY <3>1, <3>2
  <2>2. InQueue(q, Head(q))
    BY <1>1, <1>4 DEF InQueue
  <2> QED
    BY <1>3, <2>1, <2>2 DEF InQueue
<1> QED
  BY <1>1, <1>2, <1>4, <1>5, <1>6 DEF QueueOK

LEMMA QueueJoined ==
    ASSUME NEW q, NEW low \in Nat, NEW n \in Nat, QueueOK(q, low, n), low <= n, n + 1 \in Tasks
    PROVE  /\ QueueOK(Append(q, n + 1), low, n + 1) /\ Append(q, n + 1) # <<>>
           /\ \A t : InQueue(Append(q, n + 1), t) <=> InQueue(q, t) \/ t = n + 1
<1> DEFINE r == Append(q, n + 1)
<1>1. q \in Seq(Tasks) /\ Len(q) \in Nat
  BY LenProperties DEF QueueOK
<1>2. /\ r \in Seq(Tasks) /\ Len(r) = Len(q) + 1 /\ r[Len(q) + 1] = n + 1
      /\ \A i \in 1..Len(q) : r[i] = q[i]
  BY <1>1, AppendProperties
<1> HIDE DEF r
<1>3. \A i \in 1..Len(r) : i \in 1..Len(q) \/ i = Len(q) + 1
  <2>1. Len(r) = Len(q) + 1
    BY <1>2
  <2> QED
    BY <1>1, <2>1
<1>4. \A i \in 1..Len(q) : i \in 1..Len(r) /\ q[i] \in Nat /\ low < q[i] /\ q[i] <= n
  <2>1. \A i \in 1..Len(q) : q[i] \in Nat
    BY <1>1, ElementOfSeq, TasksAreNumbers
  <2> QED
    BY <1>1, <1>2, <2>1 DEF QueueOK
<1>5. Len(q) + 1 \in 1..Len(r)
  BY <1>1, <1>2
<1>6. QueueOK(r, low, n + 1)
  <2>1. \A i \in 1..Len(r) : low < r[i] /\ r[i] <= n + 1
    BY <1>2, <1>3, <1>4
  <2>2. ASSUME NEW i \in 1..Len(r), NEW j \in 1..Len(r), i < j PROVE r[i] < r[j]
    <3>1. i \in 1..Len(q)
      BY <1>1, <1>2, <2>2
    <3>2. CASE j \in 1..Len(q)
      BY <1>2, <2>2, <3>1, <3>2 DEF QueueOK
    <3>3. CASE j = Len(q) + 1
      BY <1>2, <1>4, <3>1, <3>3
    <3> QED
      BY <1>3, <3>2, <3>3
  <2> QED
    BY <1>2, <2>1, <2>2 DEF QueueOK
<1>7. \A t : InQueue(r, t) <=> InQueue(q, t) \/ t = n + 1
  BY <1>2, <1>3, <1>4, <1>5 DEF InQueue
<1>8. r # <<>>
  BY <1>1, <1>2, EmptySeq
<1> QED
  BY <1>6, <1>7, <1>8 DEF r

LEMMA QueueWithout ==
    ASSUME NEW q, NEW low, NEW n, QueueOK(q, low, n), NEW t, InQueue(q, t)
    PROVE  /\ QueueOK(Unqueued(q, t), low, n)
           /\ \A u : InQueue(Unqueued(q, t), u) <=> InQueue(q, u) /\ u # t
<1>1. q \in Seq(Tasks) /\ Len(q) \in Nat /\ DOMAIN q = 1..Len(q)
  BY LenProperties DEF QueueOK
<1>2. \A i \in 1..Len(q) : q[i] \in Tasks
  BY <1>1, ElementOfSeq
<1> DEFINE p == CHOOSE i \in DOMAIN q : q[i] = t
<1>3. p \in 1..Len(q) /\ q[p] = t
  BY <1>1 DEF InQueue
<1>4. Unqueued(q, t) = SubSeq(q, 1, p - 1) \o SubSeq(q, p + 1, Len(q))
  BY <1>1, <1>3 DEF Unqueued, RemoveAt, ToSet
<1> HIDE DEF p
<1> DEFINE a == SubSeq(q, 1, p - 1)
           b == SubSeq(q, p + 1, Len(q))
           r == a \o b
<1>5. a \in Seq(Tasks) /\ Len(a) = p - 1 /\ \A i \in 1 .. p - 1 : a[i] = q[i]
  <2>1. 1 \in Int /\ p - 1 \in Int /\ \A i \in 1 .. p - 1 : q[i] \in Tasks
    BY <1>1, <1>2, <1>3
  <2>2. /\ a \in Seq(Tasks) /\ Len(a) = IF 1 <= p - 1 THEN p - 1 - 1 + 1 ELSE 0
        /\ \A i \in 1 .. p - 1 - 1 + 1 : a[i] = q[1 + i - 1]
    BY <2>1, SubSeqProperties
  <2> HIDE DEF a
  <2>3. Len(a) = p - 1
    BY <1>1, <1>3, <2>2
  <2>4. ASSUME NEW i \in 1 .. p - 1 PROVE a[i] = q[i]
    <3>1. i \in 1 .. p - 1 - 1 + 1 /\ 1 + i - 1 = i
      BY <1>1, <1>3
    <3> QED
      BY <2>2, <3>1
  <2> QED
    BY <2>2, <2>3, <2>4
<1>6. b \in Seq(Tasks) /\ Len(b) = Len(q) - p /\ \A i \in 1 .. Len(q) - p : b[i] = q[p + i]
  <2>1. p \in 0..Len(q)
    BY <1>1, <1>3
  <2> HIDE DEF a, r
  <2>2. /\ SubSeq(q, p + 1, Len(q)) \in Seq(Tasks) /\ Len(SubSeq(q, p + 1, Len(q))) = Len(q) - p
        /\ \A i \in 1 .. Len(q) - p : SubSeq(q, p + 1, Len(q))[i] = q[p + i]
    BY <1>1, <2>1, Suffix, ZenonT(60)
  <2> QED
    BY <2>2
<1> HIDE DEF a, b
<1>7. /\ r \in Seq(Tasks) /\ Len(r) = Len(a) + Len(b)
      /\ \A i \in 1 .. Len(a) + Len(b) : r[i] = IF i <= Len(a) THEN a[i] ELSE b[i - Len(a)]
  BY <1>5, <1>6, ConcatProperties
<1> HIDE DEF r
<1> DEFINE from(i) == IF i < p THEN i ELSE i + 1
<1>8. Len(r) = Len(q) - 1
  BY <1>1, <1>3, <1>5, <1>6, <1>7
<1>9. ASSUME NEW i \in 1..Len(r) PROVE r[i] = q[from(i)] /\ from(i) \in 1..Len(q) /\ from(i) # p
  <2>1. CASE i < p
    <3>1. i \in 1 .. p - 1 /\ i <= Len(a) /\ i \in 1 .. Len(a) + Len(b) /\ from(i) = i
      BY <1>1, <1>3, <1>5, <1>6, <1>8, <2>1
    <3> QED
      BY <1>1, <1>3, <1>5, <1>7, <2>1, <3>1
  <2>2. CASE p <= i
    <3>1. /\ i - Len(a) \in 1 .. Len(q) - p /\ ~(i <= Len(a)) /\ i \in 1 .. Len(a) + Len(b)
          /\ p + (i - Len(a)) = i + 1 /\ from(i) = i + 1
      BY <1>1, <1>3, <1>5, <1>6, <1>8, <2>2
    <3>2. r[i] = q[i + 1]
      BY <1>6, <1>7, <3>1
    <3> QED
      BY <1>1, <1>3, <1>8, <2>2, <3>1, <3>2
  <2> QED
    BY <1>1, <1>3, <1>8, <2>1, <2>2
<1>10. \A i, j \in 1..Len(r) : i < j => from(i) < from(j)
  BY <1>1, <1>3, <1>8
<1>11. QueueOK(r, low, n)
  <2>1. \A i \in 1..Len(r) : low < r[i] /\ r[i] <= n
    BY <1>9 DEF QueueOK
  <2>2. \A i, j \in 1..Len(r) : i < j => r[i] < r[j]
    <3> HIDE DEF from
    <3> QED
      BY <1>9, <1>10 DEF QueueOK
  <2> QED
    BY <1>7, <2>1, <2>2 DEF QueueOK
<1>12. \A i \in 1..Len(q) : i # p => q[i] # t
  <2> SUFFICES ASSUME NEW i \in 1..Len(q), i # p PROVE q[i] # q[p]
    BY <1>3
  <2>1. (i < p \/ p < i) /\ q[i] \in Nat /\ q[p] \in Nat
    BY <1>1, <1>2, <1>3, TasksAreNumbers
  <2>2. q[i] < q[p] \/ q[p] < q[i]
    BY <1>3, <2>1 DEF QueueOK
  <2> QED
    BY <2>1, <2>2
<1>13. ASSUME NEW u PROVE InQueue(r, u) <=> InQueue(q, u) /\ u # t
  <2>1. ASSUME NEW i \in 1..Len(r), r[i] = u PROVE InQueue(q, u) /\ u # t
    <3> HIDE DEF from
    <3> QED
      BY <1>9, <1>12, <2>1 DEF InQueue
  <2>2. ASSUME NEW i \in 1..Len(q), q[i] = u, u # t PROVE InQueue(r, u)
    <3>1. i # p
      BY <1>3, <2>2
    <3>2. CASE i < p
      <4>1. i \in 1..Len(r) /\ from(i) = i
        BY <1>1, <1>3, <1>8, <3>2
      <4> QED
        BY <1>9, <2>2, <4>1 DEF InQueue
    <3>3. CASE p < i
      <4>1. i - 1 \in 1..Len(r) /\ from(i - 1) = i
        BY <1>1, <1>3, <1>8, <3>3
      <4> QED
        BY <1>9, <2>2, <4>1 DEF InQueue
    <3> QED
      BY <1>1, <1>3, <3>1, <3>2, <3>3
  <2> QED
    BY <2>1, <2>2 DEF InQueue
<1>14. r = Unqueued(q, t)
  BY <1>4 DEF r, a, b
<1> QED
  BY <1>11, <1>13, <1>14

---------------------------------------------------------------------------
(* The client's functions. *)

LEMMA Numbers ==
    ASSUME NEW c \in Clients
    PROVE  c.active \in Nat /\ c.worker \in Nat /\ c.spawned \in Nat /\ None = 0
BY TasksAreNumbers DEF Clients, None

(* finish, once the task is detached and answered. *)
Answered(c, t, o) == Settle([c EXCEPT !.active = None], t, o)
Told(o) == <<o>>

LEMMA SettleActive ==
    ASSUME NEW n \in 0..N, NEW c, Coherent(c, n), Unposted(c, n), FreeWorker(c),
           NEW t \in Tasks, t = c.active, NEW o \in Outcomes,
           NEW e, e = Answered(c, t, o)
    PROVE  /\ Coherent(e, n) /\ Unposted(e, n) /\ FreeWorker(e)
           /\ e.active = None /\ (~c.idleTimer => ~e.idleTimer)
           /\ e.settled[t] = Told(o) /\ e.settled \in [Tasks -> Seq(Outcomes)]
           /\ \A u \in Tasks \ {t} : e.settled[u] = c.settled[u]
           /\ c.settled[t] = <<>>
<1>1. c \in Clients /\ c.settled \in [Tasks -> Seq(Outcomes)]
  BY DEF Coherent, Clients
<1>2. c.settled[t] = <<>>
  BY DEF Coherent
<1>3. <<o>> \in Seq(Outcomes) /\ Append(c.settled[t], o) = <<o>>
  BY <1>2
<1>4. /\ e.queue = c.queue /\ e.active = None /\ e.worker = c.worker /\ e.spawned = c.spawned
      /\ e.idleTimer = c.idleTimer /\ e.listening = c.listening \ {t}
      /\ e.settled = [c.settled EXCEPT ![t] = <<o>>]
  BY <1>1, <1>3 DEF Answered, Settle, Clients
<1>5. e \in Clients
  BY <1>1, <1>3 DEF Answered, Settle, Clients
<1>6. /\ e.settled[t] = <<o>> /\ e.settled \in [Tasks -> Seq(Outcomes)]
      /\ \A u \in Tasks \ {t} : e.settled[u] = c.settled[u]
  BY <1>1, <1>3, <1>4
<1>7. c.active \in Nat /\ c.active # None /\ None = 0 /\ None \notin Tasks /\ n \in Nat
  BY <1>1, Numbers, TasksAreNumbers
<1>8. \A i \in 1..Len(c.queue) : c.queue[i] \in Nat /\ t < c.queue[i]
  BY ElementOfSeq, TasksAreNumbers DEF Coherent, QueueOK
<1>9. ~InQueue(c.queue, t) /\ t <= n
  BY <1>7, <1>8 DEF InQueue, Coherent
<1>10. QueueOK(c.queue, None, n) /\ QueueOK(c.queue, c.spawned, n)
  BY <1>7, <1>8 DEF Coherent, QueueOK
<1>11. \A u \in Tasks : Len(e.settled[u]) <= 1
  <2>1. Len(<<o>>) <= 1
    OBVIOUS
  <2>2. \A u \in Tasks \ {t} : Len(e.settled[u]) <= 1
    BY <1>6 DEF Coherent
  <2> QED
    BY <1>6, <2>1, <2>2
<1>12. \A u \in Tasks : e.settled[u] = <<>> <=> (n < u \/ u = None \/ InQueue(c.queue, u))
  <2>1. ASSUME NEW u \in Tasks, u # t
        PROVE  e.settled[u] = <<>> <=> (n < u \/ u = None \/ InQueue(c.queue, u))
    BY <1>6, <1>7, <2>1 DEF Coherent
  <2>2. <<o>> # <<>> /\ ~(n < t) /\ t # None
    BY <1>7, <1>9, TasksAreNumbers
  <2> QED
    BY <1>6, <1>9, <2>1, <2>2
<1>13. \A u \in e.listening : u <= n /\ e.settled[u] = <<>>
  <2>1. c.listening \subseteq Tasks
    BY <1>1 DEF Clients
  <2>2. \A u \in e.listening : u \in c.listening /\ u \in Tasks \ {t}
    BY <1>4, <2>1
  <2> QED
    BY <1>6, <2>2 DEF Coherent
<1>14. Coherent(e, n)
  BY <1>4, <1>5, <1>7, <1>10, <1>11, <1>12, <1>13 DEF Coherent
<1>15. Unposted(e, n) /\ FreeWorker(e)
  BY <1>4 DEF Unposted, FreeWorker
<1> QED
  BY <1>2, <1>4, <1>6, <1>14, <1>15 DEF Told

(* runNext gives up the first k tasks of the queue. *)
SkippedTo(c, k, own) ==
    LET failed == {c.queue[i] : i \in 1..k}
    IN  [c EXCEPT !.queue = SubSeq(@, k + 1, Len(@)),
                  !.worker = IF k = 0 THEN @ ELSE None,
                  !.idleTimer = FALSE,
                  !.listening = @ \ failed,
                  !.settled = [t \in Tasks |->
                      IF t \in failed
                      THEN Append(@[t], IF t \in own THEN "aborted" ELSE "unposted")
                      ELSE @[t]]]

ToldUnposted(c, d) ==
    \A u \in Tasks : d.settled[u] = c.settled[u] \/ (c.settled[u] = <<>> /\ NotPosted(d, u))

LEMMA SkipGives ==
    ASSUME NEW n \in 0..N, NEW c, Coherent(c, n), Unposted(c, n), FreeWorker(c), c.active = None,
           NEW k \in 0..Len(c.queue), NEW own, NEW e, e = SkippedTo(c, k, own), TasksOK
    PROVE  /\ Coherent(e, n) /\ Unposted(e, n) /\ FreeWorker(e)
           /\ e.active = None /\ ~e.idleTimer
           /\ e.worker \in {c.worker, None} /\ (k # 0 => e.worker = None)
           /\ Len(e.queue) = Len(c.queue) - k
           /\ ToldUnposted(c, e)
<1>1. /\ c \in Clients /\ c.settled \in [Tasks -> Seq(Outcomes)] /\ c.queue \in Seq(Tasks)
      /\ QueueOK(c.queue, c.spawned, n) /\ QueueOK(c.queue, c.active, n)
  BY DEF Coherent, Clients
<1> DEFINE failed == {c.queue[i] : i \in 1..k}
           r == SubSeq(c.queue, k + 1, Len(c.queue))
<1>2. /\ QueueOK(r, c.spawned, n) /\ QueueOK(r, c.active, n) /\ Len(r) = Len(c.queue) - k
      /\ \A t : InQueue(c.queue, t) <=> InQueue(r, t) \/ t \in failed
      /\ \A t \in failed : ~InQueue(r, t)
  <2>1. QueueOK(r, c.spawned, n) /\ QueueOK(r, c.active, n)
    BY <1>1, QueueRest
  <2>2. /\ Len(r) = Len(c.queue) - k
        /\ \A t : InQueue(c.queue, t) <=> InQueue(r, t) \/ \E i \in 1..k : c.queue[i] = t
        /\ \A t : InQueue(r, t) => \A i \in 1..k : c.queue[i] # t
    BY <1>1, QueueRest
  <2> HIDE DEF r
  <2>3. \A t : t \in failed <=> \E i \in 1..k : c.queue[i] = t
    OBVIOUS
  <2> HIDE DEF failed
  <2> QED
    BY <2>1, <2>2, <2>3
<1> HIDE DEF r
<1> DEFINE why(t) == IF t \in own THEN "aborted" ELSE "unposted"
           told == [t \in Tasks |-> IF t \in failed THEN Append(c.settled[t], why(t)) ELSE c.settled[t]]
<1>3. /\ e.queue = r /\ e.active = c.active /\ e.spawned = c.spawned /\ e.idleTimer = FALSE
      /\ e.worker = (IF k = 0 THEN c.worker ELSE None)
      /\ e.listening = c.listening \ failed /\ e.settled = told
  BY <1>1 DEF SkippedTo, Clients, r
<1>4. failed \subseteq Tasks /\ \A t \in failed : c.settled[t] = <<>>
  <2>1. \A i \in 1..k : i \in 1..Len(c.queue)
    BY <1>1, LenProperties
  <2>2. \A t \in failed : InQueue(c.queue, t)
    BY <2>1 DEF InQueue
  <2>3. failed \subseteq Tasks
    BY <1>1, <2>1, ElementOfSeq
  <2> QED
    BY <2>2, <2>3 DEF Coherent
<1>5. \A t \in Tasks : told[t] = IF t \in failed THEN <<why(t)>> ELSE c.settled[t]
  <2>1. \A t : Append(<<>>, why(t)) = <<why(t)>>
    OBVIOUS
  <2> HIDE DEF failed
  <2> QED
    BY <1>4, <2>1
<1>6. told \in [Tasks -> Seq(Outcomes)]
  <2>1. \A t : <<why(t)>> \in Seq(Outcomes)
    BY DEF Outcomes
  <2> HIDE DEF why, failed, told
  <2>2. \A t \in Tasks : told[t] \in Seq(Outcomes)
    BY <1>1, <1>5, <2>1
  <2> QED
    BY <2>2 DEF told
<1>16. \A t : <<why(t)>> \in {<<"unposted">>, <<"aborted">>}
  OBVIOUS
<1> HIDE DEF failed, told, why
<1>7. e \in Clients
  <2>1. /\ r \in Seq(Tasks) /\ (IF k = 0 THEN c.worker ELSE None) \in Nat
        /\ c.listening \ failed \in SUBSET Tasks
    BY <1>1, <1>2 DEF Clients, QueueOK, None
  <2>2. e = [c EXCEPT !.queue = r, !.worker = IF k = 0 THEN @ ELSE None, !.idleTimer = FALSE,
                      !.listening = @ \ failed, !.settled = told]
    BY <1>1 DEF SkippedTo, Clients, r, failed, told, why
  <2> QED
    BY <1>1, <1>6, <2>1, <2>2 DEF Clients
<1>9. \A t \in Tasks : Len(e.settled[t]) <= 1
  <2>1. \A t : Len(<<why(t)>>) <= 1
    OBVIOUS
  <2> QED
    BY <1>3, <1>5, <2>1 DEF Coherent
<1>10. \A t \in Tasks : e.settled[t] = <<>> <=> (n < t \/ t = e.active \/ InQueue(r, t))
  <2>1. ASSUME NEW t \in failed PROVE ~(n < t) /\ t # c.active /\ ~InQueue(r, t)
    <3>1. PICK i \in 1..k : t = c.queue[i]
      BY <2>1 DEF failed
    <3>2. i \in 1..Len(c.queue)
      BY <1>1, LenProperties
    <3>3. c.active < t /\ t <= n
      BY <1>1, <3>1, <3>2 DEF QueueOK
    <3>4. t \in Nat /\ c.active \in Nat /\ n \in Nat
      BY <1>1, <1>4, Numbers, TasksAreNumbers
    <3> QED
      BY <1>2, <3>3, <3>4
  <2>2. ASSUME NEW t \in failed PROVE e.settled[t] # <<>> /\ t \in Tasks
    <3>1. <<why(t)>> # <<>>
      OBVIOUS
    <3> QED
      BY <1>3, <1>4, <1>5, <3>1
  <2>3. ASSUME NEW t \in Tasks \ failed
        PROVE  e.settled[t] = <<>> <=> (n < t \/ t = e.active \/ InQueue(r, t))
    BY <1>2, <1>3, <1>5, <2>3 DEF Coherent
  <2> QED
    BY <1>3, <2>1, <2>2, <2>3
<1>11. \A t \in e.listening : t <= n /\ e.settled[t] = <<>>
  BY <1>1, <1>3, <1>5 DEF Coherent, Clients
<1>12. e.worker <= e.spawned
  BY <1>1, <1>3, Numbers DEF Coherent
<1>13. Coherent(e, n)
  BY <1>2, <1>3, <1>7, <1>9, <1>10, <1>11, <1>12 DEF Coherent
<1>14. Unposted(e, n)
  BY <1>2, <1>3 DEF Unposted
<1>15. FreeWorker(e)
  BY <1>3 DEF FreeWorker, TasksOK, Working, None
<1>8. ToldUnposted(c, e)
  <2>1. ASSUME NEW t \in failed PROVE InTurn(e, t)
    <3> SUFFICES ASSUME NEW v \in Tasks, v < t, InQueue(r, v) PROVE FALSE
      <4>1. t \in Tasks /\ t <= n /\ n \in Nat
        <5>1. PICK i \in 1..k : t = c.queue[i]
          BY <2>1 DEF failed
        <5>2. i \in 1..Len(c.queue)
          BY <1>1, LenProperties
        <5> QED
          BY <1>1, <1>4, <5>1, <5>2, TasksAreNumbers DEF QueueOK
      <4>2. \A v \in Tasks : v < t => ~(n < v) /\ v # e.active
        BY <1>3, <4>1, TasksAreNumbers DEF None
      <4> QED
        BY <1>10, <4>2 DEF InTurn
    <3>1. PICK i \in 1..k : t = c.queue[i]
      BY <2>1 DEF failed
    <3>2. PICK j \in 1..Len(r) : v = r[j]
      BY DEF InQueue
    <3>3. /\ i \in 1..Len(c.queue) /\ k + j \in 1..Len(c.queue) /\ i < k + j
          /\ v = c.queue[k + j]
      <4>1. Len(r) = Len(c.queue) - k /\ \A m \in 1..Len(c.queue) - k : r[m] = c.queue[k + m]
        BY <1>1, Suffix DEF r
      <4>2. Len(c.queue) \in Nat /\ j \in 1..Len(c.queue) - k
        BY <1>1, <4>1, LenProperties
      <4> QED
        BY <3>2, <4>1, <4>2
    <3>4. t < v
      BY <1>1, <3>1, <3>3 DEF QueueOK
    <3> QED
      BY <1>4, <2>1, <3>4, TasksAreNumbers
  <2> QED
    BY <1>3, <1>4, <1>5, <1>16, <2>1 DEF ToldUnposted, NotPosted
<1> QED
  BY <1>2, <1>3, <1>8, <1>13, <1>14, <1>15

(* What runNext posts next. *)
LEMMA PostGives ==
    ASSUME NEW n \in 0..N, NEW c, Coherent(c, n), Unposted(c, n), FreeWorker(c), c.active = None,
           ~c.idleTimer, c.queue # <<>>, NEW e, e = PostHead(c), TasksOK
    PROVE  Started(e, n) /\ e.settled = c.settled
<1>1. c \in Clients /\ c.queue \in Seq(Tasks)
  BY DEF Coherent, Clients
<1>2. /\ c.worker \in Nat /\ c.spawned \in Nat /\ c.active \in Nat /\ None = 0
      /\ c.worker <= c.spawned /\ n \in Nat
  BY <1>1, Numbers, TasksAreNumbers DEF Coherent
<1> DEFINE h == Head(c.queue)
           r == Tail(c.queue)
<1>3. /\ h \in Tasks /\ c.spawned < h /\ h <= n /\ QueueOK(r, h, n)
      /\ \A t : InQueue(c.queue, t) <=> InQueue(r, t) \/ t = h
  BY QueueHead DEF Coherent
<1>4. /\ e.queue = r /\ e.active = h /\ e.idleTimer = c.idleTimer /\ e.listening = c.listening
      /\ e.settled = c.settled
      /\ e.spawned = (IF c.worker = None THEN c.spawned + 1 ELSE c.spawned)
      /\ e.worker = (IF c.worker = None THEN c.spawned + 1 ELSE c.worker)
  BY <1>1 DEF PostHead, Clients
<1>5. r \in Seq(Tasks)
  BY <1>3 DEF QueueOK
<1>6. e \in Clients
  <2>1. c.spawned + 1 \in Nat
    BY <1>2
  <2>2. \E s, w \in Nat : e = [c EXCEPT !.active = h, !.queue = r, !.spawned = s, !.worker = w]
    <3>1. CASE c.worker = None
      <4>1. e = [c EXCEPT !.active = h, !.queue = r, !.spawned = c.spawned + 1, !.worker = c.spawned + 1]
        BY <1>1, <3>1 DEF PostHead, Clients
      <4> QED
        BY <2>1, <4>1
    <3>2. CASE c.worker # None
      <4>1. e = [c EXCEPT !.active = h, !.queue = r, !.spawned = c.spawned, !.worker = c.worker]
        BY <1>1, <3>2 DEF PostHead, Clients
      <4> QED
        BY <1>2, <4>1
    <3> QED
      BY <3>1, <3>2
  <2> HIDE DEF h, r
  <2> QED
    BY <1>1, <1>3, <1>5, <2>2 DEF Clients
<1> HIDE DEF h, r
<1>7. h \in Nat /\ h # None
  BY <1>3, TasksAreNumbers DEF None
<1>8. /\ e.worker \in Nat /\ e.worker <= e.spawned /\ e.spawned <= h /\ e.spawned <= n
      /\ e.worker # None /\ c.spawned <= e.spawned
  BY <1>2, <1>3, <1>4, <1>7
<1>9. QueueOK(r, e.spawned, n)
  <2>1. \A i \in 1..Len(r) : r[i] \in Nat /\ h < r[i] /\ r[i] <= n
    BY <1>3, ElementOfSeq, TasksAreNumbers DEF QueueOK
  <2>2. \A i \in 1..Len(r) : e.spawned < r[i]
    <3>1. e.spawned \in Nat
      BY <1>2, <1>4
    <3> QED
      BY <1>7, <1>8, <2>1, <3>1
  <2> QED
    BY <1>3, <2>2 DEF QueueOK
<1>10. \A t \in Tasks : e.settled[t] = <<>> <=> (n < t \/ t = h \/ InQueue(r, t))
  <2>1. \A t \in Tasks : t # None
    BY TasksAreNumbers DEF None
  <2> QED
    BY <1>3, <1>4, <2>1 DEF Coherent
<1>11. Coherent(e, n)
  BY <1>3, <1>4, <1>6, <1>8, <1>9, <1>10 DEF Coherent
<1>12. home[h] = None
  BY <1>3 DEF Unposted
<1>13. Unposted(e, n)
  <2>1. ASSUME NEW t \in Tasks, home[t] # None
        PROVE  home[t] <= e.spawned /\ t <= n /\ ~InQueue(r, t)
    <3>1. home[t] <= c.spawned /\ t <= n /\ ~InQueue(c.queue, t)
      BY <2>1 DEF Unposted
    <3>2. home[t] \in Nat
      BY TasksAreNumbers DEF TasksOK
    <3>3. e.spawned \in Nat
      BY <1>2, <1>4
    <3> QED
      BY <1>2, <1>3, <1>8, <3>1, <3>2, <3>3
  <2> QED
    BY <1>4, <2>1 DEF Unposted
<1>14. FreeWorker(e)
  <2>1. CASE c.worker # None
    BY <1>4, <2>1 DEF FreeWorker
  <2>2. CASE c.worker = None
    <3>1. \A t \in Tasks : home[t] # e.worker
      <4>1. ASSUME NEW t \in Tasks, home[t] = c.spawned + 1 PROVE FALSE
        <5>1. home[t] # None
          BY <1>2, <4>1
        <5>2. home[t] <= c.spawned
          BY <5>1 DEF Unposted
        <5> QED
          BY <1>2, <4>1, <5>2
      <4> QED
        BY <1>4, <2>2, <4>1
    <3> QED
      BY <3>1 DEF FreeWorker
  <2> QED
    BY <2>1, <2>2
<1>15. Timed(e)
  BY <1>4, <1>7 DEF Timed
<1> QED
  BY <1>4, <1>7, <1>8, <1>11, <1>12, <1>13, <1>14, <1>15 DEF Started

(* runNext with something in the queue and nobody active. *)
LEMMA StartGives ==
    ASSUME NEW n \in 0..N, NEW c, Coherent(c, n), Unposted(c, n), FreeWorker(c), c.active = None,
           c.queue # <<>>, NEW k \in 0..Len(c.queue), NEW own, NEW d, d = StartAfter(c, k, own), TasksOK
    PROVE  /\ Started(d, n) \/ (Resting(d, n) /\ d.active = None /\ d.worker = None)
           /\ ToldUnposted(c, d)
<1> DEFINE e == SkippedTo(c, k, own)
<1>1. d = IF e.queue = <<>> THEN e ELSE PostHead(e)
  BY DEF StartAfter, SkippedTo
<1>2. /\ Coherent(e, n) /\ Unposted(e, n) /\ FreeWorker(e) /\ e.active = None /\ ~e.idleTimer
      /\ (k # 0 => e.worker = None) /\ Len(e.queue) = Len(c.queue) - k /\ ToldUnposted(c, e)
  BY SkipGives
<1> HIDE DEF e
<1>3. CASE e.queue = <<>>
  <2>1. c.queue \in Seq(Tasks)
    BY DEF Coherent, QueueOK
  <2>2. Len(c.queue) \in Nat \ {0} /\ Len(e.queue) = 0
    BY <1>3, <2>1, EmptySeq
  <2>3. e.worker = None
    BY <1>2, <2>2
  <2>4. Resting(e, n)
    BY <1>2, <2>3 DEF Resting, Timed, Occupied
  <2> QED
    BY <1>1, <1>2, <1>3, <2>3, <2>4
<1>4. CASE e.queue # <<>>
  <2>1. Started(d, n) /\ d.settled = e.settled
    BY <1>1, <1>2, <1>4, PostGives
  <2> QED
    BY <1>2, <2>1 DEF ToldUnposted, NotPosted, InTurn
<1> QED
  BY <1>3, <1>4

(* finish leaves the client at rest or with the next task posted. *)
LEMMA FinishGives ==
    ASSUME NEW n \in 0..N, NEW c, Coherent(c, n), Unposted(c, n), FreeWorker(c), ~c.idleTimer,
           NEW t \in Tasks, t = c.active, NEW o \in Outcomes,
           NEW d \in Finish(c, t, o), TasksOK
    PROVE  /\ Started(d, n) \/ (Resting(d, n) /\ d.active = None)
           /\ TellsTo(c, d, t, o) /\ d.settled[t] = Told(o)
<1>0. PICK s : s = Answered(c, t, o)
  OBVIOUS
<1>1. /\ Coherent(s, n) /\ Unposted(s, n) /\ FreeWorker(s) /\ s.active = None /\ ~s.idleTimer
      /\ s.settled[t] = <<o>> /\ c.settled[t] = <<>>
      /\ \A u \in Tasks \ {t} : s.settled[u] = c.settled[u]
  <2>1. /\ Coherent(s, n) /\ Unposted(s, n) /\ FreeWorker(s)
        /\ s.active = None /\ (~c.idleTimer => ~s.idleTimer)
        /\ s.settled[t] = Told(o) /\ s.settled \in [Tasks -> Seq(Outcomes)]
        /\ \A u \in Tasks \ {t} : s.settled[u] = c.settled[u]
        /\ c.settled[t] = <<>>
    BY <1>0, SettleActive
  <2> QED
    BY <2>1 DEF Told
<1>2. PICK e \in RunNext(s) : d = ArmIdleTimer(e)
  BY <1>0 DEF Finish, Answered
<1>3. CASE s.queue = <<>>
  <2>1. e = s
    BY <1>2, <1>3 DEF RunNext
  <2>2. s \in Clients
    BY <1>1 DEF Coherent
  <2>3. /\ d \in Clients /\ d.queue = s.queue /\ d.active = s.active /\ d.worker = s.worker
        /\ d.spawned = s.spawned /\ d.listening = s.listening /\ d.settled = s.settled
        /\ d.idleTimer = (s.worker # None)
    <3>1. CASE s.worker # None
      <4>1. d = [s EXCEPT !.idleTimer = TRUE]
        BY <1>1, <1>2, <1>3, <2>1, <3>1 DEF ArmIdleTimer
      <4> QED
        BY <2>2, <3>1, <4>1 DEF Clients
    <3>2. CASE s.worker = None
      <4>1. d = s
        BY <1>1, <1>2, <2>1, <3>2 DEF ArmIdleTimer
      <4> QED
        BY <1>1, <2>2, <3>2, <4>1 DEF Clients
    <3> QED
      BY <3>1, <3>2
  <2>4. Coherent(d, n) /\ Unposted(d, n) /\ FreeWorker(d)
    BY <1>1, <2>3 DEF Coherent, Unposted, FreeWorker
  <2>5. Resting(d, n) /\ d.active = None
    BY <1>1, <1>3, <2>3, <2>4 DEF Resting, Timed, Occupied
  <2>6. TellsTo(c, d, t, o)
    BY <1>1, <2>3 DEF TellsTo
  <2> QED
    BY <1>1, <2>3, <2>5, <2>6 DEF Told
<1>4. CASE s.queue # <<>>
  <2>1. PICK k \in 0..Len(s.queue), own \in SUBSET s.listening : e = StartAfter(s, k, own)
    BY <1>1, <1>2, <1>4 DEF RunNext, Starts
  <2>2. /\ Started(e, n) \/ (Resting(e, n) /\ e.active = None /\ e.worker = None)
        /\ ToldUnposted(s, e)
    BY <1>1, <1>4, <2>1, StartGives
  <2>3. d = e
    BY <1>2, <2>2 DEF ArmIdleTimer, Started
  <2>4. e.settled[t] = <<o>>
    <3>1. <<o>> # <<>>
      OBVIOUS
    <3> QED
      BY <1>1, <2>2, <3>1 DEF ToldUnposted
  <2>5. TellsTo(c, d, t, o)
    BY <1>1, <2>2, <2>3, <2>4 DEF TellsTo, ToldUnposted
  <2> QED
    BY <2>2, <2>3, <2>4, <2>5 DEF Told
<1> QED
  BY <1>3, <1>4

LEMMA StopGives ==
    ASSUME NEW n \in 0..N, NEW c, Coherent(c, n), Unposted(c, n), TasksOK,
           NEW e, e = StopWorker(c)
    PROVE  /\ Coherent(e, n) /\ Unposted(e, n) /\ FreeWorker(e)
           /\ e.active = c.active /\ e.queue = c.queue /\ e.settled = c.settled
           /\ (~c.idleTimer => ~e.idleTimer) /\ e.worker = None
<1>1. c \in Clients /\ None \in Nat
  BY DEF Coherent, None
<1>2. /\ e \in Clients /\ e.active = c.active /\ e.queue = c.queue /\ e.settled = c.settled
      /\ e.spawned = c.spawned /\ e.idleTimer = c.idleTimer /\ e.listening = c.listening
      /\ e.worker = None
  BY <1>1 DEF StopWorker, Clients
<1>3. e.worker <= e.spawned
  BY <1>1, <1>2, Numbers
<1>4. Coherent(e, n) /\ Unposted(e, n)
  BY <1>2, <1>3 DEF Coherent, Unposted
<1>5. FreeWorker(e)
  BY <1>2 DEF FreeWorker, TasksOK, Working
<1> QED
  BY <1>2, <1>4, <1>5

(* abortTask for a queued task: only the queue becomes shorter. *)
LEMMA AbortQueuedGives ==
    ASSUME NEW n \in 0..N, NEW c, Resting(c, n), TasksOK,
           NEW t \in c.listening, t # c.active, NEW d \in AbortTask(c, t)
    PROVE  /\ Resting(d, n) /\ d.active = c.active /\ d.worker = c.worker
           /\ TellsTo(c, d, t, "aborted") /\ d.settled[t] = Told("aborted")
<1>1. /\ c \in Clients /\ Coherent(c, n) /\ c.settled \in [Tasks -> Seq(Outcomes)]
      /\ c.queue \in Seq(Tasks) /\ t \in Tasks
      /\ QueueOK(c.queue, c.spawned, n) /\ QueueOK(c.queue, c.active, n)
  BY DEF Resting, Coherent, Clients
<1>2. c.settled[t] = <<>> /\ t <= n
  BY <1>1 DEF Coherent
<1>3. InQueue(c.queue, t)
  <2>1. ~(n < t)
    BY <1>1, <1>2, TasksAreNumbers
  <2> QED
    BY <1>1, <1>2, <2>1 DEF Coherent
<1> DEFINE r == Unqueued(c.queue, t)
<1>4. /\ QueueOK(r, c.spawned, n) /\ QueueOK(r, c.active, n)
      /\ \A u : InQueue(r, u) <=> InQueue(c.queue, u) /\ u # t
  BY <1>1, <1>3, QueueWithout
<1>5. <<"aborted">> \in Seq(Outcomes) /\ Append(<<>>, "aborted") = <<"aborted">>
  BY DEF Outcomes
<1>6. d = Settle([c EXCEPT !.queue = r], t, "aborted")
  BY DEF AbortTask
<1>7. r \in Seq(Tasks)
  BY <1>4 DEF QueueOK
<1> HIDE DEF r
<1>8. /\ d.queue = r /\ d.active = c.active /\ d.worker = c.worker /\ d.spawned = c.spawned
      /\ d.idleTimer = c.idleTimer /\ d.listening = c.listening \ {t}
      /\ d.settled = [c.settled EXCEPT ![t] = <<"aborted">>]
  BY <1>1, <1>2, <1>5, <1>6 DEF Settle, Clients
<1>9. d \in Clients
  BY <1>1, <1>2, <1>5, <1>6, <1>7 DEF Settle, Clients
<1>10. /\ d.settled[t] = <<"aborted">>
       /\ \A u \in Tasks \ {t} : d.settled[u] = c.settled[u]
  BY <1>1, <1>5, <1>8
<1>11. \A u \in Tasks : Len(d.settled[u]) <= 1
  <2>1. Len(<<"aborted">>) <= 1
    OBVIOUS
  <2>2. \A u \in Tasks \ {t} : Len(d.settled[u]) <= 1
    BY <1>1, <1>10 DEF Coherent
  <2> QED
    BY <1>10, <2>1, <2>2
<1>12. \A u \in Tasks : d.settled[u] = <<>> <=> (n < u \/ u = d.active \/ InQueue(d.queue, u))
  <2>1. <<"aborted">> # <<>>
    OBVIOUS
  <2>2. ~(n < t)
    BY <1>1, <1>2, TasksAreNumbers
  <2>3. ASSUME NEW u \in Tasks \ {t}
        PROVE  d.settled[u] = <<>> <=> (n < u \/ u = d.active \/ InQueue(d.queue, u))
    BY <1>1, <1>4, <1>8, <1>10, <2>3 DEF Coherent
  <2> QED
    BY <1>4, <1>8, <1>10, <2>1, <2>2, <2>3
<1>13. \A u \in d.listening : u <= n /\ d.settled[u] = <<>>
  <2>1. \A u \in d.listening : u \in c.listening /\ u \in Tasks \ {t}
    BY <1>1, <1>8 DEF Clients
  <2> QED
    BY <1>1, <1>10, <2>1 DEF Coherent
<1>14. Coherent(d, n)
  BY <1>1, <1>4, <1>8, <1>9, <1>11, <1>12, <1>13 DEF Coherent
<1>15. Unposted(d, n)
  BY <1>4, <1>8 DEF Resting, Unposted
<1>16. Timed(d)
  <2>1. c.queue # <<>>
    <3>1. Len(<<>>) = 0
      OBVIOUS
    <3> QED
      BY <1>3, <3>1 DEF InQueue
  <2> QED
    BY <1>8, <2>1 DEF Resting, Timed
<1>17. Occupied(d)
  BY <1>8 DEF Resting, Occupied, FreeWorker
<1>18. TellsTo(c, d, t, "aborted")
  BY <1>2, <1>10 DEF TellsTo
<1> QED
  BY <1>8, <1>10, <1>14, <1>15, <1>16, <1>17, <1>18 DEF Resting, Told

(* The active task ends and its worker is stopped: an abort, a crash, a      *)
(* progress callback that throws.                                            *)
LEMMA StopAndFinishGives ==
    ASSUME NEW n \in 0..N, NEW c, Resting(c, n), TasksOK,
           NEW t \in Tasks, t = c.active, NEW o \in Outcomes, NEW d \in Finish(StopWorker(c), t, o)
    PROVE  /\ Started(d, n) \/ (Resting(d, n) /\ d.active = None)
           /\ TellsTo(c, d, t, o) /\ d.settled[t] = Told(o)
<1>1. PICK e : e = StopWorker(c)
  OBVIOUS
<1>2. /\ Coherent(e, n) /\ Unposted(e, n) /\ FreeWorker(e)
      /\ e.active = t /\ e.settled = c.settled /\ (~c.idleTimer => ~e.idleTimer)
  BY <1>1, StopGives DEF Resting
<1>3. ~c.idleTimer
  BY TasksAreNumbers DEF Resting, Timed, None
<1>4. d \in Finish(e, t, o)
  BY <1>1
<1>5. /\ Started(d, n) \/ (Resting(d, n) /\ d.active = None)
      /\ TellsTo(e, d, t, o) /\ d.settled[t] = Told(o)
  BY <1>2, <1>3, <1>4, FinishGives
<1> QED
  BY <1>2, <1>5 DEF TellsTo

LEMMA AbortGives ==
    ASSUME NEW n \in 0..N, NEW c, Resting(c, n), TasksOK,
           NEW t \in c.listening, NEW d \in AbortTask(c, t)
    PROVE  /\ Handled(c, d, n)
           /\ TellsTo(c, d, t, "aborted") /\ d.settled[t] = Told("aborted")
           /\ t # c.active => d.active = c.active /\ d.worker = c.worker
<1>1. t \in Tasks
  BY DEF Resting, Coherent, Clients
<1>2. CASE t # c.active
  BY <1>2, AbortQueuedGives DEF Handled
<1>3. CASE t = c.active
  <2>1. d \in Finish(StopWorker(c), t, "aborted")
    BY <1>3 DEF AbortTask
  <2>2. "aborted" \in Outcomes
    BY DEF Outcomes
  <2> QED
    BY <1>1, <1>3, <2>1, <2>2, StopAndFinishGives DEF Handled
<1> QED
  BY <1>2, <1>3

(* What a handler's callers are told, when no answer of a worker is passed   *)
(* on.                                                                       *)
Harmless(c, d) ==
    \A u \in Tasks :
        \/ d.settled[u] = c.settled[u]
        \/ c.settled[u] = <<>> /\ \E o \in {"unposted", "aborted", "threw"} : d.settled[u] = Told(o)

KeepsActive(c, d) ==
    \A u \in Tasks :
        (u # c.active /\ c.settled[u] = <<>> /\ d.settled[u] = Told("aborted") /\ ~InTurn(d, u)) =>
            \/ d.active = c.active /\ d.worker = c.worker
            \/ d.settled[c.active] = Told("threw")

LEMMA DifferentOutcomes ==
    \A o, p : Told(o) # <<>> /\ (Told(o) = Told(p) => o = p)
BY DEF Told

LEMMA TellsHarmlessly ==
    ASSUME NEW c, NEW d, NEW t, NEW o \in {"aborted", "threw"}, TellsTo(c, d, t, o)
    PROVE  Harmless(c, d)
BY DEF TellsTo, NotPosted, Harmless, Told

(* Who else is told of an abort when the active task ends: nobody behind a   *)
(* task that waits.                                                          *)
LEMMA FinishKeepsActive ==
    ASSUME NEW c, NEW d, NEW o, TellsTo(c, d, c.active, o)
    PROVE  KeepsActive(c, d)
<1> SUFFICES ASSUME NEW u \in Tasks, u # c.active, c.settled[u] = <<>>, d.settled[u] = Told("aborted"),
                    ~InTurn(d, u)
             PROVE  FALSE
  BY DEF KeepsActive
<1>1. d.settled[u] = Told("unposted")
  BY DifferentOutcomes DEF TellsTo, NotPosted, Told
<1> QED
  BY <1>1, DifferentOutcomes

LEMMA ProgressGives ==
    ASSUME NEW n \in 0..N, NEW c, Resting(c, n), TasksOK, c.active # None,
           NEW e \in Progress(c, c.active)
    PROVE  Handled(c, e, n) /\ Harmless(c, e) /\ KeepsActive(c, e)
<1>1. c.active \in Tasks /\ Handled(c, c, n) /\ Harmless(c, c)
  BY DEF Resting, Coherent, Clients, Handled, Harmless
<1>2. PICK d \in AfterCallback(c) : e = d \/ e \in FailCallback(d, c.active)
  BY DEF Progress
<1>3. CASE d = c
  <2>1. CASE e = c
    BY <1>1, <2>1 DEF KeepsActive, Told
  <2>2. CASE e \in FailCallback(c, c.active)
    <3>1. e \in Finish(StopWorker(c), c.active, "threw")
      BY <2>2 DEF FailCallback
    <3>2. "threw" \in Outcomes
      BY DEF Outcomes
    <3>3. /\ Started(e, n) \/ (Resting(e, n) /\ e.active = None)
          /\ TellsTo(c, e, c.active, "threw")
      BY <1>1, <3>1, <3>2, StopAndFinishGives
    <3> QED
      BY <3>3, TellsHarmlessly, FinishKeepsActive DEF Handled
  <2> QED
    BY <1>2, <1>3, <2>1, <2>2
<1>4. ASSUME NEW u \in c.listening, d \in AbortTask(c, u)
      PROVE  Handled(c, e, n) /\ Harmless(c, e) /\ KeepsActive(c, e)
  <2>1. /\ Handled(c, d, n) /\ TellsTo(c, d, u, "aborted") /\ d.settled[u] = Told("aborted")
        /\ u # c.active => d.active = c.active /\ d.worker = c.worker
    BY <1>4, AbortGives
  <2>2. Harmless(c, d)
    BY <2>1, TellsHarmlessly
  <2>3. CASE e = d
    <3>1. CASE u = c.active
      BY <2>1, <2>2, <2>3, <3>1, FinishKeepsActive
    <3>2. CASE u # c.active
      BY <2>1, <2>2, <2>3, <3>2 DEF KeepsActive
    <3> QED
      BY <3>1, <3>2
  <2>4. CASE e # d
    <3>1. d.active = c.active /\ e \in Finish(StopWorker(d), c.active, "threw")
      BY <1>2, <2>4 DEF FailCallback
    <3>2. Resting(d, n)
      BY <2>1, <3>1 DEF Handled, Started, Resting, Occupied
    <3>3. "threw" \in Outcomes
      BY DEF Outcomes
    <3>4. /\ Started(e, n) \/ (Resting(e, n) /\ e.active = None)
          /\ TellsTo(d, e, c.active, "threw") /\ e.settled[c.active] = Told("threw")
      BY <1>1, <3>1, <3>2, <3>3, StopAndFinishGives
    <3>5. Harmless(d, e)
      BY <3>4, TellsHarmlessly
    <3>6. Harmless(c, e)
      BY <2>2, <3>5, DifferentOutcomes DEF Harmless
    <3> QED
      BY <3>4, <3>6 DEF Handled, KeepsActive
  <2> QED
    BY <2>3, <2>4
<1> QED
  BY <1>2, <1>3, <1>4 DEF AfterCallback

---------------------------------------------------------------------------
(* The invariant. *)

Messages == [id : Tasks, kind : {"progress", "result", "error"}]

(* A worker posts only about a task it was given, and the answer last. *)
Sent(m, w) ==
    /\ home[m.id] = w /\ stage[m.id] \notin {"none", "posted"}
    /\ m.kind # "progress" => stage[m.id] = m.kind

MailOK ==
    /\ mail \in [Workers -> Seq(Messages)]
    /\ \A w \in Workers : \A i \in 1..Len(mail[w]) : Sent(mail[w][i], w)

ClientInv ==
    /\ sequence \in 0..N /\ TasksOK /\ crash \in [Workers -> {"none", "raised", "seen"}]
    /\ Resting(client, sequence)
    /\ OneOperationPerWorker
    /\ OutcomesAreOwn
    /\ MailOK

(* The task a step posts, if any, was on no worker. *)
Undisturbed(t) ==
    \/ home'[t] = home[t] /\ stage'[t] = stage[t]
    \/ home[t] = None /\ client'.settled[t] = <<>>

LEMMA PostedGives ==
    ASSUME TasksOK, OneOperationPerWorker, Occupied(client), sequence' \in 0..N,
           Handled(client, client', sequence'), Posted
    PROVE  /\ TasksOK' /\ OneOperationPerWorker' /\ Resting(client, sequence)'
           /\ \A t \in Tasks : Undisturbed(t)
<1>1. CASE Started(client', sequence')
  <2> DEFINE a == client'.active
  <2>1. a \in Tasks /\ home[a] = None /\ client'.settled[a] = <<>>
    BY <1>1 DEF Started, Coherent, Clients
  <2>2. a # client.active
    <3>1. a # None
      BY <1>1 DEF Started
    <3> QED
      BY <2>1, <3>1 DEF Occupied
  <2>3. client'.worker \in 1..N
    BY <1>1, TasksAreNumbers DEF Started, Coherent, Clients, None
  <2>4. /\ home' = [home EXCEPT ![a] = client'.worker] /\ stage' = [stage EXCEPT ![a] = "posted"]
    BY <1>1, <2>2 DEF Posted, Started
  <2>5. /\ home'[a] = client'.worker /\ stage'[a] = "posted"
        /\ \A t \in Tasks \ {a} : home'[t] = home[t] /\ stage'[t] = stage[t]
        /\ home' \in [Tasks -> 0..N] /\ stage' \in [Tasks -> Stages]
    BY <2>1, <2>3, <2>4 DEF TasksOK, Stages
  <2>6. client'.worker # None /\ FreeWorker(client')
    BY <1>1 DEF Started
  <2>7. TasksOK'
    BY <2>5, <2>6 DEF TasksOK
  <2>8. OneOperationPerWorker'
    <3> SUFFICES ASSUME NEW t \in Tasks, NEW u \in Tasks, t # u,
                        stage'[t] \in Working, stage'[u] \in Working
                 PROVE  home'[t] # home'[u]
      BY DEF OneOperationPerWorker, Working
    <3>1. CASE t # a /\ u # a
      BY <2>5, <3>1 DEF OneOperationPerWorker, Working
    <3>2. CASE t = a \/ u = a
      BY <2>5, <2>6, <3>2 DEF FreeWorker
    <3> QED
      BY <3>1, <3>2
  <2>9. Coherent(client, sequence)' /\ Timed(client)'
    BY <1>1 DEF Started, Coherent, Timed
  <2>10. Unposted(client, sequence)'
    <3>1. ASSUME NEW t \in Tasks, home'[t] # None
          PROVE  home'[t] <= client'.spawned /\ t <= sequence' /\ ~InQueue(client'.queue, t)
      <4>1. CASE t # a
        BY <1>1, <2>5, <3>1, <4>1 DEF Started, Unposted
      <4>2. CASE t = a
        <5>1. client'.worker <= client'.spawned /\ a <= sequence'
          BY <1>1 DEF Started, Coherent
        <5>2. ~InQueue(client'.queue, a)
          <6> SUFFICES ASSUME NEW i \in 1..Len(client'.queue), client'.queue[i] = a PROVE FALSE
            BY DEF InQueue
          <6>1. a < client'.queue[i]
            BY <1>1 DEF Started, Coherent, QueueOK
          <6> QED
            BY <2>1, <6>1, TasksAreNumbers
        <5> QED
          BY <2>5, <4>2, <5>1, <5>2
      <4> QED
        BY <4>1, <4>2
    <3> QED
      BY <3>1 DEF Unposted
  <2>11. Occupied(client)'
    <3>1. a # None
      BY <1>1 DEF Started
    <3> QED
      BY <2>5, <2>6, <3>1 DEF Occupied, FreeWorker
  <2> QED
    BY <2>1, <2>5, <2>7, <2>8, <2>9, <2>10, <2>11 DEF Resting, Undisturbed
<1>2. CASE Resting(client', sequence') /\ client'.active \in {None, client.active}
  <2>1. home' = home /\ stage' = stage
    BY <1>2 DEF Posted
  <2>2. TasksOK' /\ OneOperationPerWorker'
    BY <2>1 DEF TasksOK, OneOperationPerWorker
  <2>3. Resting(client, sequence)'
    BY <1>2, <2>1 DEF Resting, Coherent, Unposted, Timed, Occupied, FreeWorker
  <2> QED
    BY <2>1, <2>2, <2>3 DEF Undisturbed
<1> QED
  BY <1>1, <1>2 DEF Handled

(* What a handler may tell: an answer its worker reached, a crash it had. *)
Deserved(u, o) ==
    /\ o \in {"result", "error"} => stage[u] = o
    /\ o = "crashed" => home[u] # None /\ crash'[home[u]] = "seen"

LEMMA OutcomesStay ==
    ASSUME OutcomesAreOwn, Coherent(client, sequence), Coherent(client, sequence)',
           \A t \in Tasks : Undisturbed(t),
           \A t \in Tasks : home[t] # None /\ crash[home[t]] = "seen" => crash'[home[t]] = "seen",
           \A u \in Tasks :
               \/ client'.settled[u] = client.settled[u]
               \/ \E o : client'.settled[u] = Told(o) /\ Deserved(u, o)
    PROVE  OutcomesAreOwn'
<1> SUFFICES ASSUME NEW u \in Tasks, NEW i \in 1..Len(client'.settled[u])
             PROVE  LET o == client'.settled[u][i]
                    IN  /\ o \in {"result", "error"} => stage'[u] = o
                        /\ o = "crashed" => home'[u] # None /\ crash'[home'[u]] = "seen"
  BY DEF OutcomesAreOwn
<1>1. home'[u] = home[u] /\ stage'[u] = stage[u]
  <2>1. client'.settled[u] # <<>>
    <3>1. Len(<<>>) = 0
      OBVIOUS
    <3> QED
      BY <3>1
  <2> QED
    BY <2>1 DEF Undisturbed
<1>2. Deserved(u, client'.settled[u][i])
  <2>1. CASE client'.settled[u] = client.settled[u]
    BY <2>1 DEF OutcomesAreOwn, Deserved
  <2>2. ASSUME NEW o, client'.settled[u] = Told(o), Deserved(u, o)
        PROVE  Deserved(u, client'.settled[u][i])
    <3>1. Len(<<o>>) = 1 /\ <<o>>[1] = o
      OBVIOUS
    <3>2. i = 1
      BY <2>2, <3>1 DEF Told
    <3> QED
      BY <2>2, <3>1, <3>2 DEF Told
  <2> QED
    BY <2>1, <2>2
<1> QED
  BY <1>1, <1>2 DEF Deserved

LEMMA MailStays ==
    ASSUME MailOK, TasksOK, \A t \in Tasks : Undisturbed(t), mail' = mail
    PROVE  MailOK'
<1>1. ASSUME NEW w \in Workers, NEW i \in 1..Len(mail[w]) PROVE Sent(mail[w][i], w)'
  <2>1. mail[w][i] \in Messages /\ Sent(mail[w][i], w)
    BY ElementOfSeq DEF MailOK
  <2>2. PICK m \in Messages : m = mail[w][i]
    BY <2>1
  <2>3. home[m.id] # None /\ m.id \in Tasks
    BY <2>1, <2>2 DEF Sent, TasksOK, Messages
  <2>4. home'[m.id] = home[m.id] /\ stage'[m.id] = stage[m.id]
    BY <2>3 DEF Undisturbed
  <2> QED
    BY <2>1, <2>2, <2>4 DEF Sent
<1> QED
  BY <1>1 DEF MailOK

LEMMA MailLeaves ==
    ASSUME MailOK, TasksOK, \A t \in Tasks : Undisturbed(t),
           NEW w \in Workers, mail[w] # <<>>, mail' = [mail EXCEPT ![w] = Tail(@)]
    PROVE  MailOK' /\ Head(mail[w]) \in Messages /\ Sent(Head(mail[w]), w)
<1>1. mail[w] \in Seq(Messages)
  BY DEF MailOK
<1>2. /\ Len(mail[w]) \in Nat \ {0} /\ Head(mail[w]) = mail[w][1]
      /\ Tail(mail[w]) \in Seq(Messages) /\ Len(Tail(mail[w])) = Len(mail[w]) - 1
      /\ \A i \in 1..Len(Tail(mail[w])) : Tail(mail[w])[i] = mail[w][i + 1]
      /\ Head(mail[w]) \in Messages
  BY <1>1, EmptySeq, HeadTailProperties
<1>3. mail'[w] = Tail(mail[w]) /\ \A v \in Workers \ {w} : mail'[v] = mail[v]
  BY DEF MailOK
<1>4. ASSUME NEW v \in Workers, NEW m \in Messages, Sent(m, v) PROVE Sent(m, v)'
  <2>1. m.id \in Tasks
    BY DEF Messages
  <2>2. home[m.id] # None
    BY <1>4, <2>1 DEF Sent, TasksOK
  <2>3. home'[m.id] = home[m.id] /\ stage'[m.id] = stage[m.id]
    BY <2>1, <2>2 DEF Undisturbed
  <2> QED
    BY <1>4, <2>3 DEF Sent
<1>5. \A v \in Workers : \A i \in 1..Len(mail[v]) : mail[v][i] \in Messages /\ Sent(mail[v][i], v)
  BY ElementOfSeq DEF MailOK
<1>6. ASSUME NEW v \in Workers, NEW i \in 1..Len(mail'[v]) PROVE Sent(mail[v][i], v)'
  <2>1. CASE v # w
    BY <1>3, <1>4, <1>5, <2>1
  <2>2. CASE v = w
    <3>1. i \in 1..Len(Tail(mail[w])) /\ mail'[w][i] = Tail(mail[w])[i]
      BY <1>3, <2>2
    <3>2. i + 1 \in 1..Len(mail[w]) /\ mail'[w][i] = mail[w][i + 1]
      BY <1>2, <3>1
    <3>3. mail[w][i + 1] \in Messages /\ Sent(mail[w][i + 1], w)
      BY <1>5, <3>2
    <3>4. PICK m \in Messages : m = mail[w][i + 1]
      BY <3>3
    <3>5. Sent(m, w)'
      BY <1>4, <3>3, <3>4
    <3> QED
      BY <2>2, <3>2, <3>4, <3>5
  <2> QED
    BY <2>1, <2>2
<1>7. mail' \in [Workers -> Seq(Messages)]
  BY <1>2 DEF MailOK
<1>8. Sent(Head(mail[w]), w)
  BY <1>2, <1>5
<1> QED
  BY <1>2, <1>6, <1>7, <1>8 DEF MailOK

---------------------------------------------------------------------------
(* Every step keeps the invariant. *)

(* A handler that has done its part, and what the worker's message was.      *)
LEMMA HandlerKeeps ==
    ASSUME ClientInv, sequence' \in 0..N, Handled(client, client', sequence'), Posted,
           crash' \in [Workers -> {"none", "raised", "seen"}],
           \A t \in Tasks : home[t] # None /\ crash[home[t]] = "seen" => crash'[home[t]] = "seen",
           \A u \in Tasks :
               \/ client'.settled[u] = client.settled[u]
               \/ \E o : client'.settled[u] = Told(o) /\ Deserved(u, o),
           mail' = mail \/ \E w \in Workers : mail[w] # <<>> /\ mail' = [mail EXCEPT ![w] = Tail(@)]
    PROVE  ClientInv'
<1>1. /\ TasksOK' /\ OneOperationPerWorker' /\ Resting(client, sequence)'
      /\ \A t \in Tasks : Undisturbed(t)
  BY PostedGives DEF ClientInv, Resting
<1>2. Coherent(client, sequence) /\ Coherent(client, sequence)' /\ OutcomesAreOwn
  BY <1>1 DEF ClientInv, Resting
<1>3. OutcomesAreOwn'
  BY <1>1, <1>2, OutcomesStay
<1>4. MailOK'
  BY <1>1, MailStays, MailLeaves DEF ClientInv
<1> QED
  BY <1>1, <1>3, <1>4 DEF ClientInv

LEMMA HarmlessIsDeserved ==
    ASSUME NEW d, Harmless(client, d)
    PROVE  \A u \in Tasks : d.settled[u] = client.settled[u] \/ \E o : d.settled[u] = Told(o) /\ Deserved(u, o)
<1> SUFFICES ASSUME NEW u \in Tasks, NEW o \in {"unposted", "aborted", "threw"}, d.settled[u] = Told(o)
             PROVE  \E p : d.settled[u] = Told(p) /\ Deserved(u, p)
  BY DEF Harmless
<1>1. Deserved(u, o)
  BY DEF Deserved
<1> QED
  BY <1>1

LEMMA TellingIsDeserved ==
    ASSUME NEW d, NEW t \in Tasks, NEW o, TellsTo(client, d, t, o), Deserved(t, o)
    PROVE  \A u \in Tasks : d.settled[u] = client.settled[u] \/ \E p : d.settled[u] = Told(p) /\ Deserved(u, p)
<1> SUFFICES ASSUME NEW u \in Tasks, d.settled[u] # client.settled[u]
             PROVE  \E p : d.settled[u] = Told(p) /\ Deserved(u, p)
  OBVIOUS
<1>1. Deserved(u, "unposted") /\ Deserved(u, "aborted")
  BY DEF Deserved
<1>2. d.settled[u] \in {Told("unposted"), Told("aborted")} \/ (u = t /\ d.settled[u] = Told(o))
  BY DEF TellsTo, NotPosted, Told
<1> QED
  BY <1>1, <1>2

(* A handler that leaves the client as it is. *)
LEMMA NothingHandled ==
    ASSUME ClientInv
    PROVE  Handled(client, client, sequence) /\ Harmless(client, client) /\ KeepsActive(client, client)
<1>1. Handled(client, client, sequence)
  BY DEF ClientInv, Handled
<1> QED
  BY <1>1 DEF Harmless, KeepsActive

LEMMA DeliverKeeps ==
    ASSUME ClientInv, NEW w \in Workers, Deliver(w)
    PROVE  ClientInv' /\ KeepsActive(client, client')
<1> DEFINE m == Head(mail[w])
<1>1. /\ TasksOK /\ MailOK /\ Resting(client, sequence) /\ sequence' = sequence /\ crash' = crash
      /\ mail[w] # <<>> /\ mail' = [mail EXCEPT ![w] = Tail(@)] /\ Posted
      /\ sequence \in 0..N /\ crash \in [Workers -> {"none", "raised", "seen"}]
  BY DEF ClientInv, Deliver
<1>2. m \in Messages /\ Sent(m, w)
  <2>1. mail[w] \in Seq(Messages) /\ Len(mail[w]) \in Nat \ {0} /\ m = mail[w][1]
    BY <1>1, EmptySeq DEF MailOK
  <2> QED
    BY <1>1, <2>1, ElementOfSeq DEF MailOK
<1>3. /\ ~Accepts(w, m) => client' = client
      /\ Accepts(w, m) /\ m.kind = "progress" => client' \in Progress(client, client.active)
      /\ Accepts(w, m) /\ m.kind # "progress" => client' \in Finish(client, client.active, m.kind)
  BY DEF Deliver
<1> HIDE DEF m
<1>4. /\ Handled(client, client', sequence) /\ KeepsActive(client, client')
      /\ \A u \in Tasks :
             \/ client'.settled[u] = client.settled[u]
             \/ \E o : client'.settled[u] = Told(o) /\ Deserved(u, o)
  <2>1. CASE ~Accepts(w, m)
    BY <1>3, <2>1, NothingHandled, HarmlessIsDeserved
  <2>2. CASE Accepts(w, m) /\ m.kind = "progress"
    <3>1. client' \in Progress(client, client.active) /\ client.active # None
      BY <1>3, <2>2 DEF Accepts
    <3>2. Handled(client, client', sequence) /\ Harmless(client, client') /\ KeepsActive(client, client')
      BY <1>1, <3>1, ProgressGives
    <3> QED
      BY <3>2, HarmlessIsDeserved
  <2>3. CASE Accepts(w, m) /\ m.kind # "progress"
    <3>1. /\ client' \in Finish(client, client.active, m.kind)
          /\ client.active \in Tasks /\ m.id = client.active /\ client.active # None
          /\ m.kind \in {"result", "error"} /\ m.kind \in Outcomes
      BY <1>2, <1>3, <2>3 DEF Accepts, Messages, Outcomes
    <3>2. stage[client.active] = m.kind
      BY <1>2, <2>3, <3>1 DEF Sent
    <3>3. FreeWorker(client)
      BY <1>1, <3>1, <3>2 DEF FreeWorker, Resting, Occupied, Working
    <3>4. ~client.idleTimer /\ Coherent(client, sequence) /\ Unposted(client, sequence)
      BY <1>1, <3>1 DEF Resting, Timed
    <3>5. /\ Started(client', sequence) \/ (Resting(client', sequence) /\ client'.active = None)
          /\ TellsTo(client, client', client.active, m.kind)
      BY <1>1, <3>1, <3>3, <3>4, FinishGives
    <3>6. Deserved(client.active, m.kind)
      BY <3>1, <3>2 DEF Deserved
    <3>7. \A u \in Tasks :
             \/ client'.settled[u] = client.settled[u]
             \/ \E o : client'.settled[u] = Told(o) /\ Deserved(u, o)
      BY <3>1, <3>5, <3>6, TellingIsDeserved
    <3> QED
      BY <3>5, <3>7, FinishKeepsActive DEF Handled
  <2> QED
    BY <2>1, <2>2, <2>3
<1>5. sequence' \in 0..N /\ Handled(client, client', sequence')
  BY <1>1, <1>4
<1>6. /\ crash' \in [Workers -> {"none", "raised", "seen"}]
      /\ \A t \in Tasks : home[t] # None /\ crash[home[t]] = "seen" => crash'[home[t]] = "seen"
  BY <1>1
<1> QED
  BY <1>1, <1>4, <1>5, <1>6, HandlerKeeps

LEMMA DeliverCrashKeeps ==
    ASSUME ClientInv, NEW w \in Workers, DeliverCrash(w)
    PROVE  ClientInv' /\ KeepsActive(client, client')
<1>1. /\ TasksOK /\ Resting(client, sequence) /\ sequence' = sequence /\ mail' = mail /\ Posted
      /\ sequence \in 0..N /\ crash \in [Workers -> {"none", "raised", "seen"}]
      /\ crash' = [crash EXCEPT ![w] = "seen"]
  BY DEF ClientInv, DeliverCrash
<1>2. /\ crash' \in [Workers -> {"none", "raised", "seen"}] /\ crash'[w] = "seen"
      /\ \A v \in Workers : crash[v] = "seen" => crash'[v] = "seen"
  BY <1>1
<1>3. \A t \in Tasks : home[t] # None /\ crash[home[t]] = "seen" => crash'[home[t]] = "seen"
  <2>1. \A t \in Tasks : home[t] # None => home[t] \in Workers
    BY <1>1, TasksAreNumbers DEF TasksOK, Workers, None
  <2> QED
    BY <1>2, <2>1
<1>4. /\ Handled(client, client', sequence) /\ KeepsActive(client, client')
      /\ \A u \in Tasks :
             \/ client'.settled[u] = client.settled[u]
             \/ \E o : client'.settled[u] = Told(o) /\ Deserved(u, o)
  <2>1. CASE ~CrashOfCurrent(w)
    <3>1. client' = client
      BY <2>1 DEF DeliverCrash
    <3> QED
      BY <3>1, NothingHandled, HarmlessIsDeserved
  <2>2. CASE CrashOfCurrent(w) /\ client.active = None
    <3>1. client' = StopWorker(client)
      BY <2>2 DEF DeliverCrash
    <3>2. /\ Coherent(client', sequence) /\ Unposted(client', sequence) /\ FreeWorker(client')
          /\ client'.active = client.active /\ client'.queue = client.queue
          /\ client'.settled = client.settled /\ client'.worker = None
          /\ (~client.idleTimer => ~client'.idleTimer)
      BY <1>1, <3>1, StopGives DEF Resting
    <3>3. Timed(client')
      BY <1>1, <2>2, <3>2 DEF Resting, Timed
    <3>4. Resting(client', sequence)
      BY <2>2, <3>2, <3>3 DEF Resting, Occupied
    <3>5. Harmless(client, client') /\ KeepsActive(client, client')
      BY <3>2, DifferentOutcomes DEF Harmless, KeepsActive
    <3> QED
      BY <3>2, <3>4, <3>5, HarmlessIsDeserved DEF Handled
  <2>3. CASE CrashOfCurrent(w) /\ client.active # None
    <3>1. /\ client' \in Finish(StopWorker(client), client.active, "crashed")
          /\ client.active \in Tasks /\ "crashed" \in Outcomes
      BY <1>1, <2>3 DEF DeliverCrash, Outcomes, Resting, Coherent, Clients
    <3>2. /\ Started(client', sequence) \/ (Resting(client', sequence) /\ client'.active = None)
          /\ TellsTo(client, client', client.active, "crashed")
      BY <1>1, <3>1, StopAndFinishGives
    <3>3. Deserved(client.active, "crashed")
      BY <1>1, <1>2, <2>3 DEF Deserved, CrashOfCurrent, Resting, Occupied
    <3>4. \A u \in Tasks :
             \/ client'.settled[u] = client.settled[u]
             \/ \E o : client'.settled[u] = Told(o) /\ Deserved(u, o)
      BY <3>1, <3>2, <3>3, TellingIsDeserved
    <3> QED
      BY <3>2, <3>4, FinishKeepsActive DEF Handled
  <2> QED
    BY <2>1, <2>2, <2>3
<1>5. sequence' \in 0..N /\ Handled(client, client', sequence')
  BY <1>1, <1>4
<1> QED
  BY <1>1, <1>2, <1>3, <1>4, <1>5, HandlerKeeps

LEMMA AbortKeeps ==
    ASSUME ClientInv, NEW t \in Tasks, Abort(t)
    PROVE  ClientInv' /\ KeepsActive(client, client')
<1>1. /\ TasksOK /\ Resting(client, sequence) /\ sequence' = sequence /\ mail' = mail /\ Posted
      /\ sequence \in 0..N /\ crash' = crash /\ crash \in [Workers -> {"none", "raised", "seen"}]
      /\ t \in client.listening /\ client' \in AbortTask(client, t)
  BY DEF ClientInv, Abort
<1>2. /\ Handled(client, client', sequence) /\ TellsTo(client, client', t, "aborted")
      /\ t # client.active => client'.active = client.active /\ client'.worker = client.worker
  BY <1>1, AbortGives
<1>3. Harmless(client, client')
  BY <1>2, TellsHarmlessly
<1>4. KeepsActive(client, client')
  BY <1>2, FinishKeepsActive DEF KeepsActive
<1>5. sequence' \in 0..N /\ Handled(client, client', sequence')
  BY <1>1, <1>2
<1>6. \A u \in Tasks :
         \/ client'.settled[u] = client.settled[u]
         \/ \E o : client'.settled[u] = Told(o) /\ Deserved(u, o)
  BY <1>3, HarmlessIsDeserved
<1>7. /\ crash' \in [Workers -> {"none", "raised", "seen"}]
      /\ \A u \in Tasks : home[u] # None /\ crash[home[u]] = "seen" => crash'[home[u]] = "seen"
  BY <1>1
<1> QED
  BY <1>1, <1>4, <1>5, <1>6, <1>7, HandlerKeeps

(* A new request joins the queue, and is posted if nothing else is to do.    *)
Joined(c, t) == [c EXCEPT !.queue = Append(@, t), !.listening = @ \cup {t}]

LEMMA JoinGives ==
    ASSUME NEW n \in 0..N, NEW c, Resting(c, n), TasksOK, n + 1 \in Tasks,
           NEW e, e = Joined(c, n + 1)
    PROVE  /\ Coherent(e, n + 1) /\ Unposted(e, n + 1)
           /\ e.queue # <<>> /\ e.active = c.active /\ e.worker = c.worker
           /\ e.idleTimer = c.idleTimer /\ e.settled = c.settled /\ e.spawned = c.spawned
<1>1. PICK t : t = n + 1
  OBVIOUS
<1>2. /\ c \in Clients /\ Coherent(c, n) /\ c.spawned \in Nat /\ c.active \in Nat
      /\ c.spawned <= n /\ c.active <= n /\ n \in Nat /\ t \in Tasks /\ t \in Nat
      /\ c.settled \in [Tasks -> Seq(Outcomes)] /\ c.listening \subseteq Tasks
  <2>1. c \in Clients /\ Coherent(c, n) /\ c.spawned <= n /\ c.active <= n
    BY DEF Resting, Coherent
  <2>2. c.spawned \in Nat /\ c.active \in Nat
    BY <2>1, Numbers
  <2>3. n \in Nat /\ t \in Tasks /\ t \in Nat
    BY <1>1, TasksAreNumbers
  <2>4. c.settled \in [Tasks -> Seq(Outcomes)] /\ c.listening \subseteq Tasks /\ c.queue \in Seq(Tasks)
    BY <2>1 DEF Clients
  <2> QED
    BY <2>1, <2>2, <2>3, <2>4
<1>3. /\ QueueOK(Append(c.queue, t), c.spawned, t) /\ QueueOK(Append(c.queue, t), c.active, t)
      /\ Append(c.queue, t) # <<>>
      /\ \A u : InQueue(Append(c.queue, t), u) <=> InQueue(c.queue, u) \/ u = t
  BY <1>1, <1>2, QueueJoined DEF Coherent
<1>4. Append(c.queue, t) \in Seq(Tasks)
  BY <1>3 DEF QueueOK
<1>5. /\ e.queue = Append(c.queue, t) /\ e.active = c.active /\ e.worker = c.worker
      /\ e.spawned = c.spawned /\ e.idleTimer = c.idleTimer /\ e.settled = c.settled
      /\ e.listening = c.listening \cup {t}
  BY <1>1, <1>2 DEF Clients, Joined
<1>6. e \in Clients
  BY <1>1, <1>2, <1>4 DEF Clients, Joined
<1>7. \A u \in Tasks : u \in Nat /\ (n < u <=> t < u \/ u = t)
  BY <1>1, <1>2, TasksAreNumbers
<1>8. \A u \in Tasks : e.settled[u] = <<>> <=> (t < u \/ u = e.active \/ InQueue(e.queue, u))
  BY <1>2, <1>3, <1>5, <1>7 DEF Coherent
<1>9. c.settled[t] = <<>>
  BY <1>1, <1>2, <1>7 DEF Coherent
<1>10. \A u \in e.listening : u <= t /\ e.settled[u] = <<>>
  <2>1. \A u \in c.listening : u \in Nat /\ u <= n /\ c.settled[u] = <<>>
    BY <1>2, <1>7 DEF Coherent
  <2> QED
    BY <1>1, <1>2, <1>5, <1>9, <2>1
<1>11. /\ e.worker <= e.spawned /\ e.spawned <= t /\ e.active <= t
       /\ \A u \in Tasks : Len(e.settled[u]) <= 1
  <2>1. c.worker <= c.spawned /\ \A u \in Tasks : Len(c.settled[u]) <= 1
    BY <1>2 DEF Coherent
  <2>2. c.spawned <= t /\ c.active <= t
    BY <1>1, <1>2
  <2> QED
    BY <1>5, <2>1, <2>2
<1>12. Coherent(e, t)
  BY <1>3, <1>5, <1>6, <1>8, <1>10, <1>11 DEF Coherent
<1>13. Unposted(e, t)
  <2>1. ASSUME NEW u \in Tasks, home[u] # None
        PROVE  home[u] <= e.spawned /\ u <= t /\ ~InQueue(e.queue, u)
    <3>1. home[u] <= c.spawned /\ u <= n /\ ~InQueue(c.queue, u)
      BY <2>1 DEF Resting, Unposted
    <3>2. u <= t /\ u # t
      <4>1. u \in Nat /\ n \in Nat /\ t = n + 1
        BY <1>1, <1>2, <1>7
      <4> QED
        BY <3>1, <4>1
    <3> QED
      BY <1>3, <1>5, <3>1, <3>2
  <2> QED
    BY <2>1 DEF Unposted
<1> QED
  BY <1>1, <1>3, <1>5, <1>12, <1>13

(* A request whose signal was aborted before is answered at once. *)
LEMMA RefusedGives ==
    ASSUME NEW n \in 0..N, NEW c, Resting(c, n), TasksOK, n + 1 \in Tasks,
           NEW e, e = Settle(c, n + 1, "aborted")
    PROVE  /\ Resting(e, n + 1) /\ e.active = c.active /\ e.worker = c.worker
           /\ TellsTo(c, e, n + 1, "aborted")
<1>1. PICK t : t = n + 1
  OBVIOUS
<1>2. /\ c \in Clients /\ Coherent(c, n) /\ c.spawned \in Nat /\ c.active \in Nat
      /\ c.spawned <= n /\ c.active <= n /\ n \in Nat /\ t \in Tasks /\ t \in Nat
      /\ c.settled \in [Tasks -> Seq(Outcomes)] /\ c.listening \subseteq Tasks
      /\ c.queue \in Seq(Tasks)
  <2>1. c \in Clients /\ Coherent(c, n) /\ c.spawned <= n /\ c.active <= n
    BY DEF Resting, Coherent
  <2>2. c.spawned \in Nat /\ c.active \in Nat
    BY <2>1, Numbers
  <2>3. n \in Nat /\ t \in Tasks /\ t \in Nat
    BY <1>1, TasksAreNumbers
  <2>4. c.settled \in [Tasks -> Seq(Outcomes)] /\ c.listening \subseteq Tasks /\ c.queue \in Seq(Tasks)
    BY <2>1 DEF Clients
  <2> QED
    BY <2>1, <2>2, <2>3, <2>4
<1>3. \A u \in Tasks : u \in Nat /\ (n < u <=> t < u \/ u = t)
  BY <1>1, <1>2, TasksAreNumbers
<1>4. c.settled[t] = <<>>
  BY <1>2, <1>3 DEF Coherent
<1>5. /\ <<"aborted">> \in Seq(Outcomes) /\ Append(<<>>, "aborted") = <<"aborted">>
      /\ <<"aborted">> # <<>> /\ Len(<<"aborted">>) <= 1
  BY DEF Outcomes
<1>6. /\ e.queue = c.queue /\ e.active = c.active /\ e.worker = c.worker
      /\ e.spawned = c.spawned /\ e.idleTimer = c.idleTimer /\ e.listening = c.listening \ {t}
      /\ e.settled = [c.settled EXCEPT ![t] = <<"aborted">>]
  BY <1>1, <1>2, <1>4, <1>5 DEF Settle, Clients
<1>7. e \in Clients
  BY <1>1, <1>2, <1>4, <1>5 DEF Settle, Clients
<1>8. e.settled[t] = <<"aborted">> /\ \A u \in Tasks \ {t} : e.settled[u] = c.settled[u]
  BY <1>2, <1>5, <1>6
<1>9. \A i \in 1..Len(c.queue) : c.queue[i] \in Nat /\ c.queue[i] <= n
  BY <1>2, <1>3, ElementOfSeq DEF Coherent, QueueOK
<1>10. ~InQueue(c.queue, t) /\ t # c.active
  BY <1>1, <1>2, <1>9 DEF InQueue
<1>11. QueueOK(c.queue, c.spawned, t) /\ QueueOK(c.queue, c.active, t)
  <2>1. \A i \in 1..Len(c.queue) : c.queue[i] <= t
    BY <1>1, <1>2, <1>9
  <2> QED
    BY <1>2, <2>1 DEF Coherent, QueueOK
<1>12. \A u \in Tasks : Len(e.settled[u]) <= 1
  BY <1>2, <1>5, <1>8 DEF Coherent
<1>13. \A u \in Tasks : e.settled[u] = <<>> <=> (t < u \/ u = e.active \/ InQueue(e.queue, u))
  <2>1. ASSUME NEW u \in Tasks \ {t}
        PROVE  e.settled[u] = <<>> <=> (t < u \/ u = e.active \/ InQueue(e.queue, u))
    BY <1>2, <1>3, <1>6, <1>8, <2>1 DEF Coherent
  <2>2. ~(t < t)
    BY <1>2
  <2> QED
    BY <1>5, <1>6, <1>8, <1>10, <2>1, <2>2
<1>14. \A u \in e.listening : u <= t /\ e.settled[u] = <<>>
  <2>1. \A u \in c.listening : u \in Tasks /\ u <= n /\ c.settled[u] = <<>>
    BY <1>2 DEF Coherent
  <2>2. \A u \in Tasks : u <= n => u <= t
    BY <1>1, <1>2, <1>3
  <2> QED
    BY <1>6, <1>8, <2>1, <2>2
<1>15. c.spawned <= t /\ c.active <= t /\ c.worker <= c.spawned
  BY <1>1, <1>2 DEF Coherent
<1>16. Coherent(e, t)
  BY <1>6, <1>7, <1>11, <1>12, <1>13, <1>14, <1>15 DEF Coherent
<1>17. Unposted(e, t)
  <2>1. \A u \in Tasks : u <= n => u <= t
    BY <1>1, <1>2, <1>3
  <2> QED
    BY <1>6, <2>1 DEF Resting, Unposted
<1>18. Timed(e) /\ Occupied(e)
  BY <1>6 DEF Resting, Timed, Occupied, FreeWorker
<1>19. TellsTo(c, e, t, "aborted")
  BY <1>4, <1>8 DEF TellsTo
<1> QED
  BY <1>1, <1>6, <1>16, <1>17, <1>18, <1>19 DEF Resting

LEMMA RequestKeeps ==
    ASSUME ClientInv, NEW aborted \in BOOLEAN, Request(aborted)
    PROVE  ClientInv' /\ KeepsActive(client, client')
<1>0. PICK c : c = Joined(client, sequence + 1)
  OBVIOUS
<1>1. /\ TasksOK /\ Resting(client, sequence) /\ sequence \in 0..N /\ sequence + 1 \in Tasks
      /\ sequence' = sequence + 1 /\ mail' = mail /\ Posted /\ crash' = crash
      /\ crash \in [Workers -> {"none", "raised", "seen"}] /\ sequence + 1 \in 0..N
      /\ aborted => client' = Settle(client, sequence + 1, "aborted")
      /\ ~aborted => client' \in RunNext(c)
  BY <1>0, TasksAreNumbers DEF ClientInv, Request, Joined
<1>2. /\ Coherent(c, sequence + 1) /\ Unposted(c, sequence + 1)
      /\ c.queue # <<>> /\ c.active = client.active /\ c.worker = client.worker
      /\ c.idleTimer = client.idleTimer /\ c.settled = client.settled /\ c.spawned = client.spawned
  BY <1>0, <1>1, JoinGives
<1>3. /\ Handled(client, client', sequence + 1) /\ KeepsActive(client, client')
      /\ Harmless(client, client')
  <2>1. CASE aborted
    <3>1. /\ Resting(client', sequence + 1)
          /\ client'.active = client.active /\ client'.worker = client.worker
          /\ TellsTo(client, client', sequence + 1, "aborted")
      BY <1>1, <2>1, RefusedGives
    <3>2. Harmless(client, client')
      BY <3>1, TellsHarmlessly
    <3> QED
      BY <3>1, <3>2 DEF Handled, KeepsActive
  <2>2. CASE ~aborted /\ client.active # None
    <3>1. client' = c
      BY <1>1, <1>2, <2>2 DEF RunNext
    <3>2. Timed(c) /\ Occupied(c)
      BY <1>1, <1>2, <2>2 DEF Resting, Timed, Occupied
    <3>3. Handled(client, c, sequence + 1)
      BY <1>2, <3>2 DEF Handled, Resting
    <3> QED
      BY <1>2, <3>1, <3>3 DEF Harmless, KeepsActive
  <2>3. CASE ~aborted /\ client.active = None
    <3>1. PICK k \in 0..Len(c.queue), own \in SUBSET c.listening : client' = StartAfter(c, k, own)
      BY <1>1, <1>2, <2>3 DEF RunNext, Starts
    <3>2. FreeWorker(c)
      BY <1>1, <1>2, <2>3 DEF Resting, Occupied, FreeWorker
    <3>3. /\ Started(client', sequence + 1)
             \/ (Resting(client', sequence + 1) /\ client'.active = None /\ client'.worker = None)
          /\ ToldUnposted(c, client')
      BY <1>1, <1>2, <2>3, <3>1, <3>2, StartGives
    <3>4. TellsTo(client, client', client.active, "threw")
      BY <1>2, <3>3 DEF ToldUnposted, TellsTo, Told
    <3>5. Harmless(client, client')
      BY <3>4, TellsHarmlessly
    <3>6. KeepsActive(client, client')
      BY <3>4, FinishKeepsActive
    <3> QED
      BY <3>3, <3>5, <3>6 DEF Handled
  <2> QED
    BY <2>1, <2>2, <2>3
<1>4. sequence' \in 0..N /\ Handled(client, client', sequence')
  BY <1>1, <1>3
<1>5. \A u \in Tasks :
         \/ client'.settled[u] = client.settled[u]
         \/ \E o : client'.settled[u] = Told(o) /\ Deserved(u, o)
  BY <1>3, HarmlessIsDeserved
<1>6. /\ crash' \in [Workers -> {"none", "raised", "seen"}]
      /\ \A u \in Tasks : home[u] # None /\ crash[home[u]] = "seen" => crash'[home[u]] = "seen"
  BY <1>1
<1> QED
  BY <1>1, <1>3, <1>4, <1>5, <1>6, HandlerKeeps

LEMMA IdleTimeoutKeeps ==
    ASSUME ClientInv, IdleTimeout
    PROVE  ClientInv' /\ KeepsActive(client, client')
<1>1. /\ TasksOK /\ Resting(client, sequence) /\ sequence' = sequence /\ mail' = mail
      /\ home' = home /\ stage' = stage /\ client.idleTimer
      /\ sequence \in 0..N /\ crash' = crash /\ crash \in [Workers -> {"none", "raised", "seen"}]
  BY DEF ClientInv, IdleTimeout
<1>2. PICK e : e = StopWorker(client)
  OBVIOUS
<1>3. /\ Coherent(e, sequence) /\ Unposted(e, sequence) /\ FreeWorker(e)
      /\ e.active = client.active /\ e.queue = client.queue /\ e.settled = client.settled
      /\ e.worker = None
  BY <1>1, <1>2, StopGives DEF Resting
<1>4. client.active = None
  BY <1>1 DEF Resting, Timed
<1>5. client' = [e EXCEPT !.idleTimer = FALSE] /\ e \in Clients
  BY <1>2, <1>3 DEF IdleTimeout, Coherent
<1>6. /\ client' \in Clients /\ client'.queue = e.queue /\ client'.active = e.active
      /\ client'.worker = e.worker /\ client'.spawned = e.spawned /\ client'.idleTimer = FALSE
      /\ client'.listening = e.listening /\ client'.settled = e.settled
  BY <1>5 DEF Clients
<1>7. Coherent(client', sequence) /\ Unposted(client', sequence) /\ FreeWorker(client')
  BY <1>3, <1>6 DEF Coherent, Unposted, FreeWorker
<1>8. Resting(client', sequence) /\ client'.active = None
  BY <1>3, <1>4, <1>6, <1>7 DEF Resting, Timed, Occupied
<1>9. sequence' \in 0..N /\ Handled(client, client', sequence')
  BY <1>1, <1>8 DEF Handled
<1>10. Posted
  BY <1>1, <1>8 DEF Posted
<1>11. client'.settled = client.settled
  BY <1>3, <1>6
<1>12. KeepsActive(client, client')
  BY <1>11, DifferentOutcomes DEF KeepsActive
<1>13. /\ crash' \in [Workers -> {"none", "raised", "seen"}]
       /\ \A u \in Tasks : home[u] # None /\ crash[home[u]] = "seen" => crash'[home[u]] = "seen"
  BY <1>1
<1> QED
  BY <1>1, <1>9, <1>10, <1>11, <1>12, <1>13, HandlerKeeps

(* A worker comes further with a task: it never takes up another one. *)
LEMMA WorkerKeeps ==
    ASSUME ClientInv, NEW t \in Tasks, stage[t] \in Working, NEW s \in Stages \ {"none", "posted"},
           stage' = [stage EXCEPT ![t] = s], s \in Working => stage[t] \in Working,
           UNCHANGED <<sequence, client, home, crash>>
    PROVE  /\ sequence' \in 0..N /\ TasksOK' /\ crash' \in [Workers -> {"none", "raised", "seen"}]
           /\ Resting(client, sequence)' /\ OneOperationPerWorker' /\ OutcomesAreOwn'
<1>1. /\ TasksOK /\ Resting(client, sequence) /\ OneOperationPerWorker /\ OutcomesAreOwn
      /\ sequence \in 0..N /\ crash \in [Workers -> {"none", "raised", "seen"}]
  BY DEF ClientInv
<1>2. /\ stage' \in [Tasks -> Stages] /\ stage'[t] = s
      /\ \A u \in Tasks \ {t} : stage'[u] = stage[u]
  BY <1>1 DEF TasksOK
<1>3. \A u \in Tasks : stage'[u] \in Working => stage[u] \in Working
  BY <1>2
<1>4. TasksOK'
  BY <1>1, <1>2 DEF TasksOK, Working
<1>5. OneOperationPerWorker'
  BY <1>1, <1>3 DEF OneOperationPerWorker, Working
<1>6. Resting(client, sequence)'
  <2>1. Coherent(client, sequence)' /\ Unposted(client, sequence)' /\ Timed(client)'
    BY <1>1 DEF Resting, Coherent, Unposted, Timed
  <2>2. Occupied(client)'
    BY <1>1, <1>3 DEF Resting, Occupied, FreeWorker
  <2> QED
    BY <2>1, <2>2 DEF Resting
<1>7. OutcomesAreOwn'
  <2>1. ASSUME NEW i \in 1..Len(client.settled[t]) PROVE client.settled[t][i] \notin {"result", "error"}
    BY <1>1 DEF OutcomesAreOwn, Working
  <2>2. ASSUME NEW u \in Tasks, NEW i \in 1..Len(client.settled[u])
        PROVE  LET o == client.settled[u][i]
               IN  /\ o \in {"result", "error"} => stage'[u] = o
                   /\ o = "crashed" => home[u] # None /\ crash[home[u]] = "seen"
    BY <1>1, <1>2, <2>1 DEF OutcomesAreOwn
  <2> QED
    BY <2>2 DEF OutcomesAreOwn
<1> QED
  BY <1>1, <1>4, <1>5, <1>6, <1>7

(* The answer is a worker's last message about a task. *)
LEMMA MailJoins ==
    ASSUME MailOK, TasksOK, NEW t \in Tasks, stage[t] \in Working,
           NEW s \in Stages \ {"none", "posted"}, stage' = [stage EXCEPT ![t] = s], home' = home,
           NEW new \in Seq(Messages),
           \A i \in 1..Len(new) : new[i].id = t /\ (new[i].kind # "progress" => new[i].kind = s),
           mail' = [mail EXCEPT ![home[t]] = @ \o new]
    PROVE  MailOK'
<1>1. /\ stage'[t] = s /\ \A u \in Tasks \ {t} : stage'[u] = stage[u]
      /\ mail \in [Workers -> Seq(Messages)]
  BY DEF TasksOK, MailOK
<1>2. home[t] \in Workers
  BY TasksAreNumbers DEF TasksOK, Workers, Working, None
<1>3. ASSUME NEW w \in Workers, NEW m \in Messages, Sent(m, w) PROVE Sent(m, w)'
  <2>1. m.id \in Tasks
    BY DEF Messages
  <2>2. CASE m.id = t
    BY <1>1, <1>3, <2>2 DEF Sent, Working, Messages
  <2>3. CASE m.id # t
    BY <1>1, <1>3, <2>1, <2>3 DEF Sent
  <2> QED
    BY <2>2, <2>3
<1>4. ASSUME NEW i \in 1..Len(new) PROVE Sent(new[i], home[t])'
  BY <1>1 DEF Sent
<1>5. /\ mail' \in [Workers -> Seq(Messages)] /\ mail'[home[t]] = mail[home[t]] \o new
      /\ \A w \in Workers \ {home[t]} : mail'[w] = mail[w]
  BY <1>1, <1>2, ConcatProperties
<1>6. \A w \in Workers : \A i \in 1..Len(mail[w]) : mail[w][i] \in Messages /\ Sent(mail[w][i], w)
  BY <1>1, ElementOfSeq DEF MailOK
<1>7. ASSUME NEW w \in Workers, NEW i \in 1..Len(mail'[w]) PROVE Sent(mail[w][i], w)'
  <2>1. CASE w # home[t]
    <3>1. PICK m \in Messages : m = mail[w][i] /\ m = mail'[w][i] /\ Sent(m, w)
      BY <1>5, <1>6, <2>1
    <3>2. Sent(m, w)'
      BY <1>3, <3>1
    <3> QED
      BY <3>1, <3>2
  <2>2. CASE w = home[t]
    <3>1. PICK a : a = mail[w]
      OBVIOUS
    <3>2. /\ a \in Seq(Messages) /\ mail'[w] = a \o new
          /\ Len(a) \in Nat /\ Len(new) \in Nat /\ Len(a \o new) = Len(a) + Len(new)
          /\ \A j \in 1 .. Len(a) + Len(new) : (a \o new)[j] = IF j <= Len(a) THEN a[j] ELSE new[j - Len(a)]
      BY SMTT(60), <1>1, <1>5, <2>2, <3>1, ConcatProperties, LenProperties
    <3>3. i \in 1 .. Len(a) + Len(new) /\ mail'[w][i] = IF i <= Len(a) THEN a[i] ELSE new[i - Len(a)]
      BY <3>2
    <3>4. CASE i <= Len(a)
      <4>1. i \in 1..Len(a) /\ mail'[w][i] = a[i]
        BY <3>2, <3>3, <3>4
      <4>2. PICK m \in Messages : m = a[i] /\ Sent(m, w)
        BY <1>6, <3>1, <4>1
      <4>3. Sent(m, w)'
        BY <1>3, <4>2
      <4> QED
        BY <4>1, <4>2, <4>3
    <3>5. CASE ~(i <= Len(a))
      <4>1. i - Len(a) \in 1..Len(new) /\ mail'[w][i] = new[i - Len(a)]
        BY <3>2, <3>3, <3>5
      <4>2. PICK m : m = new[i - Len(a)]
        OBVIOUS
      <4>3. Sent(m, home[t])'
        BY <1>4, <4>1, <4>2
      <4> QED
        BY <2>2, <4>1, <4>2, <4>3
    <3> QED
      BY <3>4, <3>5
  <2> QED
    BY <2>1, <2>2
<1> QED
  BY <1>5, <1>7 DEF MailOK

LEMMA WorkerStepKeeps ==
    ASSUME ClientInv, WorkerStep
    PROVE  ClientInv' /\ client' = client
<1>1. TasksOK /\ MailOK
  BY DEF ClientInv
<1>2. ASSUME NEW t \in Tasks, WorkerStart(t) PROVE ClientInv' /\ client' = client
  <2>1. PICK new : new = <<[id |-> t, kind |-> "progress"]>>
    OBVIOUS
  <2>2. /\ new \in Seq(Messages) /\ Len(new) = 1
        /\ new[1].id = t /\ new[1].kind = "progress"
    BY <2>1 DEF Messages
  <2>3. /\ stage[t] \in Working /\ "working" \in Stages \ {"none", "posted"}
        /\ stage' = [stage EXCEPT ![t] = "working"] /\ home' = home
        /\ UNCHANGED <<sequence, client, home, crash>>
    BY <1>2 DEF WorkerStart, Working, Stages
  <2>4. mail' = [mail EXCEPT ![home[t]] = @ \o new]
    <3>1. home[t] \in Workers
      BY <1>1, <2>3, TasksAreNumbers DEF TasksOK, Workers, Working, None
    <3>2. mail[home[t]] \in Seq(Messages)
      BY <1>1, <3>1 DEF MailOK
    <3>3. Append(mail[home[t]], [id |-> t, kind |-> "progress"]) = mail[home[t]] \o new
      BY <2>1, <2>2, <3>2, AppendIsConcat DEF Messages
    <3> QED
      BY <1>2, <3>3 DEF WorkerStart
  <2>5. \A i \in 1..Len(new) : new[i].id = t /\ (new[i].kind # "progress" => new[i].kind = "working")
    BY <2>2
  <2>6. MailOK'
    BY <1>1, <2>2, <2>3, <2>4, <2>5, MailJoins
  <2>7. /\ sequence' \in 0..N /\ TasksOK' /\ crash' \in [Workers -> {"none", "raised", "seen"}]
        /\ Resting(client, sequence)' /\ OneOperationPerWorker' /\ OutcomesAreOwn'
    BY <2>3, WorkerKeeps
  <2> QED
    BY <2>3, <2>6, <2>7 DEF ClientInv
<1>3. ASSUME NEW t \in Tasks, WorkerSucceed(t) PROVE ClientInv' /\ client' = client
  <2>1. PICK new : new = <<[id |-> t, kind |-> "progress"], [id |-> t, kind |-> "result"]>>
    OBVIOUS
  <2>2. /\ new \in Seq(Messages) /\ Len(new) = 2
        /\ new[1].id = t /\ new[1].kind = "progress" /\ new[2].id = t /\ new[2].kind = "result"
    BY <2>1 DEF Messages
  <2>3. /\ stage[t] \in Working /\ "result" \in Stages \ {"none", "posted"}
        /\ stage' = [stage EXCEPT ![t] = "result"] /\ home' = home
        /\ UNCHANGED <<sequence, client, home, crash>>
    BY <1>3 DEF WorkerSucceed, Working, Stages
  <2>4. mail' = [mail EXCEPT ![home[t]] = @ \o new]
    BY <1>3, <2>1 DEF WorkerSucceed
  <2>5. \A i \in 1..Len(new) : new[i].id = t /\ (new[i].kind # "progress" => new[i].kind = "result")
    BY <2>2
  <2>6. MailOK'
    BY <1>1, <2>2, <2>3, <2>4, <2>5, MailJoins
  <2>7. /\ sequence' \in 0..N /\ TasksOK' /\ crash' \in [Workers -> {"none", "raised", "seen"}]
        /\ Resting(client, sequence)' /\ OneOperationPerWorker' /\ OutcomesAreOwn'
    BY <2>3, WorkerKeeps
  <2> QED
    BY <2>3, <2>6, <2>7 DEF ClientInv
<1>4. ASSUME NEW t \in Tasks, WorkerFail(t) PROVE ClientInv' /\ client' = client
  <2>1. PICK new : new = <<[id |-> t, kind |-> "error"]>>
    OBVIOUS
  <2>2. /\ new \in Seq(Messages) /\ Len(new) = 1
        /\ new[1].id = t /\ new[1].kind = "error"
    BY <2>1 DEF Messages
  <2>3. /\ stage[t] \in Working /\ "error" \in Stages \ {"none", "posted"}
        /\ stage' = [stage EXCEPT ![t] = "error"] /\ home' = home
        /\ UNCHANGED <<sequence, client, home, crash>>
    BY <1>4 DEF WorkerFail, Working, Stages
  <2>4. mail' = [mail EXCEPT ![home[t]] = @ \o new]
    <3>1. home[t] \in Workers
      BY <1>1, <2>3, TasksAreNumbers DEF TasksOK, Workers, Working, None
    <3>2. mail[home[t]] \in Seq(Messages)
      BY <1>1, <3>1 DEF MailOK
    <3>3. Append(mail[home[t]], [id |-> t, kind |-> "error"]) = mail[home[t]] \o new
      BY <2>1, <2>2, <3>2, AppendIsConcat DEF Messages
    <3> QED
      BY <1>4, <3>3 DEF WorkerFail
  <2>5. \A i \in 1..Len(new) : new[i].id = t /\ (new[i].kind # "progress" => new[i].kind = "error")
    BY <2>2
  <2>6. MailOK'
    BY <1>1, <2>2, <2>3, <2>4, <2>5, MailJoins
  <2>7. /\ sequence' \in 0..N /\ TasksOK' /\ crash' \in [Workers -> {"none", "raised", "seen"}]
        /\ Resting(client, sequence)' /\ OneOperationPerWorker' /\ OutcomesAreOwn'
    BY <2>3, WorkerKeeps
  <2> QED
    BY <2>3, <2>6, <2>7 DEF ClientInv
<1>5. ASSUME NEW w \in Workers, Crash(w) PROVE ClientInv' /\ client' = client
  <2>1. /\ client' = client /\ sequence' = sequence /\ home' = home /\ stage' = stage /\ mail' = mail
        /\ crash[w] = "none" /\ crash' = [crash EXCEPT ![w] = "raised"]
        /\ crash \in [Workers -> {"none", "raised", "seen"}]
    BY <1>5 DEF Crash, Alive, ClientInv
  <2>2. /\ crash' \in [Workers -> {"none", "raised", "seen"}]
        /\ \A v \in Workers : crash[v] = "seen" => crash'[v] = "seen"
    BY <2>1
  <2>3. OutcomesAreOwn'
    <3>1. \A t \in Tasks : home[t] # None => home[t] \in Workers
      BY <1>1, TasksAreNumbers DEF TasksOK, Workers, None
    <3> QED
      BY <2>1, <2>2, <3>1 DEF ClientInv, OutcomesAreOwn
  <2>4. sequence' \in 0..N /\ TasksOK' /\ OneOperationPerWorker' /\ MailOK'
    BY <2>1 DEF ClientInv, TasksOK, OneOperationPerWorker, MailOK, Sent
  <2>5. Resting(client, sequence)'
    BY <2>1 DEF ClientInv, Resting, Coherent, Unposted, Timed, Occupied, FreeWorker
  <2> QED
    BY <2>1, <2>2, <2>3, <2>4, <2>5 DEF ClientInv
<1> QED
  BY <1>2, <1>3, <1>4, <1>5 DEF WorkerStep

---------------------------------------------------------------------------
(* The theorems. *)

LEMMA InitialClient == Init => ClientInv
<1> SUFFICES ASSUME Init PROVE ClientInv
  OBVIOUS
<1>1. /\ sequence = 0 /\ home = [t \in Tasks |-> None] /\ stage = [t \in Tasks |-> "none"]
      /\ mail = [w \in Workers |-> <<>>] /\ crash = [w \in Workers |-> "none"]
      /\ client.queue = <<>> /\ client.active = None /\ client.worker = None
      /\ client.spawned = 0 /\ client.idleTimer = FALSE /\ client.listening = {}
      /\ client.settled = [t \in Tasks |-> <<>>] /\ N \in Nat /\ None = 0
  BY TasksAreNumbers DEF Init, None
<1>2. client \in Clients
  BY DEF Init, Clients, None
<1>3. \A t \in Tasks : client.settled[t] = <<>> /\ 0 < t
  BY <1>1, TasksAreNumbers
<1>4. QueueOK(<<>>, 0, 0) /\ \A t : ~InQueue(<<>>, t)
  <2>1. Len(<<>>) = 0 /\ <<>> \in Seq(Tasks)
    OBVIOUS
  <2> QED
    BY <2>1 DEF QueueOK, InQueue
<1>5. Coherent(client, sequence)
  <2>1. \A t \in Tasks : Len(client.settled[t]) <= 1
    BY <1>3
  <2> QED
    BY <1>1, <1>2, <1>3, <1>4, <2>1 DEF Coherent
<1>6. TasksOK /\ Unposted(client, sequence) /\ Timed(client) /\ FreeWorker(client)
  BY <1>1 DEF TasksOK, Unposted, Timed, FreeWorker, Working, Stages
<1>7. OneOperationPerWorker
  BY <1>1 DEF OneOperationPerWorker
<1>8. OutcomesAreOwn
  BY <1>3 DEF OutcomesAreOwn
<1>9. MailOK
  <2>1. \A w \in Workers : mail[w] = <<>> /\ Len(<<>>) = 0 /\ <<>> \in Seq(Messages)
    BY <1>1
  <2>2. mail \in [Workers -> Seq(Messages)]
    BY <1>1
  <2> QED
    BY <2>1, <2>2 DEF MailOK
<1>10. crash \in [Workers -> {"none", "raised", "seen"}] /\ sequence \in 0..N
  BY <1>1
<1> QED
  BY <1>1, <1>5, <1>6, <1>7, <1>8, <1>9, <1>10 DEF ClientInv, Resting, Occupied

LEMMA NextKeepsClient ==
    ASSUME ClientInv, Next
    PROVE  ClientInv' /\ KeepsActive(client, client')
<1>1. CASE ClientStep
  BY <1>1, RequestKeeps, AbortKeeps, DeliverKeeps, DeliverCrashKeeps, IdleTimeoutKeeps DEF ClientStep
<1>2. CASE WorkerStep
  BY <1>2, WorkerStepKeeps, NothingHandled
<1> QED
  BY <1>1, <1>2 DEF Next

(* The inductive invariant of the client: whatever a handler, a worker or a  *)
(* crash does, the closure's variables, the tasks on the workers and the     *)
(* messages under way stay in step (client.js:1-127).                       *)
THEOREM ClientInvariant == Spec => []ClientInv
<1>1. ASSUME ClientInv, UNCHANGED vars PROVE ClientInv'
  BY <1>1 DEF ClientInv, vars, TasksOK, Resting, Coherent, Unposted, Timed, Occupied, FreeWorker,
              OneOperationPerWorker, OutcomesAreOwn, MailOK, Sent
<1>2. ClientInv /\ [Next]_vars => ClientInv'
  BY <1>1, NextKeepsClient
<1> QED
  BY <1>2, InitialClient, PTL DEF Spec

LEMMA ConsistentWhileResting ==
    ASSUME ClientInv
    PROVE  ClientIsConsistent
<1>1. /\ Coherent(client, sequence) /\ Timed(client) /\ OneOperationPerWorker /\ sequence \in Nat
      /\ sequence \in 0..N
  BY TasksAreNumbers DEF ClientInv, Resting
<1>2. /\ client.queue \in Seq(Tasks) /\ client.active \in Tasks \cup {None} /\ client.active <= sequence
      /\ QueueOK(client.queue, client.active, sequence)
  BY <1>1 DEF Coherent, Clients
<1>3. \A t : t \in ToSet(client.queue) <=> InQueue(client.queue, t)
  <2>1. DOMAIN client.queue = 1..Len(client.queue)
    BY <1>2, LenProperties
  <2> QED
    BY <2>1 DEF ToSet, InQueue
<1>4. \A t : InQueue(client.queue, t) => t \in Tasks /\ t <= sequence
  BY <1>2, ElementOfSeq DEF InQueue, QueueOK
<1>5. \A t \in Tasks : t \in Made <=> ~(sequence < t)
  BY <1>1, TasksAreNumbers DEF Made
<1>6. Made \subseteq Tasks
  BY <1>1, TasksAreNumbers DEF Made, Tasks
<1>7. \A t \in Tasks : t <= sequence => t \in Made
  BY <1>1, TasksAreNumbers DEF Made
<1>8. ASSUME NEW t \in Made
      PROVE  ~Settled(t) <=> t = client.active \/ InQueue(client.queue, t)
  BY <1>1, <1>5, <1>6 DEF Coherent, Settled
<1>9. {t \in Made : ~Settled(t)} = ({client.active} \ {None}) \cup ToSet(client.queue)
  <2>1. ASSUME NEW t, t \in Made /\ ~Settled(t)
        PROVE  t \in ({client.active} \ {None}) \cup ToSet(client.queue)
    <3>1. t # None
      BY <1>6, <2>1, TasksAreNumbers DEF None
    <3> QED
      BY <1>3, <1>8, <2>1, <3>1
  <2>2. ASSUME NEW t, t \in ({client.active} \ {None}) \cup ToSet(client.queue)
        PROVE  t \in Made /\ ~Settled(t)
    <3>1. t \in Made
      BY <1>2, <1>3, <1>4, <1>7, <2>2
    <3> QED
      BY <1>3, <1>8, <2>2, <3>1
  <2> QED
    BY <2>1, <2>2
<1>10. \A t \in Tasks : Len(client.settled[t]) <= 1
  BY <1>1 DEF Coherent
<1>11. NoRequestLost
  BY <1>9, <1>10 DEF NoRequestLost
<1>12. TimerGuardsIdleWorker
  BY <1>1 DEF Timed, TimerGuardsIdleWorker
<1> QED
  BY <1>1, <1>11, <1>12 DEF ClientIsConsistent

(* Every request made is active, queued or answered, and answered once; a    *)
(* worker has one operation at a time; the idle timer runs exactly when a    *)
(* worker is idle -- whatever aborts, crashes, failed posts, throwing        *)
(* callbacks and late messages of stopped workers do (client.js:1-127).     *)
THEOREM ClientCorrect == Spec => []ClientIsConsistent
<1>1. ClientInv => ClientIsConsistent
  BY ConsistentWhileResting
<1> QED
  BY <1>1, ClientInvariant, PTL

(* A result or an error a request is answered with is the one its own worker *)
(* reached for it, and the crash it is told of its own worker's: the         *)
(* comparisons of the listeners are enough (client.js:27-36 and 53-72).      *)
THEOREM OutcomesCorrect == Spec => []OutcomesAreOwn
<1>1. ClientInv => OutcomesAreOwn
  BY DEF ClientInv
<1> QED
  BY <1>1, ClientInvariant, PTL

(* The abort of a queued request leaves the active one on its worker, unless *)
(* the active request's own progress callback threw (client.js:74-85).       *)
THEOREM AbortsDoNotInterrupt == Spec => QueuedAbortDoesNotInterrupt
<1>1. ASSUME ClientInv, Next
      PROVE  (client.active # None /\ \E t \in Tasks : AbortedBehind(t)) =>
                 \/ client'.active = client.active /\ client'.worker = client.worker
                 \/ client'.settled[client.active] = <<"threw">>
  <2> SUFFICES ASSUME NEW t \in Tasks, AbortedBehind(t)
               PROVE  \/ client'.active = client.active /\ client'.worker = client.worker
                      \/ client'.settled[client.active] = <<"threw">>
    OBVIOUS
  <2>1. KeepsActive(client, client')
    BY <1>1, NextKeepsClient
  <2>2. /\ t # client.active /\ client.settled[t] = <<>> /\ client'.settled[t] = Told("aborted")
        /\ ~InTurn(client', t)
    BY DEF AbortedBehind, Settled, Told, InTurn
  <2> QED
    BY <2>1, <2>2 DEF KeepsActive, Told
<1>2. ClientInv /\ [Next]_vars =>
          [(client.active # None /\ \E t \in Tasks : AbortedBehind(t)) =>
                \/ client'.active = client.active /\ client'.worker = client.worker
                \/ client'.settled[client.active] = <<"threw">>]_vars
  BY <1>1
<1> QED
  BY <1>2, ClientInvariant, PTL DEF Spec, QueuedAbortDoesNotInterrupt
=============================================================================
