---------------------------- MODULE WorkerPoolProofs ----------------------------
(* Proofs about WorkerPool: where every request is, for any number of threads, requests  *)
(* and calls.                                                                            *)
EXTENDS WorkerPool, FiniteSetTheorems, SequenceTheorems, TLAPS

(* The requests of a pool that is not destroyed, given its queue q, what each slot holds, *)
(* how the promises stand and its slots S: the form of NoTaskLost that is inductive.      *)
Placed(q, held, out, S) ==
  /\ \A i, j \in 1..Len(q) : q[i] = q[j] => i = j
  /\ \A v, w \in S : held[v] = held[w] /\ held[v] # None => v = w
  /\ \A i \in 1..Len(q) : out[q[i]] = "pending" /\ \A w \in S : held[w] # q[i]
  /\ \A w \in S : held[w] # None => out[held[w]] = "pending"
  /\ \A t \in Task : out[t] = "pending" =>
       (\E i \in 1..Len(q) : q[i] = t) \/ (\E w \in S : held[w] = t)

Busy(q, held, S) == q # <<>> => \A w \in S : held[w] # None

(* What may be under way between a slot of the pool and its thread: nothing, the request  *)
(* it holds, or the reply to it.                                                          *)
Exchange(held, in, out) ==
  \/ in = <<>> /\ out = <<>>
  \/ held # None /\ in = <<held>> /\ out = <<>>
  \/ held # None /\ in = <<>> /\ Len(out) = 1 /\ out[1].id = held

Roster == /\ created \in Size..MaxThreads
          /\ slots \subseteq 1..created
          /\ \A w \in Worker : life[w] = "unborn" <=> w > created
          /\ \A w \in Worker : w > created => inbox[w] = <<>> /\ msgs[w] = <<>>
          /\ \A w \in Worker : life[w] \in {"up", "stopping"} => w \in slots
          /\ ~destroyed => Cardinality(slots) = Size

Messages == /\ \A w \in slots : Exchange(holding[w], inbox[w], msgs[w])
            /\ \A w \in Worker : \A i \in DOMAIN msgs[w] :
                 msgs[w][i].kind = IF msgs[w][i].id \in Faulty THEN "error" ELSE "result"

Requests == IF destroyed
            THEN queue = <<>> /\ \A t \in Task : outcome[t] # "pending"
            ELSE /\ Placed(queue, holding, outcome, slots)
                 /\ \A w \in Worker \ slots : holding[w] = None

(* The inductive invariant. *)
IInv == TypeOK /\ Roster /\ Messages /\ Requests /\ Busy(queue, holding, slots)

--------------------------------------------------------------------------------
(* pump() keeps the types. *)
LEMMA PumpType ==
  ASSUME NEW q \in Seq(Task), NEW held \in [Worker -> Task \cup {None}],
         NEW out \in [Task -> Outcomes], inbox \in [Worker -> Seq(Task)],
         slots' \subseteq Worker, Pump(q, held, out)
  PROVE  /\ queue' \in Seq(Task)
         /\ holding' \in [Worker -> Task \cup {None}]
         /\ outcome' \in [Task -> Outcomes]
         /\ inbox' \in [Worker -> Seq(Task)]
<1>1. PICK n \in 0..Len(q), give \in [Idle(held) -> Elems(q) \cup {None}] :
        /\ queue' = SubSeq(q, n + 1, Len(q))
        /\ outcome' = Settle(out, {t \in {q[i] : i \in 1..n} : ~Live(t)}, "aborted")
        /\ Dispatch(held, give)
  BY Zenon DEF Pump
<1>2. queue' \in Seq(Task)
  BY <1>1
<1>3. outcome' \in [Task -> Outcomes]
  BY <1>1 DEF Settle, Outcomes
<1>4. Elems(q) \subseteq Task
  BY DEF Elems
<1>5. \A w \in Worker : w \in DOMAIN give /\ give[w] # None => give[w] \in Task
  BY <1>4
<1>6. holding' \in [Worker -> Task \cup {None}]
  BY <1>1, <1>5 DEF Dispatch
<1>7. inbox' \in [Worker -> Seq(Task)]
  BY <1>1, <1>5 DEF Dispatch
<1> QED BY <1>2, <1>3, <1>6, <1>7

(* pump() leaves every request in its one place: what leaves the queue is in a slot or    *)
(* rejected, and a busy slot is not touched.                                              *)
LEMMA PumpPlaced ==
  ASSUME NEW q \in Seq(Task), NEW held \in [Worker -> Task \cup {None}],
         NEW out \in [Task -> Outcomes], slots' \subseteq Worker, None \notin Task,
         Pump(q, held, out), Placed(q, held, out, slots')
  PROVE  Placed(queue, holding, outcome, slots)'
<1> DEFINE idle == Idle(held)
<1>1. PICK n \in 0..Len(q), give \in [idle -> Elems(q) \cup {None}] :
        /\ {give[w] : w \in idle} \ {None} = {t \in {q[i] : i \in 1..n} : Live(t)}
        /\ \A v, w \in idle : v < w /\ give[w] # None =>
             \E i, j \in 1..n : i < j /\ give[v] = q[i] /\ give[w] = q[j]
        /\ queue' = SubSeq(q, n + 1, Len(q))
        /\ outcome' = Settle(out, {t \in {q[i] : i \in 1..n} : ~Live(t)}, "aborted")
        /\ Dispatch(held, give)
  BY Zenon DEF Pump
<1> DEFINE h == [w \in Worker |-> IF w \in idle /\ give[w] # None THEN give[w] ELSE held[w]]
<1>2. holding' = h
  BY <1>1 DEF Dispatch
<1>3. /\ Len(queue') = Len(q) - n
      /\ \A i \in 1..Len(queue') : queue'[i] = q[i + n]
  BY <1>1
<1>4. \A i \in 1..Len(q) : q[i] \in Task
  OBVIOUS
<1>5. \A w \in idle : give[w] # None =>
        \E i \in 1..n : give[w] = q[i] /\ Live(q[i])
  <2> SUFFICES ASSUME NEW w \in idle, give[w] # None
               PROVE  \E i \in 1..n : give[w] = q[i] /\ Live(q[i])
    OBVIOUS
  <2>1. give[w] \in {t \in {q[i] : i \in 1..n} : Live(t)}
    BY <1>1
  <2> QED BY <2>1
<1>6. \A i \in 1..n : Live(q[i]) => \E w \in idle : give[w] = q[i]
  <2> SUFFICES ASSUME NEW i \in 1..n, Live(q[i])
               PROVE  \E w \in idle : give[w] = q[i]
    OBVIOUS
  <2>1. q[i] \in {t \in {q[k] : k \in 1..n} : Live(t)}
    OBVIOUS
  <2> QED BY <1>1, <2>1
<1>7. idle \subseteq slots' /\ idle \subseteq Worker
  BY DEF Idle
<1>8. \A v, w \in idle : give[v] = give[w] /\ give[v] # None => v = w
  <2> SUFFICES ASSUME NEW v \in idle, NEW w \in idle, give[v] = give[w], give[v] # None, v # w
               PROVE  FALSE
    OBVIOUS
  <2>1. v \in Int /\ w \in Int
    BY <1>7 DEF Worker
  <2>2. \E i, j \in 1..n :
          /\ i < j
          /\ (give[v] = q[i] /\ give[w] = q[j]) \/ (give[w] = q[i] /\ give[v] = q[j])
    <3>1. CASE v < w  BY <3>1, <1>1
    <3>2. CASE w < v  BY <3>2, <1>1
    <3> QED BY <2>1, <3>1, <3>2
  <2> QED BY <2>2 DEF Placed
<1>9. \A t \in Task : outcome'[t] =
        IF out[t] = "pending" /\ \E i \in 1..n : q[i] = t /\ ~Live(t)
        THEN "aborted" ELSE out[t]
  BY <1>1 DEF Settle
<1>10. ASSUME NEW i \in 1..Len(queue'), NEW j \in 1..Len(queue'), queue'[i] = queue'[j]
       PROVE  i = j
  <2>1. i + n \in 1..Len(q) /\ j + n \in 1..Len(q) /\ q[i + n] = q[j + n]
    BY <1>3, <1>10
  <2> QED BY <2>1 DEF Placed
<1>11. \A w \in slots' : IF w \in idle /\ give[w] # None
         THEN h[w] = give[w] ELSE h[w] = held[w]
  OBVIOUS
<1>12. \A v, w \in slots' : h[v] = h[w] /\ h[v] # None => v = w
  <2> SUFFICES ASSUME NEW v \in slots', NEW w \in slots', h[v] = h[w], h[v] # None
               PROVE  v = w
    OBVIOUS
  <2>1. CASE v \in idle /\ give[v] # None /\ w \in idle /\ give[w] # None
    BY <2>1, <1>8, <1>11
  <2>2. CASE (v \in idle /\ give[v] # None) /\ ~(w \in idle /\ give[w] # None)
    BY <2>2, <1>5, <1>11 DEF Placed
  <2>3. CASE ~(v \in idle /\ give[v] # None) /\ (w \in idle /\ give[w] # None)
    BY <2>3, <1>5, <1>11 DEF Placed
  <2>4. CASE ~(v \in idle /\ give[v] # None) /\ ~(w \in idle /\ give[w] # None)
    BY <2>4, <1>11 DEF Placed
  <2> QED BY <2>1, <2>2, <2>3, <2>4
<1>13. ASSUME NEW i \in 1..Len(queue')
       PROVE  outcome'[queue'[i]] = "pending" /\ \A w \in slots' : h[w] # queue'[i]
  <2>1. i + n \in 1..Len(q) /\ queue'[i] = q[i + n] /\ q[i + n] \in Task
    BY <1>3, <1>4
  <2>2. \A k \in 1..n : q[k] # q[i + n]
    BY <2>1 DEF Placed
  <2>3. outcome'[q[i + n]] = "pending"
    BY <2>1, <2>2, <1>9 DEF Placed
  <2>4. \A w \in slots' : h[w] # q[i + n]
    BY <2>1, <2>2, <1>5, <1>11 DEF Placed
  <2> QED BY <2>1, <2>3, <2>4
<1>14. ASSUME NEW w \in slots', h[w] # None
       PROVE  outcome'[h[w]] = "pending"
  <2>1. CASE w \in idle /\ give[w] # None
    <3>1. PICK i \in 1..n : give[w] = q[i] /\ Live(q[i])
      BY <2>1, <1>5
    <3> QED BY <2>1, <3>1, <1>4, <1>9, <1>11 DEF Placed
  <2>2. CASE ~(w \in idle /\ give[w] # None)
    <3>1. h[w] = held[w] /\ held[w] \in Task /\ out[held[w]] = "pending"
      BY <2>2, <1>11, <1>14 DEF Placed
    <3>2. \A i \in 1..n : q[i] # held[w]
      BY DEF Placed
    <3> QED BY <3>1, <3>2, <1>9
  <2> QED BY <2>1, <2>2
<1>15. ASSUME NEW t \in Task, outcome'[t] = "pending"
       PROVE  (\E i \in 1..Len(queue') : queue'[i] = t) \/ (\E w \in slots' : h[w] = t)
  <2>1. out[t] = "pending" /\ \A i \in 1..n : q[i] = t => Live(t)
    BY <1>9, <1>15
  <2>2. CASE \E w \in slots' : held[w] = t
    <3>1. PICK w \in slots' : held[w] = t
      BY <2>2
    <3>2. w \notin idle
      BY <3>1 DEF Idle
    <3> QED BY <3>1, <3>2, <1>11
  <2>3. CASE \E i \in 1..Len(q) : q[i] = t
    <3>1. PICK i \in 1..Len(q) : q[i] = t
      BY <2>3
    <3>2. CASE i <= n
      <4>1. i \in 1..n /\ Live(q[i])
        BY <3>1, <3>2, <2>1
      <4>2. PICK w \in idle : give[w] = q[i]
        BY <4>1, <1>6
      <4> QED BY <4>2, <3>1, <1>4, <1>7, <1>11
    <3>3. CASE i > n
      <4>1. i - n \in 1..Len(queue') /\ queue'[i - n] = q[i]
        BY <3>3, <1>3
      <4>2. \E k \in 1..Len(queue') : queue'[k] = t
        BY <4>1, <3>1
      <4> QED BY <4>2
    <3>4. i <= n \/ i > n
      OBVIOUS
    <3> QED BY <3>2, <3>3, <3>4, Zenon
  <2> QED BY <2>1, <2>2, <2>3 DEF Placed
<1> HIDE DEF h
<1> QED BY <1>2, <1>10, <1>12, <1>13, <1>14, <1>15 DEF Placed

(* Per slot, pump() either changes nothing or starts one live request of the queue on an  *)
(* idle slot and posts it to the slot's thread.                                           *)
LEMMA PumpSlots ==
  ASSUME NEW q \in Seq(Task), NEW held \in [Worker -> Task \cup {None}], NEW out,
         inbox \in [Worker -> Seq(Task)], None \notin Task,
         slots' \subseteq Worker, Pump(q, held, out), NEW w \in Worker
  PROVE  \/ holding'[w] = held[w] /\ inbox'[w] = inbox[w]
         \/ /\ w \in slots' /\ held[w] = None
            /\ holding'[w] \in Elems(q) /\ Live(holding'[w])
            /\ inbox'[w] = Append(inbox[w], holding'[w])
<1> DEFINE idle == Idle(held)
<1>1. PICK n \in 0..Len(q), give \in [idle -> Elems(q) \cup {None}] :
        /\ {give[v] : v \in idle} \ {None} = {t \in {q[i] : i \in 1..n} : Live(t)}
        /\ Dispatch(held, give)
  BY Zenon DEF Pump
<1>2. CASE w \in idle /\ give[w] # None
  <2>1. give[w] \in {t \in {q[i] : i \in 1..n} : Live(t)}
    BY <1>1, <1>2
  <2>2. holding'[w] = give[w] /\ inbox'[w] = Append(inbox[w], give[w])
    BY <1>1, <1>2 DEF Dispatch
  <2> QED BY <1>2, <2>1, <2>2 DEF Idle
<1>3. CASE ~(w \in idle /\ give[w] # None)
  BY <1>1, <1>3 DEF Dispatch
<1> QED BY <1>2, <1>3

(* pump() stops only for want of requests or of idle slots: by the pigeonhole principle   *)
(* the requests it shifts off the queue fill every idle slot unless the queue runs out.   *)
LEMMA PumpBusy ==
  ASSUME NEW q \in Seq(Task), NEW held \in [Worker -> Task \cup {None}], NEW out,
         slots' \subseteq Worker, None \notin Task, MaxThreads \in Nat,
         Pump(q, held, out),
         \A i, j \in 1..Len(q) : q[i] = q[j] => i = j
  PROVE  Busy(queue, holding, slots)'
<1> DEFINE idle == Idle(held)
           L(m) == {j \in 1..m : Live(q[j])}
<1>1. PICK n \in 0..Len(q), give \in [idle -> Elems(q) \cup {None}] :
        /\ \A i \in 1..Len(q) : i <= n <=> Cardinality(L(i - 1)) < Cardinality(idle)
        /\ {give[w] : w \in idle} \ {None} = {t \in {q[i] : i \in 1..n} : Live(t)}
        /\ queue' = SubSeq(q, n + 1, Len(q))
        /\ Dispatch(held, give)
  BY Zenon DEF Pump
<1> SUFFICES ASSUME queue' # <<>>, NEW w \in slots', holding'[w] = None
             PROVE  FALSE
  BY DEF Busy
<1>2. n + 1 \in 1..Len(q)
  BY <1>1
<1>3. ~(Cardinality(L(n)) < Cardinality(idle))
  <2>1. ~(n + 1 <= n) /\ (n + 1) - 1 = n
    OBVIOUS
  <2> QED BY <1>1, <1>2, <2>1
<1>4. w \in idle /\ give[w] = None
  BY <1>1 DEF Dispatch, Idle
<1>5. IsFiniteSet(idle) /\ IsFiniteSet(L(n))
  <2>1. idle \subseteq 1..MaxThreads
    BY DEF Idle, Worker
  <2>3. IsFiniteSet(1..MaxThreads)
    BY FS_Interval
  <2>2. L(n) \subseteq 1..n /\ IsFiniteSet(1..n)
    BY FS_Interval
  <2> QED BY <2>1, <2>2, <2>3, FS_Subset
<1>6. /\ IsFiniteSet(idle \ {w})
      /\ Cardinality(idle \ {w}) < Cardinality(L(n))
  <2>1. Cardinality(idle \ {w}) = Cardinality(idle) - 1 /\ IsFiniteSet(idle \ {w})
    BY <1>4, <1>5, FS_RemoveElement
  <2>2. Cardinality(idle) \in Nat /\ Cardinality(L(n)) \in Nat
    BY <1>5, FS_CardinalityType
  <2> QED BY <1>3, <2>1, <2>2
<1>7. \A j \in L(n) : \E v \in idle \ {w} : give[v] = q[j]
  <2> SUFFICES ASSUME NEW j \in L(n)
               PROVE  \E v \in idle \ {w} : give[v] = q[j]
    OBVIOUS
  <2>1. j \in 1..n /\ Live(q[j]) /\ q[j] \in Task
    BY <1>2
  <2>2. q[j] \in {t \in {q[i] : i \in 1..n} : Live(t)}
    BY <2>1
  <2>3. PICK v \in idle : give[v] = q[j]
    BY <1>1, <2>2
  <2> QED BY <1>4, <2>1, <2>3
<1> DEFINE f == [j \in L(n) |-> CHOOSE v \in idle \ {w} : give[v] = q[j]]
<1>8. f \in [L(n) -> idle \ {w}] /\ \A j \in L(n) : give[f[j]] = q[j]
  BY <1>7
<1>9. PICK i, j \in L(n) : i # j /\ f[i] = f[j]
  <2> HIDE DEF f, L, idle
  <2> QED BY <1>5, <1>6, <1>8, FS_PigeonHole
<1>10. q[i] = q[j]
  BY <1>8, <1>9
<1> QED BY <1>9, <1>10

(* pump() on an empty queue, as after destroy(), starts and rejects nothing. *)
LEMMA PumpEmpty ==
  ASSUME NEW held, NEW out \in [Task -> Outcomes], Pump(<<>>, held, out)
  PROVE  queue' = <<>> /\ outcome' = out
<1>1. PICK n \in 0..Len(<<>>) :
        /\ queue' = SubSeq(<<>>, n + 1, Len(<<>>))
        /\ outcome' = Settle(out, {t \in {<<>>[i] : i \in 1..n} : ~Live(t)}, "aborted")
  BY Zenon DEF Pump
<1>2. n = 0
  BY <1>1
<1>3. queue' = <<>>
  BY <1>1, <1>2
<1>4. {t \in {<<>>[i] : i \in 1..n} : ~Live(t)} = {}
  BY <1>2
<1> QED BY <1>1, <1>3, <1>4 DEF Settle

(* pump() posts a request only to a thread with nothing under way. *)
LEMMA PumpExchange ==
  ASSUME NEW q \in Seq(Task), NEW held \in [Worker -> Task \cup {None}], NEW out, NEW mm,
         inbox \in [Worker -> Seq(Task)], None \notin Task,
         slots' \subseteq Worker, Pump(q, held, out),
         \A w \in slots' : Exchange(held[w], inbox[w], mm[w])
  PROVE  \A w \in slots' : Exchange(holding'[w], inbox'[w], mm[w])
<1> SUFFICES ASSUME NEW w \in slots'
             PROVE  Exchange(holding'[w], inbox'[w], mm[w])
  OBVIOUS
<1>1. CASE holding'[w] = held[w] /\ inbox'[w] = inbox[w]
  BY <1>1
<1>2. CASE /\ held[w] = None
           /\ holding'[w] \in Elems(q)
           /\ inbox'[w] = Append(inbox[w], holding'[w])
  <2>1. inbox[w] = <<>> /\ mm[w] = <<>>
    BY <1>2 DEF Exchange
  <2>2. holding'[w] \in Task
    BY <1>2 DEF Elems
  <2>3. inbox'[w] = <<holding'[w]>>
    BY <1>2, <2>1
  <2> QED BY <2>1, <2>2, <2>3 DEF Exchange
<1> QED BY <1>1, <1>2, PumpSlots

(* Freeing slot w, whose request is settled with k, and changing the pool's slots from S  *)
(* to T by no more than dropping w and adding empty ones.                                 *)
LEMMA FreePlaced ==
  ASSUME NEW q \in Seq(Task), NEW held \in [Worker -> Task \cup {None}],
         NEW out \in [Task -> Outcomes], NEW k \in Outcomes, k # "pending",
         NEW S \in SUBSET Worker, NEW T \in SUBSET Worker, NEW w \in S,
         S \ {w} \subseteq T, \A v \in T \ S : held[v] = None,
         None \notin Task, Placed(q, held, out, S)
  PROVE  Placed(q, [held EXCEPT ![w] = None], Settle(out, {held[w]}, k), T)
<1> DEFINE h == [held EXCEPT ![w] = None]
           o == Settle(out, {held[w]}, k)
<1>1. \A v \in T : h[v] # None => v \in S /\ v # w /\ h[v] = held[v]
  OBVIOUS
<1>2. \A t \in Task : o[t] = IF t = held[w] /\ out[t] = "pending" THEN k ELSE out[t]
  BY DEF Settle
<1>3. \A i \in 1..Len(q) : q[i] \in Task
  OBVIOUS
<1>4. \A i, j \in 1..Len(q) : q[i] = q[j] => i = j
  BY DEF Placed
<1>5. \A u, v \in T : h[u] = h[v] /\ h[u] # None => u = v
  BY <1>1 DEF Placed
<1>6. \A i \in 1..Len(q) : o[q[i]] = "pending"
  BY <1>2, <1>3 DEF Placed
<1>7. \A i \in 1..Len(q) : \A v \in T : h[v] # q[i]
  BY <1>1, <1>3 DEF Placed
<1>8. ASSUME NEW v \in T, h[v] # None
      PROVE  o[h[v]] = "pending"
  <2>1. v \in S /\ v # w /\ h[v] = held[v] /\ held[v] \in Task /\ held[v] # None
    BY <1>1, <1>8
  <2>2. out[held[v]] = "pending" /\ held[v] # held[w]
    BY <2>1 DEF Placed
  <2> QED BY <1>2, <2>1, <2>2
<1>9. ASSUME NEW t \in Task, o[t] = "pending"
      PROVE  (\E i \in 1..Len(q) : q[i] = t) \/ (\E v \in T : h[v] = t)
  <2>1. out[t] = "pending" /\ t # held[w]
    BY <1>2, <1>9
  <2>2. (\E i \in 1..Len(q) : q[i] = t) \/ (\E v \in S : held[v] = t)
    BY <2>1 DEF Placed
  <2>3. \A v \in S : held[v] = t => v \in T /\ h[v] = t
    BY <2>1
  <2> HIDE DEF h
  <2>4. (\E v \in S : held[v] = t) => \E v \in T : h[v] = t
    BY <2>3
  <2> QED BY <2>2, <2>4, Zenon
<1> HIDE DEF h, o
<1>10. Placed(q, h, o, T)
  BY <1>4, <1>5, <1>6, <1>7, <1>8, <1>9 DEF Placed
<1> QED BY <1>10 DEF h, o

--------------------------------------------------------------------------------
(* Every handler that pumps: what it needs to establish before it pumps. *)
LEMMA PumpInv ==
  ASSUME NEW q \in Seq(Task), NEW held \in [Worker -> Task \cup {None}],
         NEW out \in [Task -> Outcomes],
         inbox \in [Worker -> Seq(Task)], msgs' \in [Worker -> Seq(Reply)],
         slots' \in SUBSET Worker, Pump(q, held, out),
         IF destroyed' THEN q = <<>> /\ \A t \in Task : out[t] # "pending"
         ELSE /\ Placed(q, held, out, slots')
              /\ \A w \in Worker \ slots' : held[w] = None,
         \A w \in slots' : Exchange(held[w], inbox[w], msgs'[w])
  PROVE  /\ queue' \in Seq(Task)
         /\ holding' \in [Worker -> Task \cup {None}]
         /\ outcome' \in [Task -> Outcomes]
         /\ inbox' \in [Worker -> Seq(Task)]
         /\ \A w \in slots' : Exchange(holding'[w], inbox'[w], msgs'[w])
         /\ Requests'
         /\ Busy(queue, holding, slots)'
<1> USE PoolAssumption
<1>1. /\ queue' \in Seq(Task)
      /\ holding' \in [Worker -> Task \cup {None}]
      /\ outcome' \in [Task -> Outcomes]
      /\ inbox' \in [Worker -> Seq(Task)]
  BY PumpType
<1>2. \A w \in slots' : Exchange(holding'[w], inbox'[w], msgs'[w])
  BY PumpExchange
<1>3. CASE destroyed'
  <2>1. q = <<>> /\ \A t \in Task : out[t] # "pending"
    BY <1>3
  <2>2. queue' = <<>> /\ outcome' = out
    BY <2>1, PumpEmpty
  <2>3. Requests' /\ Busy(queue, holding, slots)'
    BY <1>3, <2>1, <2>2 DEF Requests, Busy
  <2> QED BY <1>1, <1>2, <2>3
<1>4. CASE ~destroyed'
  <2>1. Placed(q, held, out, slots') /\ \A w \in Worker \ slots' : held[w] = None
    BY <1>4
  <2>2. Placed(queue, holding, outcome, slots)'
    BY <2>1, PumpPlaced
  <2>3. Busy(queue, holding, slots)'
    <3>1. \A i, j \in 1..Len(q) : q[i] = q[j] => i = j
      BY <2>1 DEF Placed
    <3> QED BY <3>1, PumpBusy
  <2>4. \A w \in Worker : holding'[w] = held[w] \/ w \in slots'
    BY PumpSlots
  <2> QED BY <1>1, <1>2, <1>4, <2>2, <2>3, <2>4 DEF Requests
<1> QED BY <1>3, <1>4

(* A pool just created is idle and owes nothing. *)
LEMMA InitInv == Init => IInv
<1> SUFFICES ASSUME Init PROVE IInv
  OBVIOUS
<1> USE PoolAssumption DEF Init
<1>1. TypeOK
  <2>1. 1..Size \subseteq Worker
    BY DEF Worker
  <2>2. /\ holding \in [Worker -> Task \cup {None}] /\ life \in [Worker -> Lives]
        /\ inbox \in [Worker -> Seq(Task)] /\ msgs \in [Worker -> Seq(Reply)]
    BY DEF Lives
  <2>3. outcome \in [Task -> Outcomes] /\ progress \in [Call -> Nat] /\ queue \in Seq(Task)
    BY DEF Outcomes
  <2> QED BY <2>1, <2>2, <2>3 DEF TypeOK
<1>2. Roster
  <2>1. Cardinality(1..Size) = Size
    BY FS_Interval
  <2> QED BY <2>1 DEF Roster, Worker
<1>3. Messages
  BY DEF Messages, Exchange, Worker
<1>4. Requests
  BY DEF Requests, Placed, Worker
<1>5. Busy(queue, holding, slots)
  BY DEF Busy
<1> QED BY <1>1, <1>2, <1>3, <1>4, <1>5 DEF IInv

(* Pushing the new requests r behind the queue. *)
LEMMA PushPlaced ==
  ASSUME queue \in Seq(Task), NEW r \in Seq(Task), NEW q \in Seq(Task),
         Len(q) = Len(queue) + Len(r),
         \A i \in 1..Len(q) : q[i] = IF i <= Len(queue) THEN queue[i] ELSE r[i - Len(queue)],
         holding \in [Worker -> Task \cup {None}], slots \in SUBSET Worker, None \notin Task,
         outcome \in [Task -> Outcomes], NEW out \in [Task -> Outcomes],
         \A t \in Task : out[t] = IF \E i \in 1..Len(r) : r[i] = t THEN "pending" ELSE outcome[t],
         \A i \in 1..Len(r) : outcome[r[i]] = "new",
         \A i, j \in 1..Len(r) : r[i] = r[j] => i = j,
         Placed(queue, holding, outcome, slots)
  PROVE  Placed(q, holding, out, slots)
<1>1. \A i \in 1..Len(q) : \/ i \in 1..Len(queue) /\ q[i] = queue[i]
                           \/ i - Len(queue) \in 1..Len(r) /\ q[i] = r[i - Len(queue)]
  OBVIOUS
<1>2. /\ \A i \in 1..Len(queue) : i \in 1..Len(q) /\ q[i] = queue[i]
      /\ \A i \in 1..Len(r) : i + Len(queue) \in 1..Len(q) /\ q[i + Len(queue)] = r[i]
  <2>1. ASSUME NEW i \in 1..Len(r)
        PROVE  i + Len(queue) \in 1..Len(q) /\ q[i + Len(queue)] = r[i]
    <3>1. /\ i + Len(queue) \in 1..Len(q) /\ ~(i + Len(queue) <= Len(queue))
          /\ (i + Len(queue)) - Len(queue) = i
      OBVIOUS
    <3> QED BY <3>1
  <2> QED BY <2>1
<1>3. \A i \in 1..Len(queue) : queue[i] \in Task /\ outcome[queue[i]] = "pending" /\ out[queue[i]] = "pending"
  BY DEF Placed
<1>4. \A i \in 1..Len(r) : r[i] \in Task /\ out[r[i]] = "pending"
  OBVIOUS
<1>5. ASSUME NEW i \in 1..Len(q), NEW j \in 1..Len(q), q[i] = q[j]
      PROVE  i = j
  <2>1. \A k \in 1..Len(queue), l \in 1..Len(r) : queue[k] # r[l]
    BY <1>3
  <2>2. CASE i \in 1..Len(queue) /\ j \in 1..Len(queue)
    <3>1. queue[i] = queue[j]
      BY <1>2, <1>5, <2>2
    <3> QED BY <2>2, <3>1 DEF Placed
  <2>3. CASE i \notin 1..Len(queue) /\ j \notin 1..Len(queue)
    <3>1. r[i - Len(queue)] = r[j - Len(queue)] /\ i - Len(queue) \in 1..Len(r) /\ j - Len(queue) \in 1..Len(r)
      BY <1>1, <1>5, <2>3
    <3>2. i - Len(queue) = j - Len(queue)
      BY <3>1
    <3> QED BY <3>2
  <2>4. CASE i \in 1..Len(queue) /\ j \notin 1..Len(queue)
    <3>1. q[i] = queue[i]
      BY <1>2, <2>4
    <3>2. j - Len(queue) \in 1..Len(r) /\ q[j] = r[j - Len(queue)]
      BY <1>1, <2>4
    <3>3. queue[i] # r[j - Len(queue)]
      BY <2>1, <2>4, <3>2
    <3> QED BY <1>5, <3>1, <3>2, <3>3
  <2>5. CASE i \notin 1..Len(queue) /\ j \in 1..Len(queue)
    <3>1. q[j] = queue[j]
      BY <1>2, <2>5
    <3>2. i - Len(queue) \in 1..Len(r) /\ q[i] = r[i - Len(queue)]
      BY <1>1, <2>5
    <3>3. queue[j] # r[i - Len(queue)]
      BY <2>1, <2>5, <3>2
    <3> QED BY <1>5, <3>1, <3>2, <3>3
  <2> QED BY <2>2, <2>3, <2>4, <2>5
<1>6. ASSUME NEW i \in 1..Len(q)
      PROVE  out[q[i]] = "pending" /\ \A w \in slots : holding[w] # q[i]
  <2>1. CASE i \in 1..Len(queue) /\ q[i] = queue[i]
    BY <2>1, <1>3 DEF Placed
  <2>2. CASE i - Len(queue) \in 1..Len(r) /\ q[i] = r[i - Len(queue)]
    <3>1. outcome[q[i]] = "new" /\ out[q[i]] = "pending" /\ q[i] \in Task
      BY <2>2, <1>4
    <3>2. \A w \in slots : holding[w] # None => outcome[holding[w]] = "pending"
      BY DEF Placed
    <3> QED BY <3>1, <3>2
  <2> QED BY <1>1, <2>1, <2>2
<1>7. ASSUME NEW w \in slots, holding[w] # None
      PROVE  out[holding[w]] = "pending"
  <2>1. holding[w] \in Task /\ outcome[holding[w]] = "pending"
    BY <1>7 DEF Placed
  <2> QED BY <2>1
<1>8. ASSUME NEW t \in Task, out[t] = "pending"
      PROVE  (\E i \in 1..Len(q) : q[i] = t) \/ (\E w \in slots : holding[w] = t)
  <2>1. CASE \E i \in 1..Len(r) : r[i] = t
    <3>1. PICK i \in 1..Len(r) : r[i] = t
      BY <2>1
    <3>2. i + Len(queue) \in 1..Len(q) /\ q[i + Len(queue)] = t
      BY <1>2, <3>1
    <3> QED BY <3>2
  <2>2. CASE ~\E i \in 1..Len(r) : r[i] = t
    <3>1. outcome[t] = "pending"
      BY <1>8, <2>2
    <3>2. (\E i \in 1..Len(queue) : queue[i] = t) \/ (\E w \in slots : holding[w] = t)
      BY <3>1 DEF Placed
    <3> QED BY <3>2, <1>2
  <2> QED BY <2>1, <2>2
<1>9. \A v, w \in slots : holding[v] = holding[w] /\ holding[v] # None => v = w
  BY DEF Placed
<1> QED BY <1>5, <1>6, <1>7, <1>8, <1>9 DEF Placed

(* run() and runMany() queue only new requests, behind those that wait, and pump. *)
LEMMA RunManyInv ==
  ASSUME IInv, NEW c \in Call, RunMany(c)
  PROVE  IInv'
<1> USE PoolAssumption
<1>1. TypeOK /\ Roster /\ Messages /\ Requests
  BY DEF IInv
<1>2. /\ ~destroyed /\ Fresh(c) /\ Pump(queue \o Reqs[c], holding, Push(c))
      /\ slots' = slots /\ created' = created /\ destroyed' = destroyed
      /\ aborted' = aborted /\ progress' = progress /\ life' = life /\ msgs' = msgs
  BY DEF RunMany
<1>3. /\ slots \in SUBSET Worker /\ holding \in [Worker -> Task \cup {None}]
      /\ queue \in Seq(Task) /\ outcome \in [Task -> Outcomes]
      /\ inbox \in [Worker -> Seq(Task)] /\ msgs' \in [Worker -> Seq(Reply)]
  BY <1>1, <1>2 DEF TypeOK
<1>4. /\ Reqs[c] \in Seq(Task) /\ queue \o Reqs[c] \in Seq(Task)
      /\ Len(queue \o Reqs[c]) = Len(queue) + Len(Reqs[c])
      /\ \A i \in 1..Len(queue \o Reqs[c]) :
           (queue \o Reqs[c])[i] = IF i <= Len(queue) THEN queue[i] ELSE Reqs[c][i - Len(queue)]
  BY <1>3
<1>5. /\ Push(c) \in [Task -> Outcomes]
      /\ \A t \in Task : Push(c)[t] =
           IF \E i \in 1..Len(Reqs[c]) : Reqs[c][i] = t THEN "pending" ELSE outcome[t]
  BY <1>3, <1>4 DEF Push, Outcomes, Elems
<1>6. /\ \A i \in 1..Len(Reqs[c]) : outcome[Reqs[c][i]] = "new"
      /\ \A i, j \in 1..Len(Reqs[c]) : Reqs[c][i] = Reqs[c][j] => i = j
  <2>1. DOMAIN Reqs[c] = 1..Len(Reqs[c])
    BY <1>4
  <2>2. \A i \in 1..Len(Reqs[c]) : Reqs[c][i] \in Elems(Reqs[c])
    BY <2>1 DEF Elems
  <2>3. \A i \in 1..Len(Reqs[c]) : outcome[Reqs[c][i]] = "new"
    BY <1>2, <2>2 DEF Fresh
  <2>4. \A i, j \in 1..Len(Reqs[c]) : Reqs[c][i] = Reqs[c][j] => i = j
    BY <2>1
  <2> QED BY <2>3, <2>4
<1>7. Placed(queue, holding, outcome, slots) /\ \A w \in Worker \ slots : holding[w] = None
  BY <1>1, <1>2 DEF Requests
<1>8. Placed(queue \o Reqs[c], holding, Push(c), slots)
  BY <1>3, <1>4, <1>5, <1>6, <1>7, PushPlaced
<1>10. /\ queue' \in Seq(Task) /\ holding' \in [Worker -> Task \cup {None}]
       /\ outcome' \in [Task -> Outcomes] /\ inbox' \in [Worker -> Seq(Task)]
       /\ \A w \in slots' : Exchange(holding'[w], inbox'[w], msgs'[w])
       /\ Requests' /\ Busy(queue, holding, slots)'
  <2>1. \A w \in slots' : Exchange(holding[w], inbox[w], msgs'[w])
    BY <1>1, <1>2 DEF Messages
  <2> QED BY <1>2, <1>3, <1>4, <1>5, <1>7, <1>8, <2>1, PumpInv
<1>11. TypeOK'
  BY <1>1, <1>2, <1>10 DEF TypeOK
<1>12. Roster'
  <2>1. \A w \in Worker : w > created => inbox'[w] = <<>>
    <3> SUFFICES ASSUME NEW w \in Worker, w > created PROVE inbox'[w] = <<>>
      OBVIOUS
    <3>1. w \notin slots' /\ inbox[w] = <<>>
      BY <1>1, <1>2 DEF Roster, Worker
    <3> QED BY <3>1, <1>2, <1>3, <1>4, PumpSlots
  <2> QED BY <2>1, <1>1, <1>2 DEF Roster
<1>13. Messages'
  BY <1>1, <1>2, <1>10 DEF Messages
<1> QED BY <1>10, <1>11, <1>12, <1>13 DEF IInv

(* A reply settles the one request its slot holds, frees the slot and pumps. *)
LEMMA OnMessageInv ==
  ASSUME IInv, NEW w \in Worker, OnMessage(w)
  PROVE  IInv'
<1> USE PoolAssumption
<1> DEFINE m == Head(msgs[w])
           held == [holding EXCEPT ![w] = None]
           out == Settle(outcome, {holding[w]}, OutcomeOf(m.kind))
<1>1. TypeOK /\ Roster /\ Messages /\ Requests
  BY DEF IInv
<1>2. /\ msgs[w] # <<>> /\ holding[w] = m.id /\ msgs' = [msgs EXCEPT ![w] = Tail(@)]
      /\ slots' = slots /\ created' = created /\ destroyed' = destroyed
      /\ aborted' = aborted /\ life' = life /\ progress' = Advance(m)
      /\ Pump(queue, held, out)
  BY DEF OnMessage
<1>3. /\ slots \in SUBSET Worker /\ holding \in [Worker -> Task \cup {None}]
      /\ queue \in Seq(Task) /\ outcome \in [Task -> Outcomes]
      /\ inbox \in [Worker -> Seq(Task)] /\ msgs \in [Worker -> Seq(Reply)]
  BY <1>1 DEF TypeOK
<1>4. m \in Reply /\ m.id \in Task /\ msgs[w] \in Seq(Reply)
  <2>1. msgs[w] \in Seq(Reply) /\ msgs[w] # <<>>
    BY <1>2, <1>3
  <2>2. m \in Reply
    BY <2>1
  <2> QED BY <2>1, <2>2 DEF Reply
<1>5. /\ held \in [Worker -> Task \cup {None}]
      /\ OutcomeOf(m.kind) \in Outcomes /\ OutcomeOf(m.kind) # "pending"
      /\ out \in [Task -> Outcomes]
  BY <1>3 DEF OutcomeOf, Outcomes, Settle
<1>6. msgs' \in [Worker -> Seq(Reply)]
  BY <1>2, <1>3, <1>4
<1>7. IF destroyed' THEN queue = <<>> /\ \A t \in Task : out[t] # "pending"
      ELSE /\ Placed(queue, held, out, slots')
           /\ \A v \in Worker \ slots' : held[v] = None
  <2>1. CASE destroyed
    BY <1>1, <1>2, <2>1 DEF Requests, Settle
  <2>2. CASE ~destroyed
    <3>1. Placed(queue, holding, outcome, slots) /\ \A v \in Worker \ slots : holding[v] = None
      BY <1>1, <2>2 DEF Requests
    <3>2. w \in slots
      BY <1>2, <1>4, <3>1
    <3>3. Placed(queue, held, out, slots)
      BY <1>3, <1>5, <3>1, <3>2, FreePlaced
    <3>4. \A v \in Worker \ slots : held[v] = None
      BY <1>3, <3>1
    <3> QED BY <1>2, <2>2, <3>3, <3>4
  <2> QED BY <2>1, <2>2
<1>8. \A v \in slots' : Exchange(held[v], inbox[v], msgs'[v])
  <2> SUFFICES ASSUME NEW v \in slots PROVE Exchange(held[v], inbox[v], msgs'[v])
    BY <1>2
  <2>1. Exchange(holding[v], inbox[v], msgs[v])
    BY <1>1 DEF Messages
  <2>2. CASE v = w
    <3>1. inbox[w] = <<>> /\ Len(msgs[w]) = 1
      BY <1>2, <1>4, <2>1, <2>2 DEF Exchange
    <3>2. Tail(msgs[w]) \in Seq(Reply) /\ Len(Tail(msgs[w])) = 0
      BY <1>2, <1>4, <3>1
    <3>3. Tail(msgs[w]) = <<>>
      BY <3>2, EmptySeq
    <3> QED BY <1>2, <1>3, <2>2, <3>1, <3>3 DEF Exchange
  <2>3. CASE v # w
    BY <1>2, <1>3, <2>1, <2>3
  <2> QED BY <2>2, <2>3
<1> HIDE DEF m, held, out
<1>10. /\ queue' \in Seq(Task) /\ holding' \in [Worker -> Task \cup {None}]
       /\ outcome' \in [Task -> Outcomes] /\ inbox' \in [Worker -> Seq(Task)]
       /\ \A v \in slots' : Exchange(holding'[v], inbox'[v], msgs'[v])
       /\ Requests' /\ Busy(queue, holding, slots)'
  BY <1>2, <1>3, <1>5, <1>6, <1>7, <1>8, PumpInv
<1>11. TypeOK'
  <2>1. progress' \in [Call -> Nat]
    <3>1. progress \in [Call -> Nat] /\ \A c \in Call : progress[c] + 1 \in Nat
      BY <1>1 DEF TypeOK
    <3> QED BY <1>2, <3>1 DEF Advance
  <2> QED BY <2>1, <1>1, <1>2, <1>6, <1>10 DEF TypeOK
<1>12. Roster'
  <2>1. \A v \in Worker : v > created => inbox'[v] = <<>> /\ msgs'[v] = <<>>
    <3> SUFFICES ASSUME NEW v \in Worker, v > created
                 PROVE  inbox'[v] = <<>> /\ msgs'[v] = <<>>
      OBVIOUS
    <3>1. v \notin slots' /\ inbox[v] = <<>> /\ msgs[v] = <<>> /\ v # w
      BY <1>1, <1>2 DEF Roster, Worker
    <3>2. msgs'[v] = <<>>
      BY <1>2, <1>3, <3>1
    <3>3. inbox'[v] = <<>>
      BY <3>1, <1>2, <1>3, <1>5, PumpSlots
    <3> QED BY <3>2, <3>3
  <2> QED BY <2>1, <1>1, <1>2 DEF Roster
<1>13. Messages'
  <2>1. ASSUME NEW v \in Worker, NEW i \in DOMAIN msgs'[v]
        PROVE  msgs'[v][i].kind = IF msgs'[v][i].id \in Faulty THEN "error" ELSE "result"
    <3>1. CASE v = w
      <4>1. i + 1 \in DOMAIN msgs[v] /\ msgs'[v][i] = msgs[v][i + 1]
        BY <1>2, <1>3, <1>4, <3>1
      <4> QED BY <4>1, <1>1 DEF Messages
    <3>2. CASE v # w
      BY <1>1, <1>2, <1>3, <3>2 DEF Messages
    <3> QED BY <3>1, <3>2
  <2> QED BY <2>1, <1>10 DEF Messages
<1> QED BY <1>10, <1>11, <1>12, <1>13 DEF IInv

(* The first event of a death replaces the slot, rejects what it held and pumps; any     *)
(* later one changes nothing but the thread.                                            *)
LEMMA OnCrashInv ==
  ASSUME IInv, NEW w \in Worker, NEW after \in {"exiting", "gone"},
         life[w] \in {"errored", "exiting"}, OnCrash(w, after)
  PROVE  IInv'
<1> USE PoolAssumption
<1>1. TypeOK /\ Roster /\ Messages /\ Requests /\ Busy(queue, holding, slots)
  BY DEF IInv
<1>2. /\ slots \in SUBSET Worker /\ holding \in [Worker -> Task \cup {None}]
      /\ queue \in Seq(Task) /\ outcome \in [Task -> Outcomes] /\ life \in [Worker -> Lives]
      /\ inbox \in [Worker -> Seq(Task)] /\ msgs \in [Worker -> Seq(Reply)]
  BY <1>1 DEF TypeOK
<1>3. destroyed' = destroyed /\ aborted' = aborted /\ progress' = progress /\ msgs' = msgs
  BY DEF OnCrash
<1>4. CASE Ignored(w)
  <2>1. /\ life' = [life EXCEPT ![w] = after]
        /\ slots' = slots /\ created' = created /\ holding' = holding /\ queue' = queue
        /\ outcome' = outcome /\ inbox' = inbox
    BY <1>4 DEF OnCrash
  <2>2. TypeOK'
    BY <1>1, <1>3, <2>1 DEF TypeOK, Lives
  <2>3. Roster'
    BY <1>1, <1>2, <1>3, <2>1 DEF Roster, Lives
  <2>4. Messages' /\ Requests' /\ Busy(queue, holding, slots)'
    BY <1>1, <1>3, <2>1 DEF Messages, Requests, Busy
  <2> QED BY <2>2, <2>3, <2>4 DEF IInv
<1>5. CASE ~Ignored(w)
  <2> DEFINE new == created + 1
             held == [holding EXCEPT ![w] = None]
             out == Settle(outcome, {holding[w]}, "crashed")
  <2>1. /\ ~destroyed /\ w \in slots
        /\ created < MaxThreads /\ created' = new /\ slots' = (slots \ {w}) \cup {new}
        /\ life' = [life EXCEPT ![w] = after, ![new] = "up"]
        /\ Pump(queue, held, out)
    BY <1>5 DEF OnCrash, Ignored
  <2>2. /\ created \in Nat /\ new \in Worker /\ new \notin slots /\ new # w
        /\ slots' \in SUBSET Worker
    <3>1. /\ created \in Nat /\ created >= Size /\ slots \subseteq 1..created
      BY <1>1 DEF Roster
    <3>2. new \in Worker /\ new \notin slots
      BY <3>1, <2>1 DEF Worker
    <3>3. slots' \subseteq Worker
      BY <1>2, <2>1, <3>2
    <3> QED BY <2>1, <3>1, <3>2, <3>3
  <2>3. Placed(queue, holding, outcome, slots) /\ \A v \in Worker \ slots : holding[v] = None
    BY <1>1, <2>1 DEF Requests
  <2>4. held \in [Worker -> Task \cup {None}] /\ out \in [Task -> Outcomes]
    BY <1>2 DEF Settle, Outcomes
  <2>5. Placed(queue, held, out, slots')
    <3>1. "crashed" \in Outcomes
      BY DEF Outcomes
    <3>2. slots \ {w} \subseteq slots' /\ \A v \in slots' \ slots : holding[v] = None
      BY <2>1, <2>2, <2>3
    <3> QED BY <1>2, <2>1, <2>2, <2>3, <3>1, <3>2, FreePlaced
  <2>6. \A v \in Worker \ slots' : held[v] = None
    BY <1>2, <2>1, <2>3
  <2>7. \A v \in slots' : Exchange(held[v], inbox[v], msgs'[v])
    <3>1. inbox[new] = <<>> /\ msgs[new] = <<>>
      BY <1>1, <2>2 DEF Roster
    <3>2. Exchange(held[new], inbox[new], msgs'[new])
      BY <1>3, <3>1 DEF Exchange
    <3>3. \A v \in slots \ {w} : Exchange(held[v], inbox[v], msgs'[v])
      BY <1>1, <1>2, <1>3 DEF Messages
    <3> QED BY <2>1, <3>2, <3>3
  <2>8. ~destroyed' /\ msgs' \in [Worker -> Seq(Reply)]
    BY <1>2, <1>3, <2>1
  <2> HIDE DEF held, out
  <2>10. /\ queue' \in Seq(Task) /\ holding' \in [Worker -> Task \cup {None}]
         /\ outcome' \in [Task -> Outcomes] /\ inbox' \in [Worker -> Seq(Task)]
         /\ \A v \in slots' : Exchange(holding'[v], inbox'[v], msgs'[v])
         /\ Requests' /\ Busy(queue, holding, slots)'
    BY <1>2, <2>1, <2>2, <2>4, <2>5, <2>6, <2>7, <2>8, PumpInv
  <2>11. TypeOK'
    <3>1. life' \in [Worker -> Lives]
      BY <1>2, <2>1 DEF Lives
    <3>2. created' \in Nat /\ slots' \subseteq Worker
      BY <2>1, <2>2
    <3>3. destroyed' \in BOOLEAN /\ aborted' \subseteq Call /\ progress' \in [Call -> Nat]
      BY <1>1, <1>3 DEF TypeOK
    <3> QED BY <2>8, <2>10, <3>1, <3>2, <3>3 DEF TypeOK
  <2>12. Roster'
    <3>1. created' \in Size..MaxThreads /\ slots' \subseteq 1..created'
      BY <1>1, <2>1, <2>2 DEF Roster
    <3>2. \A v \in Worker : life'[v] = IF v = new THEN "up" ELSE IF v = w THEN after ELSE life[v]
      BY <1>2, <2>1, <2>2
    <3>3. \A v \in Worker : life'[v] = "unborn" <=> v > created'
      <4>1. \A v \in Worker : life[v] = "unborn" <=> v > created
        BY <1>1 DEF Roster
      <4>2. \A v \in Worker : v > created' <=> v > created /\ v # new
        BY <2>1, <2>2 DEF Worker
      <4>3. life[w] # "unborn" /\ after # "unborn"
        OBVIOUS
      <4> HIDE DEF new
      <4> QED BY <3>2, <4>1, <4>2, <4>3
    <3>4. \A v \in Worker : v > created' => inbox'[v] = <<>> /\ msgs'[v] = <<>>
      <4> SUFFICES ASSUME NEW v \in Worker, v > created'
                   PROVE  inbox'[v] = <<>> /\ msgs'[v] = <<>>
        OBVIOUS
      <4>1. v > created /\ v \notin slots'
        BY <3>1, <2>1, <2>2 DEF Worker
      <4>2. inbox[v] = <<>> /\ msgs[v] = <<>>
        BY <4>1, <1>1 DEF Roster
      <4>3. inbox'[v] = inbox[v]
        BY <1>2, <2>1, <2>2, <2>4, <4>1, PumpSlots
      <4> QED BY <1>3, <4>2, <4>3
    <3>5. \A v \in Worker : life'[v] \in {"up", "stopping"} => v \in slots'
      <4>1. \A v \in Worker : life[v] \in {"up", "stopping"} => v \in slots
        BY <1>1 DEF Roster
      <4>2. after \notin {"up", "stopping"}
        OBVIOUS
      <4> HIDE DEF new
      <4> QED BY <2>1, <3>2, <4>1, <4>2
    <3>6. Cardinality(slots') = Size
      <4>1. slots \subseteq 1..MaxThreads /\ IsFiniteSet(1..MaxThreads)
        BY <1>2, FS_Interval DEF Worker
      <4>2. IsFiniteSet(slots) /\ Cardinality(slots) = Size
        BY <4>1, <1>1, <2>1, FS_Subset DEF Roster
      <4>3. IsFiniteSet(slots \ {w}) /\ Cardinality(slots \ {w}) = Size - 1
        BY <4>2, <2>1, FS_RemoveElement
      <4>4. new \notin slots \ {w}
        BY <2>2
      <4>5. Cardinality((slots \ {w}) \cup {new}) = Cardinality(slots \ {w}) + 1
        BY <4>3, <4>4, FS_AddElement
      <4> QED BY <2>1, <4>3, <4>5
    <3> QED BY <3>1, <3>3, <3>4, <3>5, <3>6 DEF Roster
  <2>13. Messages'
    BY <1>1, <1>3, <2>10 DEF Messages
  <2> QED BY <2>10, <2>11, <2>12, <2>13 DEF IInv
<1> QED BY <1>4, <1>5

(* A call refused at once: its requests were new, so none is queued or in a slot. *)
LEMMA RefuseInv ==
  ASSUME IInv, NEW c \in Call, Refuse(c)
  PROVE  IInv'
<1> USE PoolAssumption
<1> DEFINE k == IF destroyed THEN "destroyed" ELSE "aborted"
<1>1. TypeOK /\ Roster /\ Messages /\ Requests /\ Busy(queue, holding, slots)
  BY DEF IInv
<1>2. /\ Fresh(c) /\ outcome' = Settle(Push(c), Elems(Reqs[c]), k)
      /\ slots' = slots /\ created' = created /\ holding' = holding /\ queue' = queue
      /\ destroyed' = destroyed /\ aborted' = aborted /\ progress' = progress
      /\ life' = life /\ inbox' = inbox /\ msgs' = msgs
  BY DEF Refuse
<1>3. /\ holding \in [Worker -> Task \cup {None}] /\ queue \in Seq(Task)
      /\ outcome \in [Task -> Outcomes] /\ slots \subseteq Worker
  BY <1>1 DEF TypeOK
<1>4. \A t \in Task : outcome'[t] = IF t \in Elems(Reqs[c]) THEN k ELSE outcome[t]
  BY <1>2, <1>3 DEF Settle, Push
<1>5. \A t \in Elems(Reqs[c]) : outcome[t] = "new"
  BY <1>2 DEF Fresh
<1>6. outcome' \in [Task -> Outcomes]
  BY <1>2, <1>3 DEF Settle, Push, Outcomes
<1>7. \A t \in Task : outcome'[t] = "pending" <=> outcome[t] = "pending"
  BY <1>4, <1>5
<1>8. TypeOK'
  BY <1>1, <1>2, <1>6 DEF TypeOK
<1>9. Roster' /\ Messages' /\ Busy(queue, holding, slots)'
  BY <1>1, <1>2 DEF Roster, Messages, Busy
<1>10. Requests'
  <2>1. CASE destroyed
    BY <1>1, <1>2, <1>7, <2>1 DEF Requests
  <2>2. CASE ~destroyed
    <3>1. Placed(queue, holding, outcome, slots) /\ \A w \in Worker \ slots : holding[w] = None
      BY <1>1, <2>2 DEF Requests
    <3>2. \A i \in 1..Len(queue) : queue[i] \in Task /\ outcome'[queue[i]] = "pending"
      BY <3>1, <1>3, <1>7 DEF Placed
    <3>3. \A w \in slots : holding[w] # None => outcome'[holding[w]] = "pending"
      <4> SUFFICES ASSUME NEW w \in slots, holding[w] # None
                   PROVE  outcome'[holding[w]] = "pending"
        OBVIOUS
      <4>1. holding[w] \in Task /\ outcome[holding[w]] = "pending"
        BY <3>1, <1>3 DEF Placed
      <4> QED BY <4>1, <1>7
    <3>4. \A t \in Task : outcome'[t] = "pending" =>
            (\E i \in 1..Len(queue) : queue[i] = t) \/ (\E w \in slots : holding[w] = t)
      BY <3>1, <1>7 DEF Placed
    <3>5. Placed(queue, holding, outcome', slots)
      BY <3>1, <3>2, <3>3, <3>4 DEF Placed
    <3> QED BY <1>2, <2>2, <3>1, <3>5 DEF Requests
  <2> QED BY <2>1, <2>2
<1> QED BY <1>8, <1>9, <1>10 DEF IInv

(* A reply is stale only on a slot that has been replaced, where nothing depends on it. *)
LEMMA OnStaleMessageInv ==
  ASSUME IInv, NEW w \in Worker, OnStaleMessage(w)
  PROVE  IInv' /\ w \notin slots
<1> USE PoolAssumption
<1>1. TypeOK /\ Roster /\ Messages /\ Requests /\ Busy(queue, holding, slots)
  BY DEF IInv
<1>2. /\ msgs[w] # <<>> /\ holding[w] # Head(msgs[w]).id
      /\ msgs' = [msgs EXCEPT ![w] = Tail(@)]
      /\ slots' = slots /\ created' = created /\ holding' = holding /\ queue' = queue
      /\ outcome' = outcome /\ destroyed' = destroyed /\ aborted' = aborted
      /\ progress' = progress /\ life' = life /\ inbox' = inbox
  BY DEF OnStaleMessage
<1>3. msgs \in [Worker -> Seq(Reply)] /\ msgs[w] \in Seq(Reply)
  BY <1>1 DEF TypeOK
<1>4. w \notin slots
  <2> SUFFICES ASSUME w \in slots PROVE FALSE
    OBVIOUS
  <2>1. Exchange(holding[w], inbox[w], msgs[w])
    BY <1>1 DEF Messages
  <2>2. msgs[w][1].id = holding[w]
    BY <1>2, <2>1 DEF Exchange
  <2>3. Head(msgs[w]) = msgs[w][1]
    BY <1>2, <1>3
  <2> QED BY <1>2, <2>2, <2>3
<1>5. TypeOK'
  <2>1. msgs' \in [Worker -> Seq(Reply)]
    BY <1>2, <1>3
  <2> QED BY <1>1, <1>2, <2>1 DEF TypeOK
<1>6. Messages'
  <2>1. ASSUME NEW v \in Worker, NEW i \in DOMAIN msgs'[v]
        PROVE  msgs'[v][i].kind = IF msgs'[v][i].id \in Faulty THEN "error" ELSE "result"
    <3>1. CASE v = w
      <4>1. i + 1 \in DOMAIN msgs[v] /\ msgs'[v][i] = msgs[v][i + 1]
        BY <1>2, <1>3, <3>1
      <4> QED BY <4>1, <1>1 DEF Messages
    <3>2. CASE v # w
      BY <1>1, <1>2, <1>3, <3>2 DEF Messages
    <3> QED BY <3>1, <3>2
  <2>2. \A v \in slots' : Exchange(holding'[v], inbox'[v], msgs'[v])
    <3> SUFFICES ASSUME NEW v \in slots PROVE Exchange(holding[v], inbox[v], msgs'[v])
      BY <1>2
    <3>1. v # w /\ v \in Worker /\ Exchange(holding[v], inbox[v], msgs[v])
      BY <1>1, <1>4 DEF Messages, TypeOK
    <3> QED BY <1>2, <1>3, <3>1
  <2> QED BY <2>1, <2>2 DEF Messages
<1>7. Roster'
  <2>1. \A v \in Worker : v > created => inbox[v] = <<>> /\ msgs[v] = <<>>
    BY <1>1 DEF Roster
  <2>2. \A v \in Worker : v > created => inbox'[v] = <<>> /\ msgs'[v] = <<>>
    <3> SUFFICES ASSUME NEW v \in Worker, v > created
                 PROVE  inbox'[v] = <<>> /\ msgs'[v] = <<>>
      OBVIOUS
    <3>1. v # w /\ msgs[v] = <<>> /\ inbox[v] = <<>>
      BY <2>1, <1>2
    <3> QED BY <3>1, <1>2, <1>3
  <2> QED BY <2>2, <1>1, <1>2 DEF Roster
<1>8. Requests' /\ Busy(queue, holding, slots)'
  BY <1>1, <1>2 DEF Requests, Busy
<1> QED BY <1>4, <1>5, <1>6, <1>7, <1>8 DEF IInv

(* destroy() leaves no promise open: the queued and the running are all rejected. *)
LEMMA DestroyInv ==
  ASSUME IInv, Destroy
  PROVE  IInv'
<1> USE PoolAssumption
<1>1. TypeOK /\ Roster /\ Messages /\ Requests
  BY DEF IInv
<1>2. /\ ~destroyed /\ destroyed' = TRUE /\ queue' = <<>>
      /\ outcome' = Settle(outcome, Elems(queue) \cup {holding[w] : w \in slots}, "destroyed")
      /\ life' = [w \in Worker |-> IF w \in slots /\ life[w] = "up" THEN "stopping" ELSE life[w]]
      /\ slots' = slots /\ created' = created /\ holding' = holding
      /\ aborted' = aborted /\ progress' = progress /\ inbox' = inbox /\ msgs' = msgs
  BY DEF Destroy
<1>3. outcome \in [Task -> Outcomes] /\ life \in [Worker -> Lives] /\ queue \in Seq(Task)
  BY <1>1 DEF TypeOK
<1>4. Placed(queue, holding, outcome, slots)
  BY <1>1, <1>2 DEF Requests
<1>5. TypeOK'
  <2>1. outcome' \in [Task -> Outcomes]
    BY <1>2, <1>3 DEF Settle, Outcomes
  <2>2. life' \in [Worker -> Lives]
    BY <1>2, <1>3 DEF Lives
  <2>3. queue' \in Seq(Task)
    BY <1>2
  <2> QED BY <1>1, <1>2, <2>1, <2>2, <2>3 DEF TypeOK
<1>6. Roster'
  <2>1. \A w \in Worker : life'[w] = "unborn" <=> life[w] = "unborn"
    BY <1>2
  <2>2. \A w \in Worker : life'[w] \in {"up", "stopping"} <=> life[w] \in {"up", "stopping"}
    BY <1>2
  <2> QED BY <1>1, <1>2, <2>1, <2>2 DEF Roster
<1>7. Messages'
  BY <1>1, <1>2 DEF Messages
<1>8. ASSUME NEW t \in Task PROVE outcome'[t] # "pending"
  <2>1. CASE outcome[t] = "pending"
    <3>1. t \in Elems(queue) \cup {holding[w] : w \in slots}
      <4>1. (\E i \in 1..Len(queue) : queue[i] = t) \/ (\E w \in slots : holding[w] = t)
        BY <1>4, <2>1, Zenon DEF Placed
      <4>2. DOMAIN queue = 1..Len(queue)
        BY <1>3
      <4>3. CASE \E w \in slots : holding[w] = t
        BY <4>3
      <4>4. CASE \E i \in 1..Len(queue) : queue[i] = t
        <5>1. PICK i \in DOMAIN queue : queue[i] = t
          BY <4>2, <4>4
        <5>2. t \in Elems(queue)
          BY <5>1, Zenon DEF Elems
        <5> QED BY <5>2
      <4> QED BY <4>1, <4>3, <4>4
    <3> QED BY <1>2, <1>3, <2>1, <3>1 DEF Settle
  <2>2. CASE outcome[t] # "pending"
    BY <1>2, <1>3, <2>2 DEF Settle
  <2> QED BY <2>1, <2>2
<1>9. Requests' /\ Busy(queue, holding, slots)'
  BY <1>2, <1>8 DEF Requests, Busy
<1> QED BY <1>5, <1>6, <1>7, <1>9 DEF IInv

(* destroy() empties the pool only when every one of its threads is gone. *)
LEMMA DestroyDoneInv ==
  ASSUME IInv, DestroyDone
  PROVE  IInv'
<1>1. TypeOK /\ Roster /\ Messages /\ Requests
  BY DEF IInv
<1>2. /\ destroyed /\ slots' = {} /\ \A w \in slots : life[w] = "gone"
      /\ created' = created /\ holding' = holding /\ queue' = queue /\ outcome' = outcome
      /\ destroyed' = destroyed /\ aborted' = aborted /\ progress' = progress
      /\ life' = life /\ inbox' = inbox /\ msgs' = msgs
  BY DEF DestroyDone
<1>3. TypeOK' /\ Messages' /\ Requests' /\ Busy(queue, holding, slots)'
  BY <1>1, <1>2 DEF TypeOK, Messages, Requests, Busy
<1>4. Roster'
  <2>1. \A w \in Worker : life[w] \notin {"up", "stopping"}
    BY <1>1, <1>2 DEF Roster
  <2> QED BY <1>1, <1>2, <2>1 DEF Roster
<1> QED BY <1>3, <1>4 DEF IInv

(* A thread answers only the request its slot holds. *)
LEMMA AnswerInv ==
  ASSUME IInv, NEW w \in Worker, Answer(w)
  PROVE  IInv'
<1> DEFINE t == Head(inbox[w])
           r == [id |-> t, kind |-> IF t \in Faulty THEN "error" ELSE "result"]
<1>1. TypeOK /\ Roster /\ Messages /\ Requests /\ Busy(queue, holding, slots)
  BY DEF IInv
<1>2. /\ life[w] \in {"up", "stopping"} /\ inbox[w] # <<>>
      /\ msgs' = [msgs EXCEPT ![w] = Append(@, r)]
      /\ inbox' = [inbox EXCEPT ![w] = Tail(@)]
      /\ slots' = slots /\ created' = created /\ holding' = holding /\ queue' = queue
      /\ outcome' = outcome /\ destroyed' = destroyed /\ aborted' = aborted
      /\ progress' = progress /\ life' = life
  BY DEF Answer
<1>3. inbox \in [Worker -> Seq(Task)] /\ msgs \in [Worker -> Seq(Reply)] /\ slots \subseteq Worker
  BY <1>1 DEF TypeOK
<1>4. w \in slots /\ holding[w] # None /\ inbox[w] = <<holding[w]>> /\ msgs[w] = <<>>
  <2>1. w \in slots
    BY <1>1, <1>2 DEF Roster
  <2>2. Exchange(holding[w], inbox[w], msgs[w])
    BY <1>1, <2>1 DEF Messages
  <2> QED BY <1>2, <2>1, <2>2 DEF Exchange
<1>5. inbox'[w] = <<>> /\ msgs'[w] = <<r>> /\ t = holding[w] /\ t \in Task /\ r \in Reply
  <2>1. t = holding[w] /\ t \in Task
    <3>1. inbox[w] \in Seq(Task)
      BY <1>3
    <3> QED BY <1>4, <3>1
  <2>2. r \in Reply
    BY <2>1 DEF Reply
  <2> HIDE DEF r
  <2>3. inbox'[w] = Tail(<<holding[w]>>) /\ msgs'[w] = Append(<<>>, r)
    BY <1>2, <1>3, <1>4
  <2> QED BY <2>1, <2>2, <2>3
<1>6. r.id = t /\ r.kind = IF r.id \in Faulty THEN "error" ELSE "result"
  OBVIOUS
<1> HIDE DEF r, t
<1>7. /\ inbox' \in [Worker -> Seq(Task)] /\ msgs' \in [Worker -> Seq(Reply)]
      /\ \A v \in Worker : v # w => inbox'[v] = inbox[v] /\ msgs'[v] = msgs[v]
  <2>1. Tail(inbox[w]) \in Seq(Task) /\ Append(msgs[w], r) \in Seq(Reply)
    BY <1>2, <1>3, <1>5
  <2> QED BY <1>2, <1>3, <2>1
<1>8. TypeOK'
  BY <1>1, <1>2, <1>7 DEF TypeOK
<1>9. Roster'
  <2>1. ~(w > created)
    BY <1>1, <1>2 DEF Roster
  <2> QED BY <1>1, <1>2, <1>7, <2>1 DEF Roster
<1>10. Messages'
  <2>1. \A v \in slots' : Exchange(holding'[v], inbox'[v], msgs'[v])
    <3> SUFFICES ASSUME NEW v \in slots PROVE Exchange(holding[v], inbox'[v], msgs'[v])
      BY <1>2
    <3>1. CASE v = w
      BY <3>1, <1>4, <1>5, <1>6 DEF Exchange
    <3>2. CASE v # w
      BY <3>2, <1>1, <1>3, <1>7 DEF Messages
    <3> QED BY <3>1, <3>2
  <2>2. \A v \in Worker : \A i \in DOMAIN msgs'[v] :
          msgs'[v][i].kind = IF msgs'[v][i].id \in Faulty THEN "error" ELSE "result"
    <3> SUFFICES ASSUME NEW v \in Worker, NEW i \in DOMAIN msgs'[v]
                 PROVE  msgs'[v][i].kind = IF msgs'[v][i].id \in Faulty THEN "error" ELSE "result"
      OBVIOUS
    <3>1. CASE v = w
      <4>1. msgs'[v][i] = r
        BY <3>1, <1>5
      <4> QED BY <4>1, <1>6
    <3>2. CASE v # w
      BY <3>2, <1>1, <1>7 DEF Messages
    <3> QED BY <3>1, <3>2
  <2> QED BY <2>1, <2>2 DEF Messages
<1>11. Requests' /\ Busy(queue, holding, slots)'
  BY <1>1, <1>2 DEF Requests, Busy
<1> QED BY <1>8, <1>9, <1>10, <1>11 DEF IInv

(* A thread that dies takes what was posted to it along: its slot still holds the request, *)
(* so that the crash handler can reject it.  `next` is what becomes of the thread.         *)
LEMMA LoseInv ==
  ASSUME IInv, NEW w \in Worker, NEW next \in Lives \ {"unborn", "up", "stopping"},
         life[w] \in {"up", "stopping"},
         life' = [life EXCEPT ![w] = next], inbox' = [inbox EXCEPT ![w] = <<>>],
         UNCHANGED <<slots, created, holding, queue, outcome, destroyed, aborted, progress, msgs>>
  PROVE  IInv'
<1>1. TypeOK /\ Roster /\ Messages /\ Requests /\ Busy(queue, holding, slots)
  BY DEF IInv
<1>2. inbox \in [Worker -> Seq(Task)] /\ life \in [Worker -> Lives] /\ slots \subseteq Worker
  BY <1>1 DEF TypeOK
<1>3. inbox' \in [Worker -> Seq(Task)] /\ life' \in [Worker -> Lives]
  <2>1. <<>> \in Seq(Task)
    OBVIOUS
  <2> QED BY <1>2, <2>1
<1>4. TypeOK'
  BY <1>1, <1>3 DEF TypeOK
<1>5. Roster'
  <2>1. \A v \in Worker : life'[v] = "unborn" <=> life[v] = "unborn"
    BY <1>2
  <2>2. \A v \in Worker : life'[v] \in {"up", "stopping"} => life[v] \in {"up", "stopping"}
    BY <1>2
  <2>3. \A v \in Worker : inbox[v] = <<>> => inbox'[v] = <<>>
    BY <1>2
  <2> QED BY <1>1, <2>1, <2>2, <2>3 DEF Roster
<1>6. Messages'
  <2>1. ASSUME NEW v \in slots
        PROVE  Exchange(holding[v], inbox'[v], msgs[v])
    <3>1. Exchange(holding[v], inbox[v], msgs[v]) /\ (inbox'[v] = inbox[v] \/ inbox'[v] = <<>>)
      BY <1>1, <1>2 DEF Messages
    <3> QED BY <3>1 DEF Exchange
  <2> QED BY <1>1, <2>1 DEF Messages
<1>7. Requests' /\ Busy(queue, holding, slots)'
  BY <1>1 DEF Requests, Busy
<1> QED BY <1>4, <1>5, <1>6, <1>7 DEF IInv

(* terminate() on a busy slot only starts the thread's end. *)
LEMMA CrashBusyInv ==
  ASSUME IInv, NEW w \in Worker, CrashBusyWorkerForTest(w)
  PROVE  IInv'
<1>1. TypeOK /\ Roster /\ Messages /\ Requests /\ Busy(queue, holding, slots)
  BY DEF IInv
<1>2. /\ w \in slots /\ life[w] = "up" /\ life' = [life EXCEPT ![w] = "stopping"]
      /\ slots' = slots /\ created' = created /\ holding' = holding /\ queue' = queue
      /\ outcome' = outcome /\ destroyed' = destroyed /\ aborted' = aborted
      /\ progress' = progress /\ inbox' = inbox /\ msgs' = msgs
  BY DEF CrashBusyWorkerForTest
<1>3. TypeOK'
  BY <1>1, <1>2 DEF TypeOK, Lives
<1>4. Roster'
  <2>1. life \in [Worker -> Lives]
    BY <1>1 DEF TypeOK
  <2>2. \A v \in Worker : life'[v] = "unborn" <=> life[v] = "unborn"
    BY <1>2, <2>1
  <2>3. \A v \in Worker : life'[v] \in {"up", "stopping"} => life[v] \in {"up", "stopping"}
    BY <1>2, <2>1
  <2> QED BY <1>1, <1>2, <2>2, <2>3 DEF Roster
<1>5. Messages' /\ Requests' /\ Busy(queue, holding, slots)'
  BY <1>1, <1>2 DEF Messages, Requests, Busy
<1> QED BY <1>3, <1>4, <1>5 DEF IInv

--------------------------------------------------------------------------------
(* Every step of the pool, its callers and its threads keeps the invariant. *)
LEMMA NextInv ==
  ASSUME IInv, [Next]_vars
  PROVE  IInv'
<1>1. ASSUME NEW c \in Call, RunMany(c) PROVE IInv'
  BY <1>1, RunManyInv
<1>2. ASSUME NEW c \in Call, Refuse(c) PROVE IInv'
  BY <1>2, RefuseInv
<1>3. ASSUME NEW c \in Call, Abort(c) PROVE IInv'
  <2>1. /\ aborted' \subseteq Call
        /\ slots' = slots /\ created' = created /\ holding' = holding /\ queue' = queue
        /\ outcome' = outcome /\ destroyed' = destroyed /\ progress' = progress
        /\ life' = life /\ inbox' = inbox /\ msgs' = msgs
    BY <1>3 DEF Abort, IInv, TypeOK
  <2>2. TypeOK'
    BY <2>1 DEF IInv, TypeOK
  <2>3. Roster' /\ Messages' /\ Requests' /\ Busy(queue, holding, slots)'
    BY <2>1 DEF IInv, Roster, Messages, Requests, Busy
  <2> QED BY <2>2, <2>3 DEF IInv
<1>4. ASSUME NEW w \in Worker, OnMessage(w) PROVE IInv'
  BY <1>4, OnMessageInv
<1>5. ASSUME NEW w \in Worker, OnStaleMessage(w) PROVE IInv'
  BY <1>5, OnStaleMessageInv
<1>6. ASSUME NEW w \in Worker, OnError(w) PROVE IInv'
  BY <1>6, OnCrashInv DEF OnError
<1>7. ASSUME NEW w \in Worker, OnExit(w) PROVE IInv'
  BY <1>7, OnCrashInv DEF OnExit
<1>8. ASSUME NEW w \in Worker, Answer(w) PROVE IInv'
  BY <1>8, AnswerInv
<1>9. ASSUME NEW w \in Worker, Crash(w) PROVE IInv'
  <2>1. PICK l \in {"errored", "exiting"} : life' = [life EXCEPT ![w] = l]
    BY <1>9 DEF Crash
  <2>2. l \in Lives \ {"unborn", "up", "stopping"}
    BY DEF Lives
  <2> QED BY <1>9, <2>1, <2>2, LoseInv DEF Crash
<1>10. ASSUME NEW w \in Worker, CrashBusyWorkerForTest(w) PROVE IInv'
  BY <1>10, CrashBusyInv
<1>11. ASSUME NEW w \in Worker, Stop(w) PROVE IInv'
  <2>1. "exiting" \in Lives \ {"unborn", "up", "stopping"}
    BY DEF Lives
  <2> QED BY <1>11, <2>1, LoseInv DEF Stop
<1>12. CASE Destroy
  BY <1>12, DestroyInv
<1>13. CASE DestroyDone
  BY <1>13, DestroyDoneInv
<1>14. CASE UNCHANGED vars
  <2>1. /\ slots' = slots /\ created' = created /\ holding' = holding /\ queue' = queue
        /\ outcome' = outcome /\ destroyed' = destroyed /\ aborted' = aborted
        /\ progress' = progress /\ life' = life /\ inbox' = inbox /\ msgs' = msgs
    BY <1>14 DEF vars
  <2>2. TypeOK'
    BY <2>1 DEF IInv, TypeOK
  <2>3. Roster' /\ Messages' /\ Requests' /\ Busy(queue, holding, slots)'
    BY <2>1 DEF IInv, Roster, Messages, Requests, Busy
  <2> QED BY <2>2, <2>3 DEF IInv
<1> QED
  BY <1>1, <1>2, <1>3, <1>4, <1>5, <1>6, <1>7, <1>8, <1>9, <1>10, <1>11, <1>12, <1>13, <1>14
  DEF Next, Events, Threads

(* The invariant holds in every reachable state. *)
LEMMA Invariance == Spec => []IInv
<1>1. Init => IInv
  BY InitInv
<1>2. IInv /\ [Next]_vars => IInv'
  BY NextInv
<1> QED BY <1>1, <1>2, PTL DEF Spec

--------------------------------------------------------------------------------
(* Every variable of the pool keeps its type. *)
THEOREM TypeCorrect == Spec => []TypeOK
<1>1. IInv => TypeOK
  BY DEF IInv
<1> QED BY <1>1, Invariance, PTL

(* The invariant says where every request is: an open promise has its request in exactly  *)
(* one place, a settled one in none, except that destroy() leaves the running in place.   *)
LEMMA PlacedOnce ==
  ASSUME IInv
  PROVE  NoTaskLost
<1> USE PoolAssumption
<1>1. TypeOK /\ Requests
  BY DEF IInv
<1>2. queue \in Seq(Task) /\ DOMAIN queue = 1..Len(queue)
  BY <1>1 DEF TypeOK
<1> SUFFICES ASSUME NEW t \in Task
             PROVE  LET waiting == {i \in DOMAIN queue : queue[i] = t}
                        holders == {w \in slots : holding[w] = t}
                    IN IF outcome[t] = "pending"
                       THEN \/ holders = {} /\ \E i \in DOMAIN queue : waiting = {i}
                            \/ waiting = {} /\ \E w \in slots : holders = {w}
                       ELSE waiting = {} /\ (holders = {} \/ destroyed)
  BY DEF NoTaskLost
<1> DEFINE waiting == {i \in DOMAIN queue : queue[i] = t}
           holders == {w \in slots : holding[w] = t}
<1>3. CASE destroyed
  <2>1. outcome[t] # "pending" /\ queue = <<>>
    BY <1>1, <1>3 DEF Requests
  <2> QED BY <2>1, <1>3
<1>4. CASE ~destroyed
  <2>1. Placed(queue, holding, outcome, slots) /\ t # None
    BY <1>1, <1>4 DEF Requests
  <2>2. CASE outcome[t] # "pending"
    <3>1. waiting = {} /\ holders = {}
      BY <1>2, <2>1, <2>2 DEF Placed
    <3> QED BY <2>2, <3>1
  <2>3. CASE outcome[t] = "pending" /\ \E i \in 1..Len(queue) : queue[i] = t
    <3>1. PICK i \in DOMAIN queue : queue[i] = t
      BY <2>3, <1>2
    <3>2. waiting = {i}
      BY <3>1, <1>2, <2>1 DEF Placed
    <3>3. holders = {}
      BY <3>1, <1>2, <2>1 DEF Placed
    <3> QED BY <2>3, <3>2, <3>3
  <2>4. CASE outcome[t] = "pending" /\ ~\E i \in 1..Len(queue) : queue[i] = t
    <3>1. PICK w \in slots : holding[w] = t
      BY <2>1, <2>4 DEF Placed
    <3>2. holders = {w}
      BY <3>1, <2>1 DEF Placed
    <3>3. waiting = {}
      BY <1>2, <2>4
    <3> QED BY <2>4, <3>2, <3>3
  <2> QED BY <2>2, <2>3, <2>4
<1> QED BY <1>3, <1>4

(* No request is lost and none is in two places, whatever threads die. *)
THEOREM NothingLost == Spec => []NoTaskLost
BY PlacedOnce, Invariance, PTL

(* No request ever waits beside an idle slot when a handler has returned. *)
THEOREM AlwaysConserving == Spec => []WorkConserving
<1>1. IInv => WorkConserving
  BY DEF IInv, Busy, WorkConserving
<1> QED BY <1>1, Invariance, PTL

(* However many threads die, the pool has Size slots until it is destroyed, and every     *)
(* running thread belongs to it.                                                          *)
THEOREM SizeKept == Spec => []PoolSizeKept
<1>1. IInv => PoolSizeKept
  BY DEF IInv, Roster, PoolSizeKept
<1> QED BY <1>1, Invariance, PTL

(* The id check of onMessage only drops replies on slots already replaced. *)
THEOREM NeverStale == Spec => []LiveSlotNeverStale
<1>1. IInv => LiveSlotNeverStale
  <2> SUFFICES ASSUME IInv, NEW w \in slots, NEW i \in DOMAIN msgs[w]
               PROVE  msgs[w][i].id = holding[w]
    BY DEF LiveSlotNeverStale
  <2>1. Exchange(holding[w], inbox[w], msgs[w])
    BY DEF IInv, Messages
  <2>2. msgs[w] \in Seq(Reply)
    BY DEF IInv, TypeOK
  <2>3. Len(msgs[w]) = 1 /\ msgs[w][1].id = holding[w]
    BY <2>1, <2>2 DEF Exchange
  <2>4. i = 1
    BY <2>2, <2>3
  <2> QED BY <2>3, <2>4
<1> QED BY <1>1, Invariance, PTL

(* No slot, in the pool or replaced, holds a request that is still queued. *)
LEMMA QueuedNotHeld ==
  ASSUME IInv, NEW t \in Elems(queue), NEW w \in Worker
  PROVE  t \in Task /\ holding[w] # t
<1> USE PoolAssumption
<1>1. queue \in Seq(Task) /\ Requests
  BY DEF IInv, TypeOK
<1>2. PICK i \in 1..Len(queue) : queue[i] = t
  <2>1. DOMAIN queue = 1..Len(queue)
    BY <1>1
  <2> QED BY <2>1, Zenon DEF Elems
<1>3. t \in Task /\ queue # <<>>
  BY <1>1, <1>2
<1>4. Placed(queue, holding, outcome, slots) /\ \A v \in Worker \ slots : holding[v] = None
  BY <1>1, <1>3 DEF Requests
<1>5. CASE w \in slots
  BY <1>2, <1>3, <1>4, <1>5 DEF Placed
<1>6. CASE w \notin slots
  BY <1>3, <1>4, <1>6
<1> QED BY <1>3, <1>5, <1>6

(* A step never gives a slot a queued request whose signal has fired. *)
LEMMA NoAbortedStart ==
  ASSUME IInv, [Next]_vars, NEW t \in Elems(queue), Owner(t) \in aborted, NEW w \in Worker
  PROVE  holding'[w] # t
<1> USE PoolAssumption
<1>1. t \in Task /\ holding[w] # t /\ t # None /\ ~Live(t)
  BY QueuedNotHeld DEF Live
<1>2. /\ slots \in SUBSET Worker /\ holding \in [Worker -> Task \cup {None}]
      /\ queue \in Seq(Task) /\ inbox \in [Worker -> Seq(Task)] /\ slots' \in SUBSET Worker
  BY NextInv DEF IInv, TypeOK
<1>3. ASSUME NEW q \in Seq(Task), NEW held \in [Worker -> Task \cup {None}], NEW out,
             held[w] # t, Pump(q, held, out)
      PROVE  holding'[w] # t
  <2>1. \/ holding'[w] = held[w]
        \/ Live(holding'[w])
    BY <1>2, <1>3, PumpSlots
  <2> QED BY <1>1, <1>3, <2>1
<1>4. CASE holding' = holding
  BY <1>1, <1>4
<1>5. ASSUME NEW c \in Call, RunMany(c) PROVE holding'[w] # t
  <2>1. queue \o Reqs[c] \in Seq(Task)
    BY <1>2
  <2>2. Pump(queue \o Reqs[c], holding, Push(c))
    BY <1>5 DEF RunMany
  <2> QED BY <1>1, <1>2, <1>3, <2>1, <2>2
<1>6. ASSUME NEW v \in Worker, NEW out, Pump(queue, [holding EXCEPT ![v] = None], out)
      PROVE  holding'[w] # t
  <2> DEFINE held == [holding EXCEPT ![v] = None]
  <2>1. held \in [Worker -> Task \cup {None}] /\ held[w] # t
    BY <1>1, <1>2
  <2> HIDE DEF held
  <2> QED BY <1>2, <1>3, <1>6, <2>1 DEF held
<1>7. ASSUME NEW v \in Worker, OnMessage(v) PROVE holding'[w] # t
  BY <1>6, <1>7 DEF OnMessage
<1>8. ASSUME NEW v \in Worker, NEW after, OnCrash(v, after) PROVE holding'[w] # t
  BY <1>4, <1>6, <1>8 DEF OnCrash
<1>9. CASE \E c \in Call : RunMany(c) \/ Refuse(c) \/ Abort(c)
  BY <1>4, <1>5, <1>9 DEF Refuse, Abort
<1>10. ASSUME NEW v \in Worker, Events(v) \/ Threads(v) PROVE holding'[w] # t
  <2>1. CASE OnStaleMessage(v) \/ Answer(v) \/ Crash(v) \/ CrashBusyWorkerForTest(v) \/ Stop(v)
    BY <1>4, <2>1 DEF OnStaleMessage, Answer, Crash, CrashBusyWorkerForTest, Stop
  <2>2. CASE OnError(v) \/ OnExit(v)
    BY <1>8, <2>2 DEF OnError, OnExit
  <2> QED BY <1>7, <1>10, <2>1, <2>2 DEF Events, Threads
<1>11. CASE Destroy \/ DestroyDone
  BY <1>4, <1>11 DEF Destroy, DestroyDone
<1>12. CASE UNCHANGED vars
  BY <1>4, <1>12 DEF vars
<1> QED BY <1>9, <1>10, <1>11, <1>12 DEF Next

(* Once its signal has fired, a request that waits is never started. *)
THEOREM AbortedStaysOut == Spec => AbortedNeverStarts
<1>1. IInv /\ [Next]_vars =>
        [\A t \in Elems(queue) : Owner(t) \in aborted => \A w \in Worker : holding'[w] # t]_vars
  BY NoAbortedStart
<1> QED BY <1>1, Invariance, PTL DEF Spec, AbortedNeverStarts

--------------------------------------------------------------------------------
(* The pool implements PoolContract: each of its steps is one of the contract's or none of *)
(* the callers' business.                                                                 *)
Kept == [Contract!Next]_<<outcome, aborted, destroyed>>

LEMMA Owners ==
  /\ \A t \in Task : Owner(t) \in Call /\ t \in Contract!Requests(Owner(t))
  /\ \A c \in Call : \A t \in Elems(Reqs[c]) : Owner(t) = c
  /\ \A c \in Call : Contract!Requests(c) = Elems(Reqs[c]) /\ Elems(Reqs[c]) \subseteq Task
<1>1. \A c \in Call : Contract!Requests(c) = Elems(Reqs[c]) /\ Elems(Reqs[c]) \subseteq Task
  BY PoolAssumption DEF Contract!Requests, Elems
<1>2. \A t \in Task : \E c \in Call : t \in Elems(Reqs[c])
  BY PoolAssumption DEF Elems
<1>3. \A c, d \in Call : \A t \in Elems(Reqs[c]) : t \in Elems(Reqs[d]) => d = c
  BY PoolAssumption DEF Elems
<1> QED BY <1>1, <1>2, <1>3 DEF Owner

(* pump() settles nothing but requests whose signal has fired. *)
LEMMA PumpOutcome ==
  ASSUME NEW q \in Seq(Task), NEW held \in [Worker -> Task \cup {None}],
         NEW out \in [Task -> Outcomes], Pump(q, held, out)
  PROVE  \A t \in Task : \/ outcome'[t] = out[t]
                         \/ out[t] = "pending" /\ outcome'[t] = "aborted" /\ ~Live(t)
BY Zenon DEF Pump, Settle

(* pump() behind a queue that waits, or on requests none of which is aborted, settles none. *)
LEMMA RunManyOutcome ==
  ASSUME IInv, NEW c \in Call, RunMany(c)
  PROVE  outcome' = Push(c)
<1> USE PoolAssumption
<1> DEFINE q == queue \o Reqs[c]
           out == Push(c)
<1>1. /\ queue \in Seq(Task) /\ Reqs[c] \in Seq(Task) /\ q \in Seq(Task)
      /\ holding \in [Worker -> Task \cup {None}] /\ slots' = slots
      /\ c \notin aborted /\ Pump(q, holding, out) /\ Busy(queue, holding, slots)
  BY DEF IInv, TypeOK, RunMany
<1>2. out \in [Task -> Outcomes]
  BY DEF IInv, TypeOK, Push, Outcomes
<1> HIDE DEF out
<1>3. PICK n \in 0..Len(q), give \in [Idle(holding) -> Elems(q) \cup {None}] :
        /\ \A i \in 1..Len(q) : i <= n <=>
              Cardinality({j \in 1..(i - 1) : Live(q[j])}) < Cardinality(Idle(holding))
        /\ outcome' = Settle(out, {t \in {q[i] : i \in 1..n} : ~Live(t)}, "aborted")
  BY <1>1, Zenon DEF Pump
<1>4. ASSUME NEW i \in 1..n PROVE Live(q[i])
  <2>1. CASE queue = <<>>
    <3>1. q[i] \in Elems(Reqs[c])
      BY <1>1, <2>1 DEF Elems
    <3> QED BY <1>1, <3>1, Owners DEF Live
  <2>2. CASE queue # <<>>
    <3>1. Idle(holding) = {} /\ 1 \in 1..Len(q)
      BY <1>1, <2>2 DEF Busy, Idle
    <3>2. {j \in 1..(1 - 1) : Live(q[j])} = {}
      OBVIOUS
    <3>3. ~ (1 <= n)
      BY <1>3, <3>1, <3>2, FS_EmptySet
    <3> QED BY <3>3
  <2> QED BY <2>1, <2>2
<1>5. {t \in {q[i] : i \in 1..n} : ~Live(t)} = {}
  BY <1>4
<1>6. outcome' = Settle(out, {}, "aborted")
  BY <1>3, <1>5
<1>7. outcome' = out
  BY <1>2, <1>6 DEF Settle
<1> QED BY <1>7 DEF out

LEMMA Submits ==
  ASSUME IInv, NEW c \in Call, RunMany(c) \/ Refuse(c)
  PROVE  Contract!Submit(c)
<1>1. /\ \A t \in Contract!Requests(c) : outcome[t] = "new"
      /\ UNCHANGED <<aborted, destroyed>>
  BY Owners DEF RunMany, Refuse, Fresh
<1>2. CASE RunMany(c)
  <2>1. outcome' = [t \in Task |-> IF t \in Contract!Requests(c) THEN "pending" ELSE outcome[t]]
    BY <1>2, RunManyOutcome, Owners DEF Push
  <2>2. destroyed = FALSE /\ c \notin aborted
    BY <1>2 DEF RunMany, IInv, TypeOK
  <2> QED BY <1>1, <2>1, <2>2 DEF Contract!Submit
<1>3. CASE Refuse(c)
  <2> DEFINE k == IF destroyed THEN "destroyed" ELSE "aborted"
  <2>1. outcome' = [t \in Task |-> IF t \in Contract!Requests(c) THEN k ELSE outcome[t]]
    BY <1>3, Owners DEF Refuse, Settle, Push
  <2>2. /\ destroyed <=> k = "destroyed"
        /\ k = "aborted" => c \in aborted
    BY <1>3 DEF Refuse
  <2> QED BY <1>1, <2>1, <2>2 DEF Contract!Submit
<1> QED BY <1>2, <1>3

(* A slot is freed and the queue pumped: at most the request it held gets an answer. *)
LEMMA Settles ==
  ASSUME IInv, NEW q \in Seq(Task), NEW held \in [Worker -> Task \cup {None}],
         NEW u, NEW k, u \in Task => k \in Contract!Answers(u) \cap Outcomes,
         Pump(q, held, Settle(outcome, {u}, k)), UNCHANGED <<aborted, destroyed>>
  PROVE  Contract!Settle
<1> DEFINE out == Settle(outcome, {u}, k)
<1>1. outcome \in [Task -> Outcomes] /\ aborted \subseteq Call
  BY DEF IInv, TypeOK
<1>2. /\ out \in [Task -> Outcomes]
      /\ \A t \in Task : out[t] = IF t = u /\ outcome[t] = "pending" THEN k ELSE outcome[t]
  BY <1>1 DEF Settle
<1> HIDE DEF out
<1>3. \A t \in Task : \/ outcome'[t] = out[t]
                      \/ out[t] = "pending" /\ outcome'[t] = "aborted" /\ ~Live(t)
  <2>1. Pump(q, held, out)
    BY DEF out
  <2> QED BY <1>2, <2>1, PumpOutcome
<1>4. u \in Task => k # "pending" /\ k \in Contract!Answers(u)
  BY DEF Contract!Answers
<1>5. ASSUME NEW t \in Task, outcome'[t] # outcome[t]
      PROVE  /\ outcome[t] = "pending"
             /\ \/ t = u /\ outcome'[t] \in Contract!Answers(t)
                \/ outcome'[t] = "aborted" /\ \E c \in aborted : t \in Contract!Requests(c)
  <2>1. CASE outcome'[t] = out[t]
    BY <1>2, <1>4, <1>5, <2>1
  <2>2. CASE out[t] = "pending" /\ outcome'[t] = "aborted" /\ ~Live(t)
    BY <1>2, <1>4, <2>2, Owners DEF Live
  <2> QED BY <1>3, <2>1, <2>2
<1> QED BY <1>5 DEF Contract!Settle, Contract!Answered

LEMMA KeepsContractStep ==
  ASSUME IInv, [Next]_vars
  PROVE  Kept
<1> USE PoolAssumption
<1>1. /\ queue \in Seq(Task) /\ holding \in [Worker -> Task \cup {None}]
      /\ msgs \in [Worker -> Seq(Reply)] /\ outcome \in [Task -> Outcomes]
  BY DEF IInv, TypeOK
<1>2. UNCHANGED <<outcome, aborted, destroyed>> => Kept
  BY DEF Kept
<1>3. Contract!Settle => Kept
  BY DEF Kept, Contract!Next
<1>4. ASSUME NEW c \in Call, RunMany(c) \/ Refuse(c) PROVE Kept
  BY <1>4, Submits DEF Kept, Contract!Next
<1>5. ASSUME NEW c \in Call, Abort(c) PROVE Kept
  BY <1>5 DEF Abort, Kept, Contract!Next, Contract!Abort
<1>6. ASSUME NEW w \in Worker, OnMessage(w) PROVE Kept
  <2> DEFINE m == Head(msgs[w])
             k == OutcomeOf(m.kind)
             held == [holding EXCEPT ![w] = None]
  <2>1. /\ msgs[w] # <<>> /\ Pump(queue, held, Settle(outcome, {m.id}, k))
        /\ UNCHANGED <<aborted, destroyed>>
    BY <1>6 DEF OnMessage
  <2>2. m.kind = IF m.id \in Faulty THEN "error" ELSE "result"
    <3>1. 1 \in DOMAIN msgs[w] /\ m = msgs[w][1]
      BY <1>1, <2>1
    <3> QED BY <3>1 DEF IInv, Messages
  <2>3. k \in Contract!Answers(m.id) \cap Outcomes
    BY <2>2 DEF Contract!Answers, OutcomeOf, Outcomes
  <2>4. held \in [Worker -> Task \cup {None}]
    BY <1>1
  <2> HIDE DEF held, m, k
  <2> QED BY <1>1, <1>3, <2>1, <2>3, <2>4, Settles
<1>7. ASSUME NEW w \in Worker, NEW after, OnCrash(w, after) PROVE Kept
  <2> DEFINE held == [holding EXCEPT ![w] = None]
  <2>1. CASE Ignored(w)
    BY <1>2, <1>7, <2>1 DEF OnCrash
  <2>2. CASE ~Ignored(w)
    <3>1. /\ Pump(queue, held, Settle(outcome, {holding[w]}, "crashed"))
          /\ UNCHANGED <<aborted, destroyed>>
      BY <1>7, <2>2 DEF OnCrash
    <3>2. \A u : "crashed" \in Contract!Answers(u) \cap Outcomes
      BY DEF Contract!Answers, Outcomes
    <3>3. held \in [Worker -> Task \cup {None}]
      BY <1>1
    <3> HIDE DEF held
    <3> QED BY <1>1, <1>3, <3>1, <3>2, <3>3, Settles
  <2> QED BY <2>1, <2>2
<1>8. ASSUME NEW w \in Worker, Events(w) \/ Threads(w) PROVE Kept
  <2>1. CASE OnStaleMessage(w) \/ Answer(w) \/ Crash(w) \/ CrashBusyWorkerForTest(w) \/ Stop(w)
    BY <1>2, <2>1 DEF OnStaleMessage, Answer, Crash, CrashBusyWorkerForTest, Stop
  <2>2. CASE OnError(w) \/ OnExit(w)
    BY <1>7, <2>2 DEF OnError, OnExit
  <2> QED BY <1>6, <1>8, <2>1, <2>2 DEF Events, Threads
<1>9. CASE Destroy
  <2>1. /\ destroyed' = TRUE /\ UNCHANGED aborted /\ ~destroyed
        /\ outcome' = Settle(outcome, Elems(queue) \cup {holding[w] : w \in slots}, "destroyed")
    BY <1>9 DEF Destroy
  <2>2. \A t \in Task : outcome[t] = "pending" =>
          t \in Elems(queue) \cup {holding[w] : w \in slots}
    <3>1. Placed(queue, holding, outcome, slots)
      BY <2>1 DEF IInv, Requests
    <3>2. \A t \in Task : outcome[t] = "pending" =>
            (\E i \in 1..Len(queue) : queue[i] = t) \/ (\E w \in slots : holding[w] = t)
      BY <3>1 DEF Placed
    <3>3. \A i \in 1..Len(queue) : queue[i] \in Elems(queue)
      BY <1>1 DEF Elems
    <3> QED BY <3>2, <3>3
  <2>3. outcome' = [t \in Task |-> IF outcome[t] = "pending" THEN "destroyed" ELSE outcome[t]]
    BY <2>1, <2>2 DEF Settle
  <2> QED BY <2>1, <2>3 DEF Kept, Contract!Next, Contract!Destroy
<1>10. CASE DestroyDone
  BY <1>2, <1>10 DEF DestroyDone
<1>11. CASE UNCHANGED vars
  BY <1>2, <1>11 DEF vars
<1> QED BY <1>4, <1>5, <1>8, <1>9, <1>10, <1>11 DEF Next

(* The pool keeps the contract of its Pool interface: every request is settled at most      *)
(* once, by its own answer, a crash, its own signal or destroy(), and stays settled.       *)
THEOREM PoolImplementsContract == Spec => KeepsContract
<1>1. Init => Contract!Init
  BY DEF Init, Contract!Init
<1>2. IInv /\ [Next]_vars => Kept
  BY KeepsContractStep
<1> QED BY <1>1, <1>2, Invariance, PTL
        DEF Spec, KeepsContract, Contract!Spec, Contract!vars, Kept
================================================================================
