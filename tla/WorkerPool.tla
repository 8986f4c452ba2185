------------------------------- MODULE WorkerPool -------------------------------
(* The worker-thread pool of apps/web/lib/pool.ts.  The main thread runs one handler to  *)
(* completion at a time (run/runMany, a worker's 'message', 'error' or 'exit' event,     *)
(* destroy), so each handler is one action.  The threads (sim.node.worker.mjs) take      *)
(* requests and post replies concurrently; they may die at any moment, and the main      *)
(* thread learns of it only through the events still on their way.                       *)
(*                                                                                       *)
(* A slot is identified with the thread it was spawned with (spawn(), 106-121, creates   *)
(* both together).  slot.busy and slot.task are assigned together on every slot of the   *)
(* pool, so "busy" is holding[w] # None.  A replacement is pushed at the end of           *)
(* this.slots, so the array is in the order of the threads' numbers and a set will do.   *)
EXTENDS Integers, Sequences, FiniteSets

CONSTANTS Task,     \* requests (a task's randomUUID and its payload)
          Faulty,   \* those simulate() answers with an EngineError
          Call,     \* invocations of run() (one request) or runMany()
          Signalled, \* those that pass an AbortSignal
          Reqs,     \* Reqs[c]: the sequence of requests of invocation c
          Size,     \* this.size
          MaxThreads, \* threads that can ever be created: bounds how many may die
          None      \* a slot without a task

ASSUME PoolAssumption ==
  /\ Size \in Nat \ {0} /\ MaxThreads \in Nat /\ Size <= MaxThreads
  /\ None \notin Task
  /\ Signalled \subseteq Call
  /\ Reqs \in [Call -> Seq(Task)]
  /\ \A c, d \in Call : \A i \in DOMAIN Reqs[c], j \in DOMAIN Reqs[d] :
        Reqs[c][i] = Reqs[d][j] => c = d /\ i = j
  /\ \A t \in Task : \E c \in Call : \E i \in DOMAIN Reqs[c] : Reqs[c][i] = t

VARIABLES slots,      \* this.slots
          created,    \* this.created: threads 1..created have been spawned
          holding,    \* slot.task, for every slot object ever created
          queue,      \* this.queue
          outcome,    \* how the promise of each request stands
          destroyed,  \* this.destroyed
          aborted,    \* calls whose AbortSignal has fired
          progress,   \* runMany's `done`, the last value given to onProgress
          life,       \* what has become of each thread
          inbox,      \* requests posted to a thread and not yet taken by it
          msgs        \* replies a thread has posted, not yet delivered to onMessage

vars == <<slots, created, holding, queue, outcome, destroyed, aborted, progress, life, inbox, msgs>>

Worker == 1..MaxThreads
Elems(s) == {s[i] : i \in DOMAIN s}
Owner(t) == CHOOSE c \in Call : t \in Elems(Reqs[c])

Outcomes == {"new", "pending", "result", "engineError", "crashed", "aborted", "destroyed"}
Lives    == {"unborn", "up", "stopping", "errored", "exiting", "gone"}
Reply    == [id : Task, kind : {"result", "error"}]

TypeOK == /\ slots \subseteq Worker
          /\ created \in Nat
          /\ holding \in [Worker -> Task \cup {None}]
          /\ queue \in Seq(Task)
          /\ outcome \in [Task -> Outcomes]
          /\ destroyed \in BOOLEAN
          /\ aborted \subseteq Call
          /\ progress \in [Call -> Nat]
          /\ life \in [Worker -> Lives]
          /\ inbox \in [Worker -> Seq(Task)]
          /\ msgs \in [Worker -> Seq(Reply)]

Init == /\ slots = 1..Size
        /\ created = Size
        /\ holding = [w \in Worker |-> None]
        /\ queue = <<>>
        /\ outcome = [t \in Task |-> "new"]
        /\ destroyed = FALSE
        /\ aborted = {}
        /\ progress = [c \in Call |-> 0]
        /\ life = [w \in Worker |-> IF w <= Size THEN "up" ELSE "unborn"]
        /\ inbox = [w \in Worker |-> <<>>]
        /\ msgs = [w \in Worker |-> <<>>]

(* resolve() or reject() on a promise: only the first settlement counts. *)
Settle(out, S, k) == [t \in Task |-> IF t \in S /\ out[t] = "pending" THEN k ELSE out[t]]

--------------------------------------------------------------------------------
(* nextTask(), 164-174: is the request at the front dispatched or turned away? *)
LiveAnyway(t) == TRUE
Live(t) == Owner(t) \notin aborted

Occupied(held) == slots'
FirstIdle(held) == {w \in slots' : held[w] = None /\ \A v \in slots' : held[v] = None => v >= w}
Idle(held) == {w \in slots' : held[w] = None}

(* dispatch(), 176-185, once for each slot that `give` hands a request: the slot holds   *)
(* it and it is posted to the slot's thread.                                             *)
DispatchUnposted(held, give) ==
  /\ holding' = [w \in Worker |-> IF w \in DOMAIN give /\ give[w] # None
                                  THEN give[w] ELSE held[w]]
  /\ UNCHANGED inbox
Dispatch(held, give) ==
  /\ holding' = [w \in Worker |-> IF w \in DOMAIN give /\ give[w] # None
                                  THEN give[w] ELSE held[w]]
  /\ inbox' = [w \in Worker |-> IF w \in DOMAIN give /\ give[w] # None
                                THEN Append(inbox[w], give[w]) ELSE inbox[w]]

(* pump(), 187-194, on queue q once slot.task is `held` and the promises stand at `out`. *)
(* Entries leave the front of the queue, the aborted among them rejected, until every    *)
(* idle slot has a request or the queue is empty; the slots are served in the order of   *)
(* their creation.                                                                       *)
Pump(q, held, out) ==
  LET idle == Idle(held)
      Shifted(i) == Cardinality({j \in 1..(i - 1) : Live(q[j])}) < Cardinality(idle)
      Front(n) == {q[i] : i \in 1..n}
  IN \E n \in 0..Len(q), give \in [idle -> Elems(q) \cup {None}] :
       /\ \A i \in 1..Len(q) : i <= n <=> Shifted(i)
       /\ {give[w] : w \in idle} \ {None} = {t \in Front(n) : Live(t)}
       /\ \A v, w \in idle : v < w /\ give[w] # None =>
            \E i, j \in 1..n : i < j /\ give[v] = q[i] /\ give[w] = q[j]
       /\ queue' = SubSeq(q, n + 1, Len(q))
       /\ outcome' = Settle(out, {t \in Front(n) : ~Live(t)}, "aborted")
       /\ Dispatch(held, give)

--------------------------------------------------------------------------------
(* run() and runMany(), 196-222.  runMany() starts all its run()s in one turn, and each  *)
(* pump() hands the newest request to an idle slot only if none was waiting before it:   *)
(* together they push every request and pump.                                            *)
Push(c) == [t \in Task |-> IF t \in Elems(Reqs[c]) THEN "pending" ELSE outcome[t]]
Fresh(c) == \A t \in Elems(Reqs[c]) : outcome[t] = "new"

RunMany(c) ==
  /\ Fresh(c) /\ ~destroyed /\ c \notin aborted
  /\ UNCHANGED <<slots, created, destroyed, aborted, progress, life, msgs>>
  /\ Pump(queue \o Reqs[c], holding, Push(c))

Refuse(c) ==
  /\ Fresh(c)
  /\ destroyed \/ c \in aborted
  /\ outcome' = Settle(Push(c), Elems(Reqs[c]), IF destroyed THEN "destroyed" ELSE "aborted")
  /\ UNCHANGED <<slots, created, holding, queue, destroyed, aborted, progress, life, inbox, msgs>>

(* The caller's AbortController fires.  The pool registers no listener: the signal is    *)
(* read only by run() and nextTask().                                                    *)
Abort(c) ==
  /\ c \in Signalled \ aborted
  /\ aborted' = aborted \cup {c}
  /\ UNCHANGED <<slots, created, holding, queue, outcome, destroyed, progress, life, inbox, msgs>>

--------------------------------------------------------------------------------
(* onMessage() and settle(), 123-144.  A reply for anything but the task the slot holds  *)
(* is dropped.  A resolved run() of a runMany() advances `done` in the same turn; after  *)
(* destroy() the promise is already rejected and resolving it again does nothing.        *)
OutcomeOf(kind) == IF kind = "result" THEN "result" ELSE "engineError"

Advance(m) == IF m.kind = "result" /\ outcome[m.id] = "pending"
              THEN [progress EXCEPT ![Owner(m.id)] = @ + 1] ELSE progress

OnMessage(w) ==
  /\ msgs[w] # <<>>
  /\ LET m == Head(msgs[w]) IN
       /\ holding[w] = m.id
       /\ progress' = Advance(m)
       /\ UNCHANGED <<slots, created, destroyed, aborted, life>>
       /\ msgs' = [msgs EXCEPT ![w] = Tail(@)]
       /\ Pump(queue, [holding EXCEPT ![w] = None],
               Settle(outcome, {m.id}, OutcomeOf(m.kind)))

OnStaleMessage(w) ==
  /\ msgs[w] # <<>>
  /\ holding[w] # Head(msgs[w]).id
  /\ msgs' = [msgs EXCEPT ![w] = Tail(@)]
  /\ UNCHANGED <<slots, created, holding, queue, outcome, destroyed, aborted, progress, life, inbox>>

(* onCrash(), 146-162, for an 'error' or 'exit' event of thread w, after which w's life  *)
(* is `after`: ignored once the pool is destroyed or the slot has been replaced.         *)
(* Mutant of Ignored: 'error' and 'exit' of one thread are both answered. *)
IgnoredOnceDestroyed(w) == destroyed
Ignored(w) == destroyed \/ w \notin slots

OnCrashForgetful(w, after) ==
  /\ UNCHANGED <<destroyed, aborted, progress, msgs>>
  /\ \/ /\ destroyed \/ w \notin slots
        /\ life' = [life EXCEPT ![w] = after]
        /\ UNCHANGED <<slots, created, holding, queue, outcome, inbox>>
     \/ /\ ~destroyed /\ w \in slots
        /\ created < MaxThreads
        /\ created' = created + 1
        /\ slots' = (slots \ {w}) \cup {created'}
        /\ life' = [life EXCEPT ![w] = after, ![created'] = "up"]
        /\ Pump(queue, [holding EXCEPT ![w] = None], outcome)
OnCrash(w, after) ==
  /\ UNCHANGED <<destroyed, aborted, progress, msgs>>
  /\ \/ /\ Ignored(w)
        /\ life' = [life EXCEPT ![w] = after]
        /\ UNCHANGED <<slots, created, holding, queue, outcome, inbox>>
     \/ /\ ~Ignored(w)
        /\ created < MaxThreads
        /\ created' = created + 1
        /\ slots' = (slots \ {w}) \cup {created'}
        /\ life' = [life EXCEPT ![w] = after, ![created'] = "up"]
        /\ Pump(queue, [holding EXCEPT ![w] = None],
                Settle(outcome, {holding[w]}, "crashed"))

OnError(w) == life[w] = "errored" /\ OnCrash(w, "exiting")

(* Node drains a thread's messages before it emits 'exit'. *)
OnExit(w)  == life[w] = "exiting" /\ msgs[w] = <<>> /\ OnCrash(w, "gone")

(* destroy(), 232-240: the part before its await ... *)
DestroyQuietly ==
  /\ ~destroyed
  /\ destroyed' = TRUE
  /\ outcome' = Settle(outcome, Elems(queue), "destroyed")
  /\ queue' = <<>>
  /\ life' = [w \in Worker |-> IF w \in slots /\ life[w] = "up" THEN "stopping" ELSE life[w]]
  /\ UNCHANGED <<slots, created, holding, aborted, progress, inbox, msgs>>
Destroy ==
  /\ ~destroyed
  /\ destroyed' = TRUE
  /\ outcome' = Settle(outcome, Elems(queue) \cup {holding[w] : w \in slots}, "destroyed")
  /\ queue' = <<>>
  /\ life' = [w \in Worker |-> IF w \in slots /\ life[w] = "up" THEN "stopping" ELSE life[w]]
  /\ UNCHANGED <<slots, created, holding, aborted, progress, inbox, msgs>>

(* ... and the part after it, once every terminate() has resolved. *)
DestroyDone ==
  /\ destroyed /\ slots # {}
  /\ \A w \in slots : life[w] = "gone"
  /\ slots' = {}
  /\ UNCHANGED <<created, holding, queue, outcome, destroyed, aborted, progress, life, inbox, msgs>>

--------------------------------------------------------------------------------
(* The threads: sim.node.worker.mjs, 30-50.  A thread answers one request at a time; one *)
(* that has been told to terminate may still get a reply out before it stops.            *)
Answer(w) ==
  /\ life[w] \in {"up", "stopping"}
  /\ inbox[w] # <<>>
  /\ LET t == Head(inbox[w]) IN
       msgs' = [msgs EXCEPT ![w] =
                  Append(@, [id |-> t, kind |-> IF t \in Faulty THEN "error" ELSE "result"])]
  /\ inbox' = [inbox EXCEPT ![w] = Tail(@)]
  /\ UNCHANGED <<slots, created, holding, queue, outcome, destroyed, aborted, progress, life>>

(* There is a fresh thread for every slot whose thread is dying: the bound on crashes. *)
SpareThread ==
  MaxThreads - created > Cardinality({u \in slots : life[u] # "up"})

(* A thread dies of an uncaught error or memory exhaustion ('error', then 'exit') or     *)
(* just exits ('exit' alone), and what was posted to it is lost.                         *)
Crash(w) ==
  /\ life[w] = "up" /\ SpareThread
  /\ \E l \in {"errored", "exiting"} : life' = [life EXCEPT ![w] = l]
  /\ inbox' = [inbox EXCEPT ![w] = <<>>]
  /\ UNCHANGED <<slots, created, holding, queue, outcome, destroyed, aborted, progress, msgs>>

(* crashBusyWorkerForTest(), 225-230: terminate() on a slot that is mid-task. *)
CrashBusyWorkerForTest(w) ==
  /\ w \in slots /\ holding[w] # None
  /\ life[w] = "up" /\ SpareThread
  /\ life' = [life EXCEPT ![w] = "stopping"]
  /\ UNCHANGED <<slots, created, holding, queue, outcome, destroyed, aborted, progress, inbox, msgs>>

Stop(w) ==
  /\ life[w] = "stopping"
  /\ life' = [life EXCEPT ![w] = "exiting"]
  /\ inbox' = [inbox EXCEPT ![w] = <<>>]
  /\ UNCHANGED <<slots, created, holding, queue, outcome, destroyed, aborted, progress, msgs>>

--------------------------------------------------------------------------------
Events(w)  == OnMessage(w) \/ OnStaleMessage(w) \/ OnError(w) \/ OnExit(w)
Threads(w) == Answer(w) \/ Crash(w) \/ CrashBusyWorkerForTest(w) \/ Stop(w)

Next == \/ \E c \in Call : RunMany(c) \/ Refuse(c) \/ Abort(c)
        \/ \E w \in Worker : Events(w) \/ Threads(w)
        \/ Destroy \/ DestroyDone

(* Node delivers every event, simulate() terminates and terminate() takes effect.        *)
(* Nothing obliges a caller to abort or destroy, or a thread to die.                     *)
Fairness == /\ \A w \in Worker : WF_vars(Events(w)) /\ WF_vars(Answer(w)) /\ WF_vars(Stop(w))
            /\ WF_vars(DestroyDone)

Spec == Init /\ [][Next]_vars /\ Fairness

--------------------------------------------------------------------------------
(* No request is lost and none is run twice: a request whose promise is open is in       *)
(* exactly one place, once in the queue or in one slot; one whose promise is settled is  *)
(* in none, except that destroy() leaves the running ones in their slots.                *)
NoTaskLost ==
  \A t \in Task :
    LET waiting == {i \in DOMAIN queue : queue[i] = t}
        holders == {w \in slots : holding[w] = t}
    IN IF outcome[t] = "pending"
       THEN \/ holders = {} /\ \E i \in DOMAIN queue : waiting = {i}
            \/ waiting = {} /\ \E w \in slots : holders = {w}
       ELSE waiting = {} /\ (holders = {} \/ destroyed)

(* No handler returns with a request waiting beside an idle slot: whatever frees a slot  *)
(* (an answer, a crash replacement) or adds a request pumps.                             *)
WorkConserving == queue # <<>> => \A w \in slots : holding[w] # None

(* A crash is answered by exactly one replacement, though it may fire both 'error' and   *)
(* 'exit': the pool keeps its size, and no running thread is ever outside it.            *)
PoolSizeKept ==
  /\ ~destroyed => Cardinality(slots) = Size
  /\ {w \in Worker : life[w] \in {"up", "stopping"}} \subseteq slots

(* The id check of onMessage (129) only ever drops replies on slots already replaced: a  *)
(* slot of the pool never receives a reply to anything but the task it holds.            *)
LiveSlotNeverStale ==
  \A w \in slots : \A i \in DOMAIN msgs[w] : msgs[w][i].id = holding[w]

(* pool.test.ts, test 7: once its signal has fired, a waiting request never starts. *)
AbortedNeverStarts ==
  [][\A t \in Elems(queue) : Owner(t) \in aborted => \A w \in Worker : holding'[w] # t]_vars

(* Every promise the pool hands out is settled in the end, crashes, aborts and destroy() *)
(* included, and destroy() itself returns.                                               *)
DestroyReturns   == destroyed ~> slots = {}
EveryTaskSettles ==
  (\A t \in Task : outcome[t] = "pending" ~> outcome[t] # "pending") /\ DestroyReturns

(* The pool keeps the contract it offers its callers. *)
Contract == INSTANCE PoolContract
KeepsContract == Contract!Spec
================================================================================
