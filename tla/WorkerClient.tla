---------------------------- MODULE WorkerClient ----------------------------
(* The JavaScript client of the npm package (npm-src/client.js): requests    *)
(* are queued, one at a time is posted to a worker that is spawned on        *)
(* demand, and the worker is stopped by an abort of the running request, by  *)
(* a crash, by a progress callback that throws, or by an idle timer.         *)
(*                                                                           *)
(* JavaScript runs a handler to its end, so each handler is one action; what *)
(* interleaves is handlers, workers and the messages between them.  A        *)
(* handler's calls into spawnWorker, post and onProgress may throw, hence    *)
(* the operators below map the client to the SET of clients a call may       *)
(* leave.  They may also abort a signal: post, which reads the caller's      *)
(* payload, that of its own task (another request's abort there is the same  *)
(* as one just before or after).  A stopped worker is not dead at once: it may go on posting, and   *)
(* what it posted before may still arrive.                                   *)
EXTENDS Naturals, Sequences, FiniteSets, SequencesExt

CONSTANTS
    N,           \* the requests made; the code has no bound
    MaxCrashes   \* the workers that crash; the code has no bound

ASSUME RequestsAssumption == N \in Nat \ {0} /\ MaxCrashes \in Nat

Tasks == 1..N            \* a task's id is its place in the order of requests
Workers == 1..N          \* one kept worker at most per request
None == 0                \* undefined, of a task or of a worker

VARIABLES
    sequence,  \* the requests made so far
    client,    \* the closure's variables: queue, active, worker, idleTimer;
               \*   workers spawned, tasks with an abort listener, and the
               \*   calls made of each task's resolve or reject
    home,      \* the worker a task was posted to
    stage,     \* how far that worker came with it
    mail,      \* messages a worker posted that were not delivered yet
    crash      \* a worker's uncaught error: none, raised, seen by the client

vars == <<sequence, client, home, stage, mail, crash>>

Stages == {"none", "posted", "working", "result", "error"}
Outcomes == {"result", "error", "crashed", "unposted", "aborted", "threw"}

ClientTypeOK ==
    /\ sequence \in 0..N
    /\ client.queue \in Seq(Tasks) /\ Len(client.queue) <= N
    /\ client.active \in Tasks \cup {None}
    /\ client.spawned \in 0..N
    /\ client.worker \in 0..client.spawned
    /\ client.idleTimer \in BOOLEAN
    /\ client.listening \subseteq Tasks
    /\ client.settled \in [Tasks -> Seq(Outcomes)]
    /\ home \in [Tasks -> 0..client.spawned]
    /\ stage \in [Tasks -> Stages]
    /\ mail \in [Workers -> Seq([id : Tasks, kind : {"progress", "result", "error"}])]
    /\ crash \in [Workers -> {"none", "raised", "seen"}]

Init ==
    /\ sequence = 0
    /\ client = [queue |-> <<>>, active |-> None, worker |-> None, spawned |-> 0,
                 idleTimer |-> FALSE, listening |-> {},
                 settled |-> [t \in Tasks |-> <<>>]]
    /\ home = [t \in Tasks |-> None]
    /\ stage = [t \in Tasks |-> "none"]
    /\ mail = [w \in Workers |-> <<>>]
    /\ crash = [w \in Workers |-> "none"]

---------------------------------------------------------------------------
(* The client's functions. *)

StopWorker(c) == [c EXCEPT !.worker = None]

Settle(c, t, outcome) ==
    [c EXCEPT !.settled[t] = Append(@, outcome), !.listening = @ \ {t}]

(* The queue's head becomes active, on the worker there is or on a new one. *)
PostHead(c) ==
    LET fresh == c.worker = None
    IN  [c EXCEPT !.active = Head(c.queue), !.queue = Tail(@),
                  !.spawned = IF fresh THEN @ + 1 ELSE @,
                  !.worker = IF fresh THEN c.spawned + 1 ELSE @]

(* The first k tasks of the queue are not posted: post throws, or the reading *)
(* of the payload aborts the task's own signal.  Each stops the worker (one   *)
(* whose first post failed never did anything, and gets no number here) and  *)
(* is rejected once, by runNext or by abortTask, whose finish runs the rest   *)
(* of the queue within the post.  The next one is posted.                    *)
StartAfter(c, k, own) ==
    LET failed == {c.queue[i] : i \in 1..k}
        d == [c EXCEPT !.queue = SubSeq(@, k + 1, Len(@)),
                       !.worker = IF k = 0 THEN @ ELSE None,
                       !.idleTimer = FALSE,
                       !.listening = @ \ failed,
                       !.settled = [t \in Tasks |->
                           IF t \in failed
                           THEN Append(@[t], IF t \in own THEN "aborted" ELSE "unposted")
                           ELSE @[t]]]
    IN  IF d.queue = <<>> THEN d ELSE PostHead(d)

Starts(c) == {StartAfter(c, k, own) : k \in 0..Len(c.queue), own \in SUBSET c.listening}

StartPastActive(c) ==   \* mutant: `while (queue.length > 0)`, once
    IF c.queue = <<>> THEN {c} ELSE Starts(c)

RejectsAgain(c) ==   \* mutant: `if (active !== task) continue` is missing
    IF c.active # None \/ c.queue = <<>> THEN {c}
    ELSE {Settle(d, Head(c.queue), "unposted") :
             d \in {e \in Starts(c) : e.settled[Head(c.queue)] = <<"aborted">>}} \cup Starts(c)

RunNext(c) ==
    IF c.active # None \/ c.queue = <<>> THEN {c} ELSE Starts(c)

ArmAlways(c) == [c EXCEPT !.idleTimer = c.worker # None]   \* mutant

ArmIdleTimer(c) ==
    IF c.active = None /\ c.queue = <<>> /\ c.worker # None
    THEN [c EXCEPT !.idleTimer = TRUE] ELSE c

FinishAndWait(c, t, outcome) ==   \* mutant: the queue is not looked at again
    {ArmIdleTimer(Settle([c EXCEPT !.active = None], t, outcome))}

Finish(c, t, outcome) ==
    {ArmIdleTimer(d) : d \in RunNext(Settle([c EXCEPT !.active = None], t, outcome))}

(* queue.splice(index, 1), if the task is in the queue; it is there once. *)
Unqueued(queue, t) ==
    IF t \in ToSet(queue) THEN RemoveAt(queue, CHOOSE i \in DOMAIN queue : queue[i] = t) ELSE queue

AbortStopsWorker(c, t) ==   \* mutant: an abort stops the worker, queued or not
    IF c.active = t THEN Finish(StopWorker(c), t, "aborted")
    ELSE {Settle([StopWorker(c) EXCEPT !.queue = Unqueued(@, t)], t, "aborted")}

AbortLeavesInQueue(c, t) ==   \* mutant: the splice is missing
    IF c.active = t THEN Finish(StopWorker(c), t, "aborted")
    ELSE {Settle(c, t, "aborted")}

AbortTask(c, t) ==
    IF c.active = t THEN Finish(StopWorker(c), t, "aborted")
    ELSE {Settle([c EXCEPT !.queue = Unqueued(@, t)], t, "aborted")}

(* The caller's onProgress may abort a request, this one or another, and may *)
(* then return or throw.                                                     *)
AfterCallback(c) == {c} \cup UNION {AbortTask(c, u) : u \in c.listening}

FailCallback(c, t) ==
    IF c.active = t THEN Finish(StopWorker(c), t, "threw") ELSE {c}

ProgressSettles(c, t) ==   \* mutant: the return after a progress message is missing
    Finish(c, t, "progress")

Progress(c, t) ==
    UNION {{d} \cup FailCallback(d, t) : d \in AfterCallback(c)}

---------------------------------------------------------------------------
(* The events the client handles. *)

(* What the new client has posted, its worker is to work on. *)
Posted ==
    IF client'.active \notin {None, client.active}
    THEN /\ home' = [home EXCEPT ![client'.active] = client'.worker]
         /\ stage' = [stage EXCEPT ![client'.active] = "posted"]
    ELSE UNCHANGED <<home, stage>>

Request(aborted) ==
    LET t == sequence + 1
        c == [client EXCEPT !.queue = Append(@, t), !.listening = @ \cup {t}]
    IN  /\ t \in Tasks
        /\ sequence' = t
        /\ client' \in IF aborted THEN {Settle(client, t, "aborted")} ELSE RunNext(c)
        /\ Posted
        /\ UNCHANGED <<mail, crash>>

Abort(t) ==
    /\ t \in client.listening
    /\ client' \in AbortTask(client, t)
    /\ Posted
    /\ UNCHANGED <<sequence, mail, crash>>

AcceptAny(w, m) == client.active # None   \* mutant: neither worker nor id is compared

Accepts(w, m) == client.worker = w /\ client.active # None /\ m.id = client.active

Deliver(w) ==
    /\ mail[w] # <<>>
    /\ LET m == Head(mail[w])
       IN  client' \in IF ~Accepts(w, m) THEN {client}
                       ELSE IF m.kind = "progress" THEN Progress(client, client.active)
                       ELSE Finish(client, client.active, m.kind)
    /\ Posted
    /\ mail' = [mail EXCEPT ![w] = Tail(@)]
    /\ UNCHANGED <<sequence, crash>>

CrashOfAny(w) == TRUE   \* mutant: the listener does not ask whose error it is

CrashOfCurrent(w) == client.worker = w

(* Errors and messages of a worker travel on different ports: no order. *)
DeliverCrash(w) ==
    /\ crash[w] = "raised"
    /\ crash' = [crash EXCEPT ![w] = "seen"]
    /\ client' \in IF ~CrashOfCurrent(w) THEN {client}
                   ELSE IF client.active = None THEN {StopWorker(client)}
                   ELSE Finish(StopWorker(client), client.active, "crashed")
    /\ Posted
    /\ UNCHANGED <<sequence, mail>>

IdleTimeout ==
    /\ client.idleTimer
    /\ client' = [StopWorker(client) EXCEPT !.idleTimer = FALSE]
    /\ UNCHANGED <<sequence, home, stage, mail, crash>>

---------------------------------------------------------------------------
(* The worker (npm-src/worker-engine.js): a progress message at the start,   *)
(* then either an error, or another progress message and the result.         *)

Alive(w) == crash[w] = "none"

WorkerStart(t) ==
    /\ stage[t] = "posted" /\ Alive(home[t])
    /\ stage' = [stage EXCEPT ![t] = "working"]
    /\ mail' = [mail EXCEPT ![home[t]] = Append(@, [id |-> t, kind |-> "progress"])]
    /\ UNCHANGED <<sequence, client, home, crash>>

WorkerSucceed(t) ==
    /\ stage[t] = "working" /\ Alive(home[t])
    /\ stage' = [stage EXCEPT ![t] = "result"]
    /\ mail' = [mail EXCEPT ![home[t]] = @ \o <<[id |-> t, kind |-> "progress"],
                                                [id |-> t, kind |-> "result"]>>]
    /\ UNCHANGED <<sequence, client, home, crash>>

WorkerFail(t) ==
    /\ stage[t] = "working" /\ Alive(home[t])
    /\ stage' = [stage EXCEPT ![t] = "error"]
    /\ mail' = [mail EXCEPT ![home[t]] = Append(@, [id |-> t, kind |-> "error"])]
    /\ UNCHANGED <<sequence, client, home, crash>>

Crash(w) ==
    /\ w <= client.spawned /\ Alive(w)
    /\ Cardinality({v \in Workers : ~Alive(v)}) < MaxCrashes
    /\ crash' = [crash EXCEPT ![w] = "raised"]
    /\ UNCHANGED <<sequence, client, home, stage, mail>>

---------------------------------------------------------------------------
ClientStep ==
    \/ \E aborted \in BOOLEAN : Request(aborted)
    \/ \E t \in Tasks : Abort(t)
    \/ \E w \in Workers : Deliver(w) \/ DeliverCrash(w)
    \/ IdleTimeout

WorkerStep ==
    \/ \E t \in Tasks : WorkerStart(t) \/ WorkerSucceed(t) \/ WorkerFail(t)
    \/ \E w \in Workers : Crash(w)

Next == ClientStep \/ WorkerStep

(* The event loop delivers what was posted and fires the timer; a worker     *)
(* that has not been stopped reads its messages, and its operation ends.     *)
Serving(t) == home[t] = client.worker

Fairness ==
    /\ \A w \in Workers : WF_vars(Deliver(w)) /\ WF_vars(DeliverCrash(w))
    /\ WF_vars(IdleTimeout)
    /\ \A t \in Tasks :
        /\ WF_vars(Serving(t) /\ WorkerStart(t))
        /\ WF_vars(Serving(t) /\ (WorkerSucceed(t) \/ WorkerFail(t)))

Spec == Init /\ [][Next]_vars

FairSpec == Spec /\ Fairness

---------------------------------------------------------------------------
Settled(t) == client.settled[t] # <<>>
Made == 1..sequence

(* Every request made is answered or still waiting: it is active or queued,  *)
(* exactly while neither resolve nor reject was called, and neither is ever  *)
(* called again.  An abort, a crash, a failed post and a late answer all     *)
(* race for the same promise.                                                *)
NoRequestLost ==
    /\ {t \in Made : ~Settled(t)} = ({client.active} \ {None}) \cup ToSet(client.queue)
    /\ \A t \in Tasks : Len(client.settled[t]) <= 1

(* A request is given its own outcome: a result or an error only if its own  *)
(* worker reached it for this request, a crash only if its own worker        *)
(* crashed -- never what a stopped worker had left behind.                   *)
OutcomesAreOwn ==
    \A t \in Tasks : \A i \in 1..Len(client.settled[t]) :
        LET o == client.settled[t][i]
        IN  /\ o \in {"result", "error"} => stage[t] = o
            /\ o = "crashed" => home[t] # None /\ crash[home[t]] = "seen"

(* A worker has one operation at a time: the client posts the next one only  *)
(* when the worker is through with the last (worker-engine.js handles each   *)
(* message in an asynchronous function, so two would interleave).            *)
OneOperationPerWorker ==
    \A t, u \in Tasks :
        (t # u /\ {stage[t], stage[u]} \subseteq {"posted", "working"})
            => home[t] # home[u]

(* The idle timer runs exactly when it may stop the worker: never while      *)
(* there is work to do, and always when a live worker has nothing to do      *)
(* (otherwise it would never be stopped).                                    *)
TimerGuardsIdleWorker ==
    /\ client.idleTimer => client.active = None /\ client.queue = <<>>
    /\ (client.worker # None /\ client.active = None) => client.idleTimer

(* Requests, worker and timer in step: every promise is waited for or        *)
(* settled once, its worker works for it alone, and an idle one is stopped.  *)
ClientIsConsistent == NoRequestLost /\ OneOperationPerWorker /\ TimerGuardsIdleWorker

(* An abort of queued work does not interrupt the active operation           *)
(* (crates/rars-wasm/README.md:127): while a request before the aborted one  *)
(* waits, the active request keeps its worker, unless it was its own         *)
(* progress callback that aborted the other and threw.                       *)
AbortedBehind(t) ==
    /\ t # client.active /\ ~Settled(t) /\ client'.settled[t] = <<"aborted">>
    /\ \E u \in Tasks : u < t /\ client'.settled[u] = <<>>

QueuedAbortDoesNotInterrupt ==
    [][(client.active # None /\ \E t \in Tasks : AbortedBehind(t)) =>
        \/ client'.active = client.active /\ client'.worker = client.worker
        \/ client'.settled[client.active] = <<"threw">>]_vars

(* Every request is answered in the end. *)
EveryRequestSettles == \A t \in Tasks : (sequence >= t) ~> Settled(t)

=============================================================================
