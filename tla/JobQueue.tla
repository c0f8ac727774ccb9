------------------------------ MODULE JobQueue ------------------------------
(***************************************************************************)
(* The worker with Redis: each replica registers, queue by queue, a job    *)
(* scheduler, a job for the boot and a BullMQ worker of concurrency 1.     *)
(* What BullMQ does is external, modelled from the options it is given.    *)
(***************************************************************************)
EXTENDS Integers, Sequences

CONSTANTS
    Replicas,
    QueueOrder,     \* the queues, in the order in which index.ts starts them
    MaxWaiting      \* bound: jobs of a queue that wait

Queues == {QueueOrder[i] : i \in 1 .. Len(QueueOrder)}

ASSUME JobAssumption ==
    /\ QueueOrder \in Seq(Queues)
    /\ MaxWaiting \in Nat \ {0}

VARIABLES
    replicaPc,      \* down, booting, up, closing, disconnecting
    bootAt,         \* queues started, by two steps each
    schedulers,     \* job schedulers of a queue in Redis
    waiting,        \* jobs of a queue that nobody runs
    stalled,        \* jobs whose replica died
    running         \* queues of which a replica runs a job

redisVars == <<schedulers, waiting, stalled>>
jobVars == <<replicaPc, bootAt, redisVars, running>>

JobInit ==
    /\ replicaPc = [r \in Replicas |-> "down"]
    /\ bootAt = [r \in Replicas |-> 0]
    /\ schedulers = [q \in Queues |-> 0]
    /\ waiting = [q \in Queues |-> 0]
    /\ stalled = [q \in Queues |-> 0]
    /\ running = [r \in Replicas |-> {}]

ReplicaTo(r, pc) == replicaPc' = [replicaPc EXCEPT ![r] = pc]
AtMost(m, n) == IF m < n THEN m ELSE n
Enqueue(q) == waiting' = [waiting EXCEPT ![q] = AtMost(@ + 1, MaxWaiting)]

-----------------------------------------------------------------------------
(* A replica's life.                                                       *)

ReplicaBoot(r) ==
    /\ replicaPc[r] = "down"
    /\ ReplicaTo(r, "booting")
    /\ bootAt' = [bootAt EXCEPT ![r] = 0]
    /\ UNCHANGED <<redisVars, running>>

\* The queue at which a boot is, and whether it still has to schedule it.
AtQueue(r) == QueueOrder[bootAt[r] \div 2 + 1]
Booting(r) == replicaPc[r] = "booting" /\ bootAt[r] < 2 * Len(QueueOrder)
BootStep(r) ==
    /\ bootAt' = [bootAt EXCEPT ![r] = @ + 1]
    /\ UNCHANGED <<replicaPc, stalled, running>>

\* Mutated Upsert: the boot job is all there is.
NoScheduler(r) ==
    /\ Booting(r) /\ bootAt[r] % 2 = 0
    /\ BootStep(r)
    /\ UNCHANGED <<schedulers, waiting>>

\* upsertJobScheduler is keyed by SCHEDULER_ID.
Upsert(r) ==
    /\ Booting(r) /\ bootAt[r] % 2 = 0
    /\ schedulers' = [schedulers EXCEPT ![AtQueue(r)] = 1]
    /\ BootStep(r)
    /\ UNCHANGED waiting

\* The sweep of the boot is queued and the worker of this queue starts.
AddBootJob(r) ==
    /\ Booting(r) /\ bootAt[r] % 2 = 1
    /\ Enqueue(AtQueue(r))
    /\ BootStep(r)
    /\ UNCHANGED schedulers

BootDone(r) ==
    /\ replicaPc[r] = "booting" /\ ~Booting(r)
    /\ ReplicaTo(r, "up")
    /\ UNCHANGED <<bootAt, redisVars, running>>

\* Only a replica that is up handles the signal; all workers close at once.
ReplicaClose(r) ==
    /\ replicaPc[r] = "up"
    /\ ReplicaTo(r, "closing")
    /\ UNCHANGED <<bootAt, redisVars, running>>

ReplicaDisconnect(r) ==
    /\ replicaPc[r] = "closing" /\ running[r] = {}
    /\ ReplicaTo(r, "disconnecting")
    /\ UNCHANGED <<bootAt, redisVars, running>>

ReplicaExit(r) ==
    /\ replicaPc[r] = "disconnecting"
    /\ ReplicaTo(r, "down")
    /\ UNCHANGED <<bootAt, redisVars, running>>

\* A crash, or a signal during the boot: the jobs it ran stay locked.
Crash(r) ==
    /\ replicaPc[r] # "down"
    /\ ReplicaTo(r, "down")
    /\ stalled' = [q \in Queues |-> IF q \in running[r] THEN AtMost(stalled[q] + 1, MaxWaiting)
                                    ELSE stalled[q]]
    /\ running' = [running EXCEPT ![r] = {}]
    /\ UNCHANGED <<bootAt, schedulers, waiting>>

-----------------------------------------------------------------------------
(* Jobs.                                                                   *)

\* Every intervalMs.
SchedulerTick(q) ==
    /\ schedulers[q] > 0
    /\ Enqueue(q)
    /\ UNCHANGED <<replicaPc, bootAt, schedulers, stalled, running>>

WorkerStarted(r, q) ==
    \E i \in 1 .. Len(QueueOrder) : QueueOrder[i] = q /\ 2 * i <= bootAt[r]

\* One job of a queue at a time in a replica; a closing worker takes none.
Take(r, q) ==
    /\ replicaPc[r] \in {"booting", "up"} /\ WorkerStarted(r, q)
    /\ q \notin running[r] /\ waiting[q] > 0
    /\ waiting' = [waiting EXCEPT ![q] = @ - 1]
    /\ running' = [running EXCEPT ![r] = @ \union {q}]
    /\ UNCHANGED <<replicaPc, bootAt, schedulers, stalled>>

\* Done, or failed: no attempts are configured, so no retry either.
JobEnds(r, q) ==
    /\ replicaPc[r] # "down" /\ q \in running[r]
    /\ running' = [running EXCEPT ![r] = @ \ {q}]
    /\ UNCHANGED <<replicaPc, bootAt, redisVars>>

\* A stalled job is queued again, or fails when it stalled before.
Redeliver(q) ==
    /\ stalled[q] > 0
    /\ stalled' = [stalled EXCEPT ![q] = @ - 1]
    /\ Enqueue(q)
    /\ UNCHANGED <<replicaPc, bootAt, schedulers, running>>

StalledFails(q) ==
    /\ stalled[q] > 0
    /\ stalled' = [stalled EXCEPT ![q] = @ - 1]
    /\ UNCHANGED <<replicaPc, bootAt, schedulers, waiting, running>>

-----------------------------------------------------------------------------
ReplicaNext(r) ==
    \/ ReplicaBoot(r)
    \/ Upsert(r)
    \/ AddBootJob(r)
    \/ BootDone(r)
    \/ ReplicaClose(r)
    \/ ReplicaDisconnect(r)
    \/ ReplicaExit(r)
    \/ Crash(r)

JobNext ==
    \/ \E r \in Replicas : ReplicaNext(r)
    \/ \E q \in Queues : SchedulerTick(q) \/ Redeliver(q) \/ StalledFails(q)
    \/ \E r \in Replicas, q \in Queues : Take(r, q) \/ JobEnds(r, q)

\* Redis keeps its schedule, a worker takes what waits, and a job ends.
JobFairness ==
    /\ \A q \in Queues : WF_jobVars(SchedulerTick(q))
    /\ \A r \in Replicas, q \in Queues :
          WF_jobVars(Take(r, q)) /\ WF_jobVars(JobEnds(r, q))

JobSpec == JobInit /\ [][JobNext]_jobVars /\ JobFairness

-----------------------------------------------------------------------------
(* Properties.                                                             *)

\* While one replica stays up, every queue's sweep runs again and again,
\* whatever the others do: failed jobs are not retried, the next tick is the
\* retry, and it comes.
KeepsRunning ==
    \A q \in Queues :
        (\E r \in Replicas : <>[](replicaPc[r] = "up")) =>
            []<>(\E r \in Replicas : q \in running[r])
=============================================================================
