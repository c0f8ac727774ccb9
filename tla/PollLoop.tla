------------------------------ MODULE PollLoop ------------------------------
(***************************************************************************)
(* The worker without Redis: two polling loops in one process, each with   *)
(* its timer and its named sweeps, a guard that keeps a sweep from         *)
(* overlapping itself, and a shutdown that drains what is in flight.       *)
(***************************************************************************)
EXTENDS FiniteSets, Integers

CONSTANTS
    Loops, Jobs, LoopOf     \* the loop that drives a sweep

ASSUME PollAssumption == LoopOf \in [Jobs -> Loops]

VARIABLES
    workerPc,   \* down, up, closing, disconnecting
    timers,     \* loops whose interval is set
    active,     \* sweeps with a promise in the loop's map
    bodies,     \* runs of a sweep that have not ended
    hung,       \* sweeps whose run waits for an answer that never comes
    awaited     \* promises that close() waits for

pollVars == <<workerPc, timers, active, bodies, hung, awaited>>

PollInit ==
    /\ workerPc = "down"
    /\ timers = {} /\ active = {} /\ hung = {} /\ awaited = {}
    /\ bodies = [s \in Jobs |-> 0]

SweepsOf(l) == {s \in Jobs : LoopOf[s] = l}

StartBodies(S) ==
    /\ active' = active \union S
    /\ bodies' = [s \in Jobs |-> IF s \in S THEN bodies[s] + 1 ELSE bodies[s]]

\* Mutated SweepOnce: one guard for all sweeps of a tick.
SweepWhenIdle(S) == StartBodies(IF S \intersect active = {} THEN S ELSE {})

\* A sweep in flight is not started again.
SweepOnce(S) == StartBodies(S \ active)

\* Both loops tick on boot.
Boot ==
    /\ workerPc = "down"
    /\ workerPc' = "up"
    /\ timers' = Loops
    /\ SweepOnce(Jobs)
    /\ UNCHANGED <<hung, awaited>>

LoopTick(l) ==
    /\ workerPc # "down" /\ l \in timers
    /\ SweepOnce(SweepsOf(l))
    /\ UNCHANGED <<workerPc, timers, hung, awaited>>

BodyEnds(s) ==
    /\ bodies[s] > 0 /\ s \notin hung
    /\ bodies' = [bodies EXCEPT ![s] = @ - 1]
    /\ UNCHANGED <<workerPc, timers, hung>>

Settled(s) ==
    /\ active' = active \ {s}
    /\ awaited' = awaited \ {s}

Finish(s) == BodyEnds(s) /\ Settled(s)

\* Mutated Fail: the promise of a sweep that threw does not settle.
FailUnsettled(s) ==
    /\ BodyEnds(s)
    /\ active' = active \ {s}
    /\ UNCHANGED awaited

\* An error is logged and the entry of the map dropped all the same.
Fail(s) == BodyEnds(s) /\ Settled(s)

\* A query without a timeout.
Hang(s) ==
    /\ bodies[s] > 0
    /\ hung' = hung \union {s}
    /\ UNCHANGED <<workerPc, timers, active, bodies, awaited>>

\* Mutated BeginClose: the timers are left on while the promises settle.
CloseKeepsTimers ==
    /\ workerPc = "up"
    /\ workerPc' = "closing"
    /\ awaited' = active
    /\ UNCHANGED <<timers, active, bodies, hung>>

\* The first signal: both loops clear their timers and take a snapshot of
\* what is in flight.  Later signals return at once.
BeginClose ==
    /\ workerPc = "up"
    /\ workerPc' = "closing"
    /\ timers' = {}
    /\ awaited' = active
    /\ UNCHANGED <<active, bodies, hung>>

Disconnect ==
    /\ workerPc = "closing" /\ awaited = {}
    /\ workerPc' = "disconnecting"
    /\ UNCHANGED <<timers, active, bodies, hung, awaited>>

Gone ==
    /\ workerPc' = "down"
    /\ timers' = {} /\ active' = {} /\ hung' = {} /\ awaited' = {}
    /\ bodies' = [s \in Jobs |-> 0]

Exit == workerPc = "disconnecting" /\ Gone

\* The process is killed; its runs end where they are.
Killed == workerPc # "down" /\ Gone

-----------------------------------------------------------------------------
PollNext ==
    \/ Boot
    \/ \E l \in Loops : LoopTick(l)
    \/ \E s \in Jobs : Finish(s) \/ Fail(s) \/ Hang(s)
    \/ BeginClose
    \/ Disconnect
    \/ Exit
    \/ Killed

\* The timers fire; a run whose answers come ends; the shutdown goes on.
PollFairness ==
    /\ \A l \in Loops : WF_pollVars(LoopTick(l))
    /\ \A s \in Jobs : WF_pollVars(Finish(s) \/ Fail(s))
    /\ WF_pollVars(Disconnect \/ Exit)

PollSpec == PollInit /\ [][PollNext]_pollVars /\ PollFairness

-----------------------------------------------------------------------------
(* Properties.                                                             *)

\* Types, and the map says what runs: a sweep has one run at most, and its
\* entry exactly as long as that run (poll-loop.ts: "never overlap").
PollTypeOK ==
    /\ workerPc \in {"down", "up", "closing", "disconnecting"}
    /\ timers \subseteq Loops
    /\ active \subseteq Jobs
    /\ bodies = [s \in Jobs |-> IF s \in active THEN 1 ELSE 0]
    /\ hung \subseteq active
    /\ awaited \subseteq Jobs

\* The database is never disconnected under a run: from $disconnect on no
\* sweep runs and none can start.
NothingRunsAtDisconnect ==
    workerPc = "disconnecting" => \A s \in Jobs : bodies[s] = 0

\* A sweep that hangs, fails or is slow holds up no other, not of its own
\* loop either: in a worker that stays up, whichever sweep does not hang
\* starts and ends again and again.
KeepsSweeping ==
    \A s \in Jobs :
        <>[](workerPc = "up") =>
            \/ <>[](s \in hung)
            \/ []<>(s \in active) /\ []<>(s \notin active)

\* A shutdown ends, unless a run that it waits for hangs.
ShutdownEnds ==
    workerPc = "closing" ~> (workerPc = "down" \/ awaited \intersect hung # {})
=============================================================================
