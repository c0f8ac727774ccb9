----------------------------- MODULE TrustCases -----------------------------
(***************************************************************************)
(* Trust cases: the fraud scan that opens them from four risk rules, and   *)
(* the admins who annotate and resolve them.  The scan looks for an open   *)
(* case of a subject and then creates one; no constraint of the database   *)
(* stands between the two.                                                 *)
(***************************************************************************)
EXTENDS Integers, FiniteSets

CONSTANTS
    Subjects, RuleOf,   \* what a rule is about: the kind of subject
    Threshold,          \* the count, or the days, from which a rule trips
    Scanners,           \* runs of the scan that can be active at once
    Desks,              \* requests of admins
    Resolutions,        \* TrustResolution
    None,
    MaxEvidence,        \* bound: evidence counted in a window
    MaxCases,           \* bound: case rows of a subject
    MaxNotes,           \* bound: cases that get notes
    MaxFaults           \* bound: scans and creations that fail

Rules == {"DRIVER", "KYC", "USER", "SELLER"}

ASSUME TrustCasesAssumption ==
    /\ RuleOf \in [Subjects -> Rules]
    /\ Threshold \in [Rules -> Nat \ {0}]
    /\ IsFiniteSet(Scanners)
    /\ None \notin Resolutions \union Subjects
    /\ MaxEvidence \in Nat /\ MaxCases \in Nat /\ MaxNotes \in Nat
    /\ MaxFaults \in Nat

VARIABLES
    evidence,       \* rows of a rule's window about a subject
    caseStatus, resolution,
    noted,          \* cases with an investigation note
    scanPc,         \* the query a scan does next
    todo,           \* what the last query returned and was not handled yet
    creating,       \* the subject for which no open case was found
    deskPc, deskCase, deskChoice,
    faults

rowVars == <<caseStatus, resolution, noted>>
scanVars == <<scanPc, todo, creating, faults>>
deskVars == <<deskPc, deskCase, deskChoice>>
caseVars == <<evidence, rowVars, scanVars, deskVars>>

Cases == Subjects \X (1 .. MaxCases)

OpenStatuses == {"NEW"}
Of(s) == {c \in Cases : c[1] = s}
Open(s) == {c \in Of(s) : caseStatus[c] \in OpenStatuses}

CasesInit ==
    /\ evidence = [s \in Subjects |-> 0]
    /\ caseStatus = [c \in Cases |-> "NONE"]
    /\ resolution = [c \in Cases |-> None]
    /\ noted = {}
    /\ scanPc = [x \in Scanners |-> "idle"]
    /\ todo = [x \in Scanners |-> {}]
    /\ creating = [x \in Scanners |-> None]
    /\ deskPc = [a \in Desks |-> "idle"]
    /\ deskCase = [a \in Desks |-> None]
    /\ deskChoice = [a \in Desks |-> None]
    /\ faults = 0

\* A failed delivery, a day of waiting, an order or a dispute more ...
Grow(s) ==
    /\ evidence[s] < MaxEvidence
    /\ evidence' = [evidence EXCEPT ![s] = @ + 1]
    /\ UNCHANGED <<rowVars, scanVars, deskVars>>

\* ... or what leaves the window, or a decided application.
Fade(s) ==
    /\ evidence[s] > 0
    /\ evidence' = [evidence EXCEPT ![s] = IF RuleOf[s] = "KYC" THEN 0 ELSE @ - 1]
    /\ UNCHANGED <<rowVars, scanVars, deskVars>>

-----------------------------------------------------------------------------
(* runFraudScan.                                                           *)

\* Mutated Tripping: the threshold itself does not trip.
TrippingBeyond(rule) ==
    {s \in Subjects : RuleOf[s] = rule /\ evidence[s] > Threshold[rule]}

Tripping(rule) ==
    {s \in Subjects : RuleOf[s] = rule /\ evidence[s] >= Threshold[rule]}

Query(x, at, rule, next) ==
    /\ scanPc[x] = at /\ todo[x] = {}
    /\ scanPc' = [scanPc EXCEPT ![x] = next]
    /\ todo' = [todo EXCEPT ![x] = Tripping(rule)]
    /\ UNCHANGED <<evidence, rowVars, creating, faults, deskVars>>

\* Deliveries that failed, applications that wait, orders and disputes.
QueryDrivers(x) == Query(x, "idle", "DRIVER", "kyc")
QueryApplications(x) == Query(x, "kyc", "KYC", "buyers")
QueryBuyers(x) == Query(x, "buyers", "USER", "sellers")
QuerySellers(x) == Query(x, "sellers", "SELLER", "end")

ScanDone(x) ==
    /\ scanPc[x] = "end" /\ todo[x] = {}
    /\ scanPc' = [scanPc EXCEPT ![x] = "idle"]
    /\ UNCHANGED <<evidence, rowVars, todo, creating, faults, deskVars>>

Handled(x, s) ==
    /\ todo' = [todo EXCEPT ![x] = @ \ {s}]
    /\ creating' = [creating EXCEPT ![x] = None]
    /\ UNCHANGED <<evidence, scanPc, deskVars>>

\* A subject that has an open case is skipped.
SkipOpen(x, s) ==
    /\ creating[x] = None /\ s \in todo[x]
    /\ Open(s) # {}
    /\ Handled(x, s)
    /\ UNCHANGED <<rowVars, faults>>

Find(x, s) ==
    /\ creating[x] = None /\ s \in todo[x]
    /\ creating' = [creating EXCEPT ![x] = s]
    /\ UNCHANGED <<evidence, rowVars, scanPc, todo, faults, deskVars>>

\* Mutated FindNone: a case is opened on every run.
FindAny(x, s) == Find(x, s)

FindNone(x, s) ==
    /\ Open(s) = {}
    /\ Find(x, s)

\* The next row of a subject, if the bound leaves one.
Fresh(s) == {c \in Of(s) : /\ caseStatus[c] = "NONE"
                           /\ \A b \in Of(s) : caseStatus[b] = "NONE" => c[2] <= b[2]}

\* Case and audit row.
Create(x, c) ==
    /\ creating[x] # None
    /\ c \in Fresh(creating[x])
    /\ caseStatus' = [caseStatus EXCEPT ![c] = "NEW"]
    /\ Handled(x, creating[x])
    /\ UNCHANGED <<resolution, noted, faults>>

\* A subject whose transaction fails does not end the scan.
CreateFails(x) ==
    /\ creating[x] # None
    /\ faults < MaxFaults
    /\ faults' = faults + 1
    /\ Handled(x, creating[x])
    /\ UNCHANGED rowVars

\* A query throws or the process dies; the next tick starts over.
ScanDies(x) ==
    /\ scanPc[x] # "idle"
    /\ faults < MaxFaults
    /\ faults' = faults + 1
    /\ scanPc' = [scanPc EXCEPT ![x] = "idle"]
    /\ todo' = [todo EXCEPT ![x] = {}]
    /\ creating' = [creating EXCEPT ![x] = None]
    /\ UNCHANGED <<evidence, rowVars, deskVars>>

-----------------------------------------------------------------------------
(* resolveTrustCase and addTrustCaseNote.                                  *)

DeskTo(a, pc, c, choice) ==
    /\ deskPc' = [deskPc EXCEPT ![a] = pc]
    /\ deskCase' = [deskCase EXCEPT ![a] = c]
    /\ deskChoice' = [deskChoice EXCEPT ![a] = choice]
    /\ UNCHANGED <<evidence, scanVars>>

ResolveRead(a, c, choice) ==
    /\ deskPc[a] = "idle"
    /\ caseStatus[c] \in OpenStatuses
    /\ DeskTo(a, "read", c, choice)
    /\ UNCHANGED <<caseStatus, resolution, noted>>

Resolve(a) ==
    /\ deskPc[a] = "read"
    /\ caseStatus' = [caseStatus EXCEPT ![deskCase[a]] = "RESOLVED"]
    /\ resolution' = [resolution EXCEPT ![deskCase[a]] = deskChoice[a]]
    /\ DeskTo(a, "idle", None, None)
    /\ UNCHANGED noted

\* Mutated ResolveCommit: the update is by id alone.
ResolveUnguarded(a) == Resolve(a)

\* The update is guarded by the statuses that are not closed.
ResolveCommit(a) ==
    /\ deskPc[a] = "read"
    /\ caseStatus[deskCase[a]] \in OpenStatuses
    /\ Resolve(a)

AlreadyResolved(a) ==
    /\ deskPc[a] = "read"
    /\ caseStatus[deskCase[a]] \notin OpenStatuses
    /\ DeskTo(a, "idle", None, None)
    /\ UNCHANGED <<caseStatus, resolution, noted>>

\* A note may be added to any case, a closed one too.
AddNote(a, c) ==
    /\ deskPc[a] = "idle"
    /\ caseStatus[c] # "NONE"
    /\ Cardinality(noted) < MaxNotes
    /\ noted' = noted \union {c}
    /\ UNCHANGED <<evidence, caseStatus, resolution, scanVars,
                   deskVars>>

-----------------------------------------------------------------------------
ScanProgress(x) ==
    \/ QueryDrivers(x)
    \/ QueryApplications(x)
    \/ QueryBuyers(x)
    \/ QuerySellers(x)
    \/ ScanDone(x)
    \/ \E s \in Subjects : SkipOpen(x, s) \/ FindNone(x, s)
    \/ \E c \in Cases : Create(x, c)

DeskNext(a) ==
    \/ \E c \in Cases, choice \in Resolutions : ResolveRead(a, c, choice)
    \/ ResolveCommit(a)
    \/ AlreadyResolved(a)
    \/ \E c \in Cases : AddNote(a, c)

CasesNext ==
    \/ \E s \in Subjects : Grow(s) \/ Fade(s)
    \/ \E x \in Scanners : ScanProgress(x) \/ CreateFails(x) \/ ScanDies(x)
    \/ \E a \in Desks : DeskNext(a)

\* The worker runs the scan again and again, and a scan that runs goes on.
CasesFairness == \A x \in Scanners : WF_caseVars(ScanProgress(x))

CasesSpec == CasesInit /\ [][CasesNext]_caseVars /\ CasesFairness

-----------------------------------------------------------------------------
(* The pages of the admins.                                                *)

\* The open view of the queue; each row links to its case.
CaseQueue ==
    {c \in Cases : caseStatus[c] \in {"NEW", "MONITORING", "NEEDS_INFO",
                                      "ESCALATED", "RESTRICTED"}}

\* The page of a case has the form that resolves it, or how it ended.
ShowResolve(c) ==
    caseStatus[c] \in {"NEW", "MONITORING", "NEEDS_INFO", "ESCALATED",
                       "RESTRICTED"}
ShowResolution(c) == ~ShowResolve(c) /\ resolution[c] # None

-----------------------------------------------------------------------------
(* Properties.                                                             *)

\* Every row and process holds a value it can hold; the resolved
\* cases are those with a resolution.
CasesTypeOK ==
    /\ evidence \in [Subjects -> 0 .. MaxEvidence]
    /\ caseStatus \in [Cases -> {"NONE", "NEW", "RESOLVED"}]
    /\ resolution \in [Cases -> Resolutions \union {None}]
    /\ \A c \in Cases : resolution[c] # None <=> caseStatus[c] = "RESOLVED"
    /\ noted \subseteq Cases
    /\ scanPc \in [Scanners -> {"idle", "kyc", "buyers", "sellers", "end"}]
    /\ todo \in [Scanners -> SUBSET Subjects]
    /\ creating \in [Scanners -> Subjects \union {None}]
    /\ deskPc \in [Desks -> {"idle", "read"}]
    /\ deskCase \in [Desks -> Cases \union {None}]
    /\ deskChoice \in [Desks -> Resolutions \union {None}]
    /\ faults \in 0 .. MaxFaults

\* Find-then-create opens no more cases of one subject and signal than there
\* are scans at once, however they interleave with each other and with the
\* admins: a single scan keeps to one open case.  And what silences the scan
\* is found: an open case is in the admins' queue with a form that resolves
\* it, and any other shows how it ended.
OpenCasesBounded ==
    \A s \in Subjects :
        /\ Cardinality(Open(s)) <= Cardinality(Scanners)
        /\ \A c \in Open(s) : c \in CaseQueue /\ ShowResolve(c)
        /\ \A c \in Of(s) \ Open(s) :
              caseStatus[c] # "NONE" => ShowResolution(c)

\* Two admins who resolve one case at once leave the first one's decision: a
\* resolved case stays resolved, the way it was.
ResolutionStands ==
    [][\A c \in Cases :
          caseStatus[c] = "RESOLVED" =>
             /\ caseStatus'[c] = "RESOLVED"
             /\ resolution'[c] = resolution[c]]_caseVars

\* Whoever keeps tripping a rule gets a case, in spite of scans that die
\* and creations that fail.
TrippingGetsACase ==
    \A s \in Subjects :
        <>[](evidence[s] >= Threshold[RuleOf[s]]) =>
           <>(\E c \in Of(s) : caseStatus[c] # "NONE")
=============================================================================
