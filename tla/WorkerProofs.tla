----------------------------- MODULE WorkerProofs -----------------------------
(***************************************************************************)
(* Proofs about PollLoop, TrustCases, TrustScore and JobQueue: the worker  *)
(* disconnects only when nothing runs, the fraud scans and the desks they  *)
(* share the cases with open few of them and overwrite none, the nightly   *)
(* recomputation of the trust scores skips nobody, and replicas that come  *)
(* and go leave one scheduler of every queue behind.                       *)
(***************************************************************************)
EXTENDS PollLoop, TrustCases, TrustScore, JobQueue, FiniteSetTheorems, TLAPS

-----------------------------------------------------------------------------
(* The polling loops.                                                      *)

\* Only a worker that is up has its timers on; from the shutdown on nothing
\* is in flight beyond the snapshot that it waits for, and at the end of it
\* nothing at all.
DrainOK ==
    /\ workerPc \in {"closing", "disconnecting"} => timers = {} /\ active \subseteq awaited
    /\ workerPc = "disconnecting" => awaited = {}

PollInv == PollTypeOK /\ DrainOK

LEMMA PollInitInv == PollInit => PollInv
  BY DEF PollInit, PollInv, PollTypeOK, DrainOK

LEMMA SweepOnceKeepsMap ==
    ASSUME PollTypeOK, NEW S \in SUBSET Jobs, SweepOnce(S)
    PROVE  /\ active' \subseteq Jobs /\ active \subseteq active'
           /\ bodies' = [s \in Jobs |-> IF s \in active' THEN 1 ELSE 0]
  BY DEF PollTypeOK, SweepOnce, StartBodies

LEMMA PollStep == PollInv /\ [PollNext]_pollVars => PollInv'
<1> SUFFICES ASSUME PollInv, [PollNext]_pollVars
             PROVE  PollInv'
  OBVIOUS
<1> USE DEF PollInv, DrainOK
<1>1. CASE Boot
  BY <1>1, SweepOnceKeepsMap DEF Boot, PollTypeOK
<1>2. ASSUME NEW l \in Loops, LoopTick(l)
      PROVE  PollInv'
  <2>1. SweepsOf(l) \subseteq Jobs
    BY DEF SweepsOf
  <2>2. workerPc = "up"
    BY <1>2 DEF LoopTick, PollTypeOK
  <2>3. QED BY <1>2, <2>1, <2>2, SweepOnceKeepsMap DEF LoopTick, PollTypeOK
<1>3. ASSUME NEW s \in Jobs, BodyEnds(s), Settled(s)
      PROVE  PollInv'
  <2>1. s \in active /\ bodies' = [j \in Jobs |-> IF j \in active' THEN 1 ELSE 0]
    BY <1>3 DEF BodyEnds, Settled, PollTypeOK
  <2>2. QED BY <1>3, <2>1 DEF BodyEnds, Settled, PollTypeOK
<1>4. ASSUME NEW s \in Jobs, Hang(s)
      PROVE  PollInv'
  BY <1>4 DEF Hang, PollTypeOK
<1>5. CASE BeginClose
  BY <1>5 DEF BeginClose, PollTypeOK
<1>6. CASE Disconnect
  BY <1>6 DEF Disconnect, PollTypeOK
<1>7. CASE Gone
  BY <1>7 DEF Gone, PollTypeOK
<1>8. CASE UNCHANGED pollVars
  BY <1>8 DEF pollVars, PollTypeOK
<1>9. QED
  BY <1>1, <1>2, <1>3, <1>4, <1>5, <1>6, <1>7, <1>8 DEF PollNext, Finish, Fail, Exit, Killed

LEMMA PollInductive == PollSpec => []PollInv
  BY PollInitInv, PollStep, PTL DEF PollSpec

\* A sweep of startPollLoop never overlaps itself: its map has an entry
\* exactly as long as its one run.
THEOREM PollNeverOverlaps == PollSpec => []PollTypeOK
<1>1. PollInv => PollTypeOK
  BY DEF PollInv
<1>2. QED BY PollInductive, <1>1, PTL

\* The worker's shutdown drains both loops before it disconnects the
\* database, whatever hangs, fails or is killed.
THEOREM DisconnectsDrained == PollSpec => []NothingRunsAtDisconnect
<1>1. PollInv => NothingRunsAtDisconnect
  BY DEF PollInv, PollTypeOK, DrainOK, NothingRunsAtDisconnect
<1>2. QED BY PollInductive, <1>1, PTL

-----------------------------------------------------------------------------
(* Trust cases.                                                            *)

\* The scans that found no open case of a subject and are to create one.
CreatorsOf(s) == {x \in Scanners : creating[x] = s}

\* A scan that is to create found no open case: with those it will create,
\* there are never more than scans.
RoomForCreators ==
    \A s \in Subjects :
        Cardinality(Open(s)) + Cardinality(CreatorsOf(s)) <= Cardinality(Scanners)

DesksOK == \A a \in Desks :
              deskPc[a] = "read" => deskCase[a] \in Cases /\ deskChoice[a] \in Resolutions

CasesInv == CasesTypeOK /\ DesksOK /\ RoomForCreators

LEMMA OfFinite == ASSUME NEW s \in Subjects PROVE IsFiniteSet(Of(s))
<1>1. IsFiniteSet(1 .. MaxCases)
  BY TrustCasesAssumption, FS_Interval
<1> DEFINE row == [n \in 1 .. MaxCases |-> <<s, n>>]
<1>2. row \in Surjection(1 .. MaxCases, Of(s))
  BY DEF Of, Cases, Surjection
<1>3. QED BY <1>1, <1>2, FS_Surjection

LEMMA SetsFinite ==
    ASSUME NEW s \in Subjects
    PROVE  /\ IsFiniteSet(Open(s)) /\ Cardinality(Open(s)) \in Nat
           /\ IsFiniteSet(CreatorsOf(s)) /\ Cardinality(CreatorsOf(s)) \in Nat
           /\ Cardinality(CreatorsOf(s)) <= Cardinality(Scanners)
           /\ Cardinality(Scanners) \in Nat
<1>1. Open(s) \subseteq Of(s) /\ CreatorsOf(s) \subseteq Scanners
  BY DEF Open, CreatorsOf
<1>2. QED
  BY <1>1, OfFinite, TrustCasesAssumption, FS_Subset, FS_CardinalityType

LEMMA CasesInitInv == CasesInit => CasesInv
<1> SUFFICES ASSUME CasesInit PROVE CasesInv
  OBVIOUS
<1>1. CasesTypeOK /\ DesksOK
  BY TrustCasesAssumption DEF CasesInit, CasesTypeOK, DesksOK
<1>2. ASSUME NEW s \in Subjects
      PROVE  Cardinality(Open(s)) + Cardinality(CreatorsOf(s)) <= Cardinality(Scanners)
  <2>1. Open(s) = {}
    BY DEF CasesInit, Open, OpenStatuses, Of
  <2>2. QED BY <2>1, SetsFinite, FS_EmptySet
<1>3. QED BY <1>1, <1>2 DEF CasesInv, RoomForCreators

\* A step that opens no case and starts no creation leaves the room there is.
LEMMA RoomKept ==
    ASSUME RoomForCreators, TrustCasesAssumption,
           \A s \in Subjects : /\ Open(s)' \subseteq Open(s)
                               /\ CreatorsOf(s)' \subseteq CreatorsOf(s)
    PROVE  RoomForCreators'
<1> SUFFICES ASSUME NEW s \in Subjects
             PROVE  Cardinality(Open(s)') + Cardinality(CreatorsOf(s)')
                       <= Cardinality(Scanners)
  BY DEF RoomForCreators
<1>1. /\ Cardinality(Open(s)') <= Cardinality(Open(s)) /\ Cardinality(Open(s)') \in Nat
      /\ Cardinality(CreatorsOf(s)') <= Cardinality(CreatorsOf(s))
      /\ Cardinality(CreatorsOf(s)') \in Nat
  BY SetsFinite, FS_Subset, FS_CardinalityType
<1>2. Cardinality(Open(s)) + Cardinality(CreatorsOf(s)) <= Cardinality(Scanners)
  BY DEF RoomForCreators
<1>3. QED BY <1>1, <1>2, SetsFinite

LEMMA HandledRoom ==
    ASSUME CasesInv, NEW x \in Scanners, NEW s, Handled(x, s)
    PROVE  \A r \in Subjects : CreatorsOf(r)' = CreatorsOf(r) \ {x}
  BY TrustCasesAssumption DEF CasesInv, CasesTypeOK, Handled, CreatorsOf

LEMMA ScanTypes ==
    ASSUME CasesInv, NEW x \in Scanners, ScanProgress(x) \/ CreateFails(x) \/ ScanDies(x)
    PROVE  (CasesTypeOK /\ DesksOK)'
<1> USE TrustCasesAssumption DEF CasesInv, CasesTypeOK, DesksOK
<1>1. CASE QueryDrivers(x)
  BY <1>1 DEF QueryDrivers, Query, Tripping, rowVars, deskVars
<1>2. CASE QueryApplications(x)
  BY <1>2 DEF QueryApplications, Query, Tripping, rowVars, deskVars
<1>3. CASE QueryBuyers(x)
  BY <1>3 DEF QueryBuyers, Query, Tripping, rowVars, deskVars
<1>4. CASE QuerySellers(x)
  BY <1>4 DEF QuerySellers, Query, Tripping, rowVars, deskVars
<1>5. CASE ScanDone(x)
  BY <1>5 DEF ScanDone, rowVars, deskVars
<1>6. ASSUME NEW s \in Subjects, SkipOpen(x, s)
      PROVE  (CasesTypeOK /\ DesksOK)'
  BY <1>6 DEF SkipOpen, Handled, rowVars, deskVars
<1>7. ASSUME NEW s \in Subjects, FindNone(x, s)
      PROVE  (CasesTypeOK /\ DesksOK)'
  BY <1>7 DEF FindNone, Find, rowVars, deskVars
<1>8. ASSUME NEW c \in Cases, Create(x, c)
      PROVE  (CasesTypeOK /\ DesksOK)'
  <2>1. caseStatus[c] = "NONE" /\ resolution[c] = None
    BY <1>8 DEF Create, Fresh, Of
  <2>2. QED BY <1>8, <2>1 DEF Create, Handled, deskVars
<1>9. CASE CreateFails(x)
  BY <1>9 DEF CreateFails, Handled, rowVars, deskVars
<1>10. CASE ScanDies(x)
  BY <1>10 DEF ScanDies, rowVars, deskVars
<1>11. QED
  BY <1>1, <1>2, <1>3, <1>4, <1>5, <1>6, <1>7, <1>8, <1>9, <1>10 DEF ScanProgress

LEMMA FindRoom ==
    ASSUME CasesInv, NEW x \in Scanners, NEW s \in Subjects, FindNone(x, s)
    PROVE  RoomForCreators'
<1> SUFFICES ASSUME NEW r \in Subjects
             PROVE  Cardinality(Open(r)') + Cardinality(CreatorsOf(r)')
                       <= Cardinality(Scanners)
  BY DEF RoomForCreators
<1>1. Open(r)' = Open(r)
  BY DEF FindNone, Find, rowVars, Open, Of, Cases
<1>2. CASE r = s
  <2>1. Cardinality(Open(r)') = 0
    BY <1>1, <1>2, FS_EmptySet DEF FindNone
  <2>2. CreatorsOf(r)' \subseteq Scanners
    BY DEF CreatorsOf
  <2>3. Cardinality(CreatorsOf(r)') <= Cardinality(Scanners)
        /\ Cardinality(CreatorsOf(r)') \in Nat
    BY <2>2, TrustCasesAssumption, FS_Subset, FS_CardinalityType
  <2>4. QED BY <2>1, <2>3, SetsFinite
<1>3. CASE r # s
  <2>1. CreatorsOf(r)' = CreatorsOf(r)
    BY <1>3, TrustCasesAssumption DEF CasesInv, CasesTypeOK, FindNone, Find, CreatorsOf
  <2>2. QED BY <1>1, <2>1 DEF CasesInv, RoomForCreators
<1>4. QED BY <1>2, <1>3

\* A creation trades its place among the creators for an open case.
LEMMA CreateRoom ==
    ASSUME CasesInv, NEW x \in Scanners, NEW c \in Cases, Create(x, c)
    PROVE  RoomForCreators'
<1> SUFFICES ASSUME NEW r \in Subjects
             PROVE  Cardinality(Open(r)') + Cardinality(CreatorsOf(r)')
                       <= Cardinality(Scanners)
  BY DEF RoomForCreators
<1>1. creating[x] \in Subjects /\ c \in Of(creating[x]) /\ caseStatus[c] = "NONE"
  BY TrustCasesAssumption DEF CasesInv, CasesTypeOK, Create, Fresh, Of
<1>2. CreatorsOf(r)' = CreatorsOf(r) \ {x}
  BY HandledRoom DEF Create
<1>3. Cardinality(Open(r)) + Cardinality(CreatorsOf(r)) <= Cardinality(Scanners)
  BY DEF CasesInv, RoomForCreators
<1>4. CASE r = creating[x]
  <2>1. Open(r)' = Open(r) \union {c} /\ c \notin Open(r)
    BY <1>1, <1>4 DEF CasesInv, CasesTypeOK, Create, Open, Of, OpenStatuses, Cases
  <2>2. x \in CreatorsOf(r)
    BY <1>4 DEF CreatorsOf
  <2>3. IsFiniteSet(Open(r)) /\ IsFiniteSet(CreatorsOf(r))
    BY SetsFinite
  <2>4. Cardinality(Open(r)') = Cardinality(Open(r)) + 1
    BY <2>1, <2>3, FS_AddElement
  <2>5. Cardinality(CreatorsOf(r)') = Cardinality(CreatorsOf(r)) - 1
    BY <1>2, <2>2, <2>3, FS_RemoveElement
  <2>6. QED BY <1>3, <2>4, <2>5, SetsFinite
<1>5. CASE r # creating[x]
  <2>1. Open(r)' = Open(r)
    BY <1>1, <1>5 DEF CasesInv, CasesTypeOK, Create, Open, Of, OpenStatuses, Cases
  <2>2. CreatorsOf(r)' = CreatorsOf(r)
    BY <1>2, <1>5 DEF CreatorsOf
  <2>3. QED BY <1>3, <2>1, <2>2
<1>6. QED BY <1>4, <1>5

\* No other step opens a case or starts a creation.
LEMMA CasesStep == CasesInv /\ [CasesNext]_caseVars => CasesInv'
<1> SUFFICES ASSUME CasesInv, [CasesNext]_caseVars
             PROVE  CasesInv'
  OBVIOUS
<1> USE DEF CasesInv
<1>1. ASSUME NEW x \in Scanners, ScanProgress(x) \/ CreateFails(x) \/ ScanDies(x)
      PROVE  CasesInv'
  <2>1. (CasesTypeOK /\ DesksOK)'
    BY <1>1, ScanTypes
  <2>2. ASSUME NEW s \in Subjects, FindNone(x, s)
        PROVE  RoomForCreators'
    BY <2>2, FindRoom
  <2>3. ASSUME NEW c \in Cases, Create(x, c)
        PROVE  RoomForCreators'
    BY <2>3, CreateRoom
  <2>4. CASE \/ QueryDrivers(x) \/ QueryApplications(x) \/ QueryBuyers(x)
             \/ QuerySellers(x) \/ ScanDone(x)
    <3>1. caseStatus' = caseStatus /\ creating' = creating
      BY <2>4 DEF QueryDrivers, QueryApplications, QueryBuyers, QuerySellers, Query,
                  ScanDone, rowVars
    <3>2. \A s \in Subjects : Open(s)' = Open(s) /\ CreatorsOf(s)' = CreatorsOf(s)
      BY <3>1 DEF Open, Of, Cases, CreatorsOf
    <3>3. QED BY <2>1, <3>2, RoomKept, TrustCasesAssumption
  <2>5. CASE CreateFails(x) \/ ScanDies(x) \/ \E s \in Subjects : SkipOpen(x, s)
    <3>1. caseStatus' = caseStatus
      BY <2>5 DEF CreateFails, ScanDies, SkipOpen, rowVars
    <3>2. creating' = [creating EXCEPT ![x] = None]
      BY <2>5 DEF CreateFails, ScanDies, SkipOpen, Handled
    <3>3. \A s \in Subjects : Open(s)' = Open(s) /\ CreatorsOf(s)' \subseteq CreatorsOf(s)
      BY <3>1, <3>2, TrustCasesAssumption DEF CasesTypeOK, Open, Of, Cases, CreatorsOf
    <3>4. QED BY <2>1, <3>3, RoomKept, TrustCasesAssumption
  <2>6. RoomForCreators'
    BY <1>1, <2>2, <2>3, <2>4, <2>5 DEF ScanProgress
  <2>7. QED BY <2>1, <2>6
<1>2. ASSUME NEW a \in Desks, DeskNext(a)
      PROVE  CasesInv'
  <2>1. creating' = creating
    BY <1>2 DEF DeskNext, ResolveRead, ResolveCommit, Resolve, AlreadyResolved, AddNote,
                DeskTo, scanVars
  <2>2. ASSUME NEW c \in Cases, NEW choice \in Resolutions, ResolveRead(a, c, choice)
        PROVE  CasesInv'
    <3>1. CasesTypeOK' /\ DesksOK'
      BY <2>2 DEF ResolveRead, DeskTo, scanVars, CasesTypeOK, DesksOK
    <3>2. \A s \in Subjects : Open(s)' = Open(s) /\ CreatorsOf(s)' = CreatorsOf(s)
      BY <2>1, <2>2 DEF ResolveRead, Open, Of, Cases, CreatorsOf
    <3>3. QED BY <3>1, <3>2, RoomKept, TrustCasesAssumption
  <2>3. CASE ResolveCommit(a)
    <3>1. deskCase[a] \in Cases /\ deskChoice[a] \in Resolutions /\ deskChoice[a] # None
      BY <2>3, TrustCasesAssumption DEF ResolveCommit, DesksOK
    <3>2. CasesTypeOK' /\ DesksOK'
      BY <2>3, <3>1 DEF ResolveCommit, Resolve, DeskTo, scanVars, CasesTypeOK, DesksOK
    <3>3. \A s \in Subjects : Open(s)' \subseteq Open(s) /\ CreatorsOf(s)' = CreatorsOf(s)
      BY <2>1, <2>3, <3>1 DEF ResolveCommit, Resolve, CasesTypeOK, Open, Of, Cases,
                              OpenStatuses, CreatorsOf
    <3>4. QED BY <3>2, <3>3, RoomKept, TrustCasesAssumption
  <2>4. CASE AlreadyResolved(a) \/ \E c \in Cases : AddNote(a, c)
    <3>1. CasesTypeOK' /\ DesksOK'
      BY <2>4 DEF AlreadyResolved, AddNote, DeskTo, scanVars, deskVars, CasesTypeOK, DesksOK
    <3>2. \A s \in Subjects : Open(s)' = Open(s) /\ CreatorsOf(s)' = CreatorsOf(s)
      BY <2>1, <2>4 DEF AlreadyResolved, AddNote, Open, Of, Cases, CreatorsOf
    <3>3. QED BY <3>1, <3>2, RoomKept, TrustCasesAssumption
  <2>5. QED BY <1>2, <2>2, <2>3, <2>4 DEF DeskNext
<1>3. ASSUME NEW s \in Subjects, Grow(s) \/ Fade(s)
      PROVE  CasesInv'
  <2>1. UNCHANGED <<rowVars, scanVars, deskVars>> /\ evidence' \in [Subjects -> 0 .. MaxEvidence]
    BY <1>3, TrustCasesAssumption DEF Grow, Fade, CasesTypeOK
  <2>2. CasesTypeOK' /\ DesksOK'
    BY <2>1 DEF rowVars, scanVars, deskVars, CasesTypeOK, DesksOK
  <2>3. \A r \in Subjects : Open(r)' = Open(r) /\ CreatorsOf(r)' = CreatorsOf(r)
    BY <2>1 DEF rowVars, scanVars, Open, Of, Cases, CreatorsOf
  <2>4. QED BY <2>2, <2>3, RoomKept, TrustCasesAssumption
<1>4. CASE UNCHANGED caseVars
  <2>1. CasesTypeOK' /\ DesksOK'
    BY <1>4 DEF caseVars, rowVars, scanVars, deskVars, CasesTypeOK, DesksOK
  <2>2. \A r \in Subjects : Open(r)' = Open(r) /\ CreatorsOf(r)' = CreatorsOf(r)
    BY <1>4 DEF caseVars, rowVars, scanVars, Open, Of, Cases, CreatorsOf
  <2>3. QED BY <2>1, <2>2, RoomKept, TrustCasesAssumption
<1>5. QED BY <1>1, <1>2, <1>3, <1>4 DEF CasesNext

LEMMA CasesInductive == CasesSpec => []CasesInv
  BY CasesInitInv, CasesStep, PTL DEF CasesSpec

\* The find-then-create of runFraudScan opens at most as many cases of one
\* subject as there are scans, and each is in the queue of the admins.
THEOREM CasesStayBounded == CasesSpec => []OpenCasesBounded
<1>1. CasesInv => OpenCasesBounded
  <2> SUFFICES ASSUME CasesInv, NEW s \in Subjects
               PROVE  /\ Cardinality(Open(s)) <= Cardinality(Scanners)
                      /\ \A c \in Open(s) : c \in CaseQueue /\ ShowResolve(c)
                      /\ \A c \in Of(s) \ Open(s) :
                            caseStatus[c] # "NONE" => ShowResolution(c)
    BY DEF OpenCasesBounded
  <2>1. Cardinality(Open(s)) <= Cardinality(Scanners)
    BY SetsFinite DEF CasesInv, RoomForCreators
  <2>2. \A c \in Open(s) : c \in CaseQueue /\ ShowResolve(c)
    BY DEF Open, Of, OpenStatuses, CaseQueue, ShowResolve
  <2>3. ASSUME NEW c \in Of(s) \ Open(s), caseStatus[c] # "NONE"
        PROVE  ShowResolution(c)
    <3>1. caseStatus[c] = "RESOLVED" /\ resolution[c] # None
      BY <2>3 DEF CasesInv, CasesTypeOK, Open, Of, OpenStatuses
    <3>2. QED BY <3>1 DEF ShowResolution, ShowResolve
  <2>4. QED BY <2>1, <2>2, <2>3
<1>2. QED BY CasesInductive, <1>1, PTL

\* The guarded update of resolveTrustCase: a resolved case stays resolved the
\* way it was, whoever else decides, scans or annotates.
THEOREM ResolutionsStand == CasesSpec => ResolutionStands
<1> DEFINE Stands == \A c \in Cases :
                        caseStatus[c] = "RESOLVED" =>
                           /\ caseStatus'[c] = "RESOLVED"
                           /\ resolution'[c] = resolution[c]
<1>1. CasesInv /\ [CasesNext]_caseVars => [Stands]_caseVars
  <2> SUFFICES ASSUME CasesInv, CasesNext
               PROVE  Stands
    OBVIOUS
  <2>1. ASSUME NEW x \in Scanners, NEW c \in Cases, Create(x, c)
        PROVE  Stands
    BY <2>1 DEF Create, Fresh, CasesInv, CasesTypeOK
  <2>2. ASSUME NEW a \in Desks, ResolveCommit(a)
        PROVE  Stands
    BY <2>2 DEF ResolveCommit, Resolve, OpenStatuses, CasesInv, CasesTypeOK
  <2>3. CASE UNCHANGED <<caseStatus, resolution>>
    BY <2>3
  <2>4. ASSUME NEW x \in Scanners, ScanProgress(x) \/ CreateFails(x) \/ ScanDies(x)
        PROVE  Stands
    BY <2>1, <2>3, <2>4 DEF ScanProgress, QueryDrivers, QueryApplications, QueryBuyers,
         QuerySellers, Query, ScanDone, SkipOpen, FindNone, Find, CreateFails, ScanDies, rowVars
  <2>5. ASSUME NEW a \in Desks, DeskNext(a)
        PROVE  Stands
    BY <2>2, <2>3, <2>5 DEF DeskNext, ResolveRead, AlreadyResolved, AddNote
  <2>6. ASSUME NEW s \in Subjects, Grow(s) \/ Fade(s)
        PROVE  Stands
    BY <2>3, <2>6 DEF Grow, Fade, rowVars
  <2>7. QED BY <2>4, <2>5, <2>6 DEF CasesNext
<1>2. QED BY CasesInductive, <1>1, PTL DEF CasesSpec, ResolutionStands
-----------------------------------------------------------------------------
(* The buyers' scores.                                                     *)

\* The score that is stored is between 0 and 100, whatever the formula gives.
LEMMA ScoreInRange ==
    ASSUME NEW c \in [Kinds -> Nat]
    PROVE  Score(c) \in 0 .. 100
<1>1. c.total \in Nat /\ c.settled \in Nat /\ c.disputed \in Nat /\ c.refunded \in Nat
  BY DEF Kinds
<1>2. \A num \in Int, den \in Nat \ {0} : Rounded(num, den) \in Int
  BY DEF Rounded
<1>3. ASSUME NEW m \in Nat, NEW n \in Nat
      PROVE  m * n \in Nat /\ (m # 0 /\ n # 0 => m * n # 0)
  <2>1. CASE m = 0
    BY <2>1
  <2>2. CASE m # 0
    <3>1. m - 1 \in Nat /\ m * n = (m - 1) * n + n /\ (m - 1) * n \in Nat
      BY <2>2
    <3>2. QED BY <3>1
  <2>3. QED BY <2>1, <2>2
<1>4. Formula(c) \in Int
  <2> DEFINE gain == 50 * c.total * c.settled + 30 * c.settled * c.settled
             lost == 40 * Smaller(c.settled, c.disputed) * c.total
             paid == 20 * Smaller(c.settled, c.refunded) * c.total
  <2>1. gain \in Int /\ lost \in Int /\ paid \in Int
    BY <1>1, <1>3 DEF Smaller
  <2>2. gain - lost - paid \in Int
    BY <2>1
  <2>3. CASE c.total = 0 \/ c.settled = 0
    BY <2>3 DEF Formula
  <2>4. CASE c.total # 0 /\ c.settled # 0
    <3>1. c.total * c.settled \in Nat \ {0}
      BY <1>1, <1>3, <2>4
    <3>2. Formula(c) = Rounded(gain - lost - paid, c.total * c.settled)
      BY <1>1, <1>3, <2>1, <2>4 DEF Formula
    <3>3. QED BY <1>2, <2>2, <3>1, <3>2
  <2>5. QED BY <2>3, <2>4
<1>5. QED BY <1>4 DEF Score, Clamp

ScoreTypeOK ==
    /\ time \in Nat /\ lastStart \in Nat /\ since \in Int
    /\ orders \in [Buyers -> [Kinds -> Nat]]
    /\ touched \in [Buyers -> Nat]
    /\ score \in [Buyers -> 0 .. 100]
    /\ runPc \in {"idle", "query", "next", "count"}
    /\ left \subseteq Buyers /\ skipped \subseteq Buyers
    /\ reading \in [Kinds -> Nat \union {Unread}]
    /\ runPc = "count" => buyer \in left

\* Where the next run's window starts, at the latest.
NextWindow == lastStart + Period + Late - Interval - Margin

Stale(u) == score[u] # Score(orders[u])

ScoreClock ==
    /\ lastStart <= time /\ time <= lastStart + Period + Late
    /\ runPc # "idle" => since = lastStart - Interval - Margin

\* Nobody's change is forgotten: the next window will hold it, or this run's
\* query will, or the buyer is one of those the run has still to do.
ChangesCaught ==
    \A u \in Buyers \ skipped :
        Stale(u) => \/ touched[u] >= NextWindow
                    \/ runPc = "query" /\ touched[u] >= since
                    \/ runPc \in {"next", "count"} /\ u \in left

\* What was counted is what the rows say, or it changed since the run began.
CountsFresh ==
    runPc = "count" =>
        \/ touched[buyer] >= NextWindow
        \/ \A k \in Kinds : reading[k] # Unread => reading[k] = orders[buyer][k]

ScoreInv == ScoreTypeOK /\ ScoreClock /\ ChangesCaught /\ CountsFresh

LEMMA ScoreInitInv == ScoreInit => ScoreInv
<1> SUFFICES ASSUME ScoreInit PROVE ScoreInv
  OBVIOUS
<1>1. NoCounts \in [Kinds -> Nat] /\ Score(NoCounts) = 50
  BY DEF NoCounts, Kinds, Score, Formula, Clamp
<1>2. \A u \in Buyers : ~Stale(u)
  BY <1>1 DEF ScoreInit, Stale
<1>3. ScoreTypeOK
  BY <1>1 DEF ScoreInit, ScoreTypeOK, Blank
<1>4. ScoreClock
  BY ScoreAssumption DEF ScoreInit, ScoreClock
<1>5. QED
  BY <1>2, <1>3, <1>4 DEF ScoreInit, ScoreInv, ChangesCaught, CountsFresh

\* A change, whatever it is of, is stamped late enough for the next window.
LEMMA ChangeStep ==
    ASSUME ScoreInv, NEW u \in Buyers, NEW counts \in [Kinds -> Nat],
           NEW stamp \in 0 .. MaxTime, Changed(u, counts, stamp)
    PROVE  ScoreInv'
<1> USE ScoreAssumption
<1>1. /\ ScoreTypeOK /\ ScoreClock /\ ChangesCaught /\ CountsFresh
      /\ touched \in [Buyers -> Nat] /\ orders \in [Buyers -> [Kinds -> Nat]]
      /\ lastStart \in Nat /\ time \in Nat /\ lastStart <= time
      /\ stamp \in Nat /\ stamp + Lag >= time
  BY DEF ScoreInv, ScoreTypeOK, ScoreClock, Changed
<1>2. /\ UNCHANGED <<time, score, runPc, since, left, buyer, reading, lastStart,
                     skipped>>
      /\ orders' = [orders EXCEPT ![u] = counts]
      /\ touched' = [touched EXCEPT ![u] = IF stamp > @ THEN stamp ELSE @]
  BY DEF Changed, runVars
<1>3. touched' \in [Buyers -> Nat] /\ orders' \in [Buyers -> [Kinds -> Nat]]
  BY <1>1, <1>2
<1>4. /\ touched'[u] >= NextWindow
      /\ NextWindow' = NextWindow
      /\ \A v \in Buyers \ {u} : touched'[v] = touched[v] /\ orders'[v] = orders[v]
  BY <1>1, <1>2 DEF NextWindow
<1>5. ScoreTypeOK' /\ ScoreClock'
  BY <1>1, <1>2, <1>3 DEF ScoreTypeOK, ScoreClock
<1>6. ChangesCaught'
  BY <1>1, <1>2, <1>4 DEF ChangesCaught, Stale
<1>7. CountsFresh'
  BY <1>1, <1>2, <1>4 DEF CountsFresh, ScoreTypeOK
<1>8. QED BY <1>5, <1>6, <1>7 DEF ScoreInv

LEMMA BuyerStep ==
    ASSUME ScoreInv, NEW u \in Buyers, NEW stamp \in 0 .. MaxTime,
           \/ PlaceOrder(u, stamp) \/ PayOrder(u, stamp)
           \/ RefundOrder(u, stamp) \/ OpenDispute(u, stamp)
    PROVE  ScoreInv'
<1>1. orders[u] \in [Kinds -> Nat]
  BY DEF ScoreInv, ScoreTypeOK
<1>2. \A k \in Kinds : [orders[u] EXCEPT ![k] = @ + 1] \in [Kinds -> Nat]
  BY <1>1
<1>3. QED
  BY <1>2, ChangeStep DEF PlaceOrder, PayOrder, RefundOrder, OpenDispute, Kinds

LEMMA RunStep == ASSUME ScoreInv, RunNext PROVE ScoreInv'
<1> USE ScoreAssumption DEF buyerRows
<1>1. ScoreTypeOK /\ ScoreClock /\ ChangesCaught /\ CountsFresh
  BY DEF ScoreInv
<1>2. /\ time \in Nat /\ lastStart \in Nat /\ since \in Int
      /\ touched \in [Buyers -> Nat]
      /\ NextWindow \in Int
      /\ runPc # "idle" => NextWindow >= since
  BY <1>1 DEF ScoreTypeOK, ScoreClock, NextWindow
<1>3. CASE TakeClock
  <2>1. /\ runPc = "idle" /\ runPc' = "query" /\ lastStart' = time
        /\ since' = time - Interval - Margin
        /\ UNCHANGED <<time, orders, touched, score, left, buyer, reading, skipped>>
    BY <1>3 DEF TakeClock, RunStart
  <2>2. NextWindow >= since'
    BY <1>1, <1>2, <2>1 DEF ScoreClock, NextWindow
  <2>3. ScoreTypeOK' /\ ScoreClock' /\ CountsFresh'
    BY <1>1, <1>2, <2>1 DEF ScoreTypeOK, ScoreClock, CountsFresh
  <2>4. ChangesCaught'
    BY <1>1, <1>2, <2>1, <2>2 DEF ChangesCaught, Stale, ScoreTypeOK
  <2>5. QED BY <2>3, <2>4 DEF ScoreInv
<1>4. CASE QueryActive
  BY <1>1, <1>2, <1>4 DEF QueryActive, ScoreInv, ScoreTypeOK, ScoreClock,
     ChangesCaught, CountsFresh, Stale, NextWindow
<1>5. ASSUME NEW u \in Buyers, NextBuyer(u)
      PROVE  ScoreInv'
  BY <1>1, <1>2, <1>5 DEF NextBuyer, ScoreInv, ScoreTypeOK, ScoreClock,
     ChangesCaught, CountsFresh, Stale, NextWindow, Blank, Unread
<1>6. ASSUME NEW k \in Kinds, Count(k)
      PROVE  ScoreInv'
  BY <1>1, <1>2, <1>6 DEF Count, ScoreInv, ScoreTypeOK, ScoreClock,
     ChangesCaught, CountsFresh, Stale, NextWindow
<1>7. CASE WriteScore
  <2>1. /\ runPc = "count" /\ runPc' = "next" /\ buyer \in left
        /\ \A k \in Kinds : reading[k] # Unread
        /\ score' = [score EXCEPT ![buyer] = Score(reading)]
        /\ skipped' = skipped \ {buyer} /\ left' = left \ {buyer}
        /\ reading' = Blank
        /\ UNCHANGED <<time, orders, touched, since, lastStart>>
    BY <1>1, <1>7 DEF WriteScore, ScoreTypeOK
  <2>2. buyer \in Buyers /\ reading \in [Kinds -> Nat]
    BY <1>1, <2>1 DEF ScoreTypeOK
  <2>3. Score(reading) \in 0 .. 100
    BY <2>2, ScoreInRange
  <2>4. ScoreTypeOK'
    BY <1>1, <2>1, <2>3 DEF ScoreTypeOK, Blank
  <2>5. touched[buyer] >= NextWindow \/ reading = orders[buyer]
    BY <1>1, <2>1, <2>2 DEF CountsFresh, ScoreTypeOK
  <2>6. /\ score'[buyer] = Score(reading)
        /\ \A v \in Buyers \ {buyer} : score'[v] = score[v]
    BY <1>1, <2>1, <2>2 DEF ScoreTypeOK
  <2>7. ChangesCaught'
    BY <1>1, <2>1, <2>2, <2>5, <2>6 DEF ChangesCaught, Stale, NextWindow
  <2>8. QED
    BY <1>1, <2>1, <2>4, <2>7 DEF ScoreInv, ScoreClock, CountsFresh
<1>8. CASE RunEnds
  BY <1>1, <1>2, <1>8 DEF RunEnds, ScoreInv, ScoreTypeOK, ScoreClock,
     ChangesCaught, CountsFresh, Stale, NextWindow
<1>9. CASE RunFails
  BY <1>1, <1>2, <1>9 DEF RunFails, ScoreInv, ScoreTypeOK, ScoreClock,
     ChangesCaught, CountsFresh, Stale, NextWindow, Blank
<1>10. QED
  BY <1>3, <1>4, <1>5, <1>6, <1>7, <1>8, <1>9 DEF RunNext

LEMMA ScoreStep == ScoreInv /\ [ScoreNext]_scoreVars => ScoreInv'
<1> SUFFICES ASSUME ScoreInv, [ScoreNext]_scoreVars
             PROVE  ScoreInv'
  OBVIOUS
<1> USE DEF buyerRows, runVars
<1>1. CASE ScoreTick
  BY <1>1, ScoreAssumption DEF ScoreTick, ScoreInv, ScoreTypeOK, ScoreClock,
     ChangesCaught, CountsFresh, Stale, NextWindow
<1>2. CASE RunNext
  BY <1>2, RunStep
<1>3. ASSUME NEW u \in Buyers, NEW stamp \in 0 .. MaxTime,
             \/ PlaceOrder(u, stamp) \/ PayOrder(u, stamp)
             \/ RefundOrder(u, stamp) \/ OpenDispute(u, stamp)
      PROVE  ScoreInv'
  BY <1>3, BuyerStep
<1>4. CASE UNCHANGED scoreVars
  BY <1>4 DEF scoreVars, ScoreInv, ScoreTypeOK, ScoreClock, ChangesCaught,
     CountsFresh, Stale, NextWindow
<1>5. QED BY <1>1, <1>2, <1>3, <1>4 DEF ScoreNext

LEMMA ScoreInductive == ScoreSpec => []ScoreInv
  BY ScoreInitInv, ScoreStep, PTL DEF ScoreSpec

\* Every stored score is a number from 0 to 100, and the rest of the types.
THEOREM ScoresTyped == ScoreSpec => []ScoreTypeOK
<1>1. ScoreInv => ScoreTypeOK
  BY DEF ScoreInv
<1>2. QED BY ScoreInductive, <1>1, PTL

\* The look-back of recomputeActiveBuyerTrustScores covers every change,
\* however the counts of a run interleave with new orders and disputes, as
\* long as the period, the delay of a tick and that of a commit fit in it.
THEOREM NobodyIsSkipped == ScoreSpec => []NobodySkipped
<1>1. ScoreInv => NobodySkipped
  BY DEF ScoreInv, ChangesCaught, NobodySkipped, Stale, NextWindow
<1>2. QED BY ScoreInductive, <1>1, PTL

-----------------------------------------------------------------------------
(* The job queues.                                                         *)

QueueCount == Len(QueueOrder)

JobTypeOK ==
    /\ replicaPc \in [Replicas ->
                         {"down", "booting", "up", "closing", "disconnecting"}]
    /\ bootAt \in [Replicas -> 0 .. 2 * QueueCount]
    /\ schedulers \in [Queues -> 0 .. 1]
    /\ waiting \in [Queues -> 0 .. MaxWaiting]
    /\ stalled \in [Queues -> 0 .. MaxWaiting]
    /\ running \in [Replicas -> SUBSET Queues]

\* The first step of a boot for a queue leaves a scheduler of it in Redis.
BootsSchedule ==
    \A r \in Replicas : \A i \in 1 .. QueueCount :
        2 * i - 1 <= bootAt[r] => schedulers[QueueOrder[i]] = 1

\* A replica past its boot has started every queue, and one without a
\* connection runs no job.
LifeOK ==
    \A r \in Replicas :
        /\ replicaPc[r] \in {"up", "closing", "disconnecting"} => bootAt[r] = 2 * QueueCount
        /\ replicaPc[r] \in {"down", "disconnecting"} => running[r] = {}

JobInv == JobTypeOK /\ BootsSchedule /\ LifeOK

LEMMA QueueFacts ==
    /\ QueueCount \in Nat
    /\ \A i \in 1 .. QueueCount : QueueOrder[i] \in Queues
    /\ \A q \in Queues : \E i \in 1 .. QueueCount : QueueOrder[i] = q
  BY JobAssumption DEF Queues, QueueCount

LEMMA Enqueued ==
    ASSUME JobTypeOK, NEW q \in Queues, Enqueue(q)
    PROVE  waiting' \in [Queues -> 0 .. MaxWaiting]
  BY JobAssumption DEF JobTypeOK, Enqueue, AtMost

LEMMA JobInitInv == JobInit => JobInv
<1> SUFFICES ASSUME JobInit PROVE JobInv
  OBVIOUS
<1>1. JobTypeOK
  BY QueueFacts, JobAssumption DEF JobInit, JobTypeOK
<1>2. BootsSchedule /\ LifeOK
  BY QueueFacts DEF JobInit, BootsSchedule, LifeOK
<1>3. QED BY <1>1, <1>2 DEF JobInv

\* The queue that a boot is at.
LEMMA BootIsAt ==
    ASSUME JobTypeOK, NEW r \in Replicas, Booting(r)
    PROVE  /\ bootAt[r] \div 2 + 1 \in 1 .. QueueCount /\ AtQueue(r) \in Queues
           /\ bootAt[r] \in Nat /\ bootAt[r] + 1 \in 0 .. 2 * QueueCount
           /\ bootAt[r] % 2 = 0 =>
                 \A i \in 1 .. QueueCount :
                     2 * i - 1 <= bootAt[r] + 1 =>
                         2 * i - 1 <= bootAt[r] \/ QueueOrder[i] = AtQueue(r)
           /\ bootAt[r] % 2 = 1 =>
                 \A i \in 1 .. QueueCount : 2 * i - 1 <= bootAt[r] + 1 => 2 * i - 1 <= bootAt[r]
<1> DEFINE b == bootAt[r]
           n == QueueCount
<1>1. n \in Nat /\ b \in 0 .. 2 * n /\ b < 2 * n
  BY QueueFacts DEF JobTypeOK, Booting, QueueCount
<1> HIDE DEF n, b
<1>2. b \div 2 + 1 \in 1 .. n /\ b + 1 \in 0 .. 2 * n /\ b \in Nat
  BY <1>1
<1>3. ASSUME NEW i \in 1 .. n, 2 * i - 1 <= b + 1
      PROVE  /\ b % 2 = 0 => 2 * i - 1 <= b \/ i = b \div 2 + 1
             /\ b % 2 = 1 => 2 * i - 1 <= b
  BY <1>1, <1>3
<1>4. AtQueue(r) = QueueOrder[b \div 2 + 1] /\ AtQueue(r) \in Queues
  BY <1>2, QueueFacts DEF AtQueue, b, n
<1>5. QED BY <1>2, <1>3, <1>4 DEF b, n

LEMMA ReplicaStep ==
    ASSUME JobInv, NEW r \in Replicas, ReplicaNext(r)
    PROVE  JobInv'
<1> USE DEF JobInv, ReplicaTo, redisVars
<1>1. JobTypeOK /\ BootsSchedule /\ LifeOK /\ QueueCount \in Nat
  BY QueueFacts
<1>2. CASE ReplicaBoot(r)
  <2>1. JobTypeOK'
    BY <1>1, <1>2 DEF ReplicaBoot, JobTypeOK
  <2>2. BootsSchedule'
    BY <1>1, <1>2 DEF ReplicaBoot, JobTypeOK, BootsSchedule
  <2>3. LifeOK'
    BY <1>1, <1>2 DEF ReplicaBoot, JobTypeOK, LifeOK
  <2>4. QED BY <2>1, <2>2, <2>3
<1>3. CASE Upsert(r)
  <2>1. /\ Booting(r) /\ bootAt[r] % 2 = 0
        /\ schedulers' = [schedulers EXCEPT ![AtQueue(r)] = 1]
        /\ bootAt' = [bootAt EXCEPT ![r] = @ + 1]
        /\ UNCHANGED <<replicaPc, stalled, running, waiting>>
    BY <1>3 DEF Upsert, BootStep
  <2>2. JobTypeOK'
    BY <1>1, <2>1, BootIsAt DEF JobTypeOK
  <2>3. BootsSchedule'
    <3>1. \A q \in Queues : schedulers[q] = 1 \/ q = AtQueue(r) => schedulers'[q] = 1
      BY <1>1, <2>1, BootIsAt DEF JobTypeOK
    <3>2. \A s \in Replicas : \A i \in 1 .. QueueCount :
             2 * i - 1 <= bootAt'[s] =>
                 2 * i - 1 <= bootAt[s] \/ QueueOrder[i] = AtQueue(r)
      BY <1>1, <2>1, BootIsAt DEF JobTypeOK
    <3>3. QED BY <1>1, <3>1, <3>2, QueueFacts DEF BootsSchedule
  <2>4. LifeOK'
    BY <1>1, <2>1 DEF Booting, JobTypeOK, LifeOK
  <2>5. QED BY <2>2, <2>3, <2>4
<1>4. CASE AddBootJob(r)
  <2>1. /\ Booting(r) /\ bootAt[r] % 2 = 1 /\ Enqueue(AtQueue(r))
        /\ bootAt' = [bootAt EXCEPT ![r] = @ + 1]
        /\ UNCHANGED <<replicaPc, stalled, running, schedulers>>
    BY <1>4 DEF AddBootJob, BootStep
  <2>2. waiting' \in [Queues -> 0 .. MaxWaiting]
    BY <1>1, <2>1, BootIsAt, Enqueued
  <2>3. JobTypeOK'
    BY <1>1, <2>1, <2>2, BootIsAt DEF JobTypeOK
  <2>4. BootsSchedule'
    <3>1. \A s \in Replicas : \A i \in 1 .. QueueCount :
             2 * i - 1 <= bootAt'[s] => 2 * i - 1 <= bootAt[s]
      BY <1>1, <2>1, BootIsAt DEF JobTypeOK
    <3>2. QED BY <1>1, <2>1, <3>1 DEF BootsSchedule
  <2>5. LifeOK'
    BY <1>1, <2>1 DEF Booting, JobTypeOK, LifeOK
  <2>6. QED BY <2>3, <2>4, <2>5
<1>5. CASE BootDone(r) \/ ReplicaClose(r) \/ ReplicaDisconnect(r) \/ ReplicaExit(r)
  <2>1. JobTypeOK' /\ BootsSchedule'
    BY <1>1, <1>5
       DEF BootDone, ReplicaClose, ReplicaDisconnect, ReplicaExit, JobTypeOK, BootsSchedule
  <2>2. BootDone(r) => bootAt[r] = 2 * QueueCount
    <3>1. bootAt[r] \in 0 .. 2 * QueueCount
      BY <1>1 DEF JobTypeOK
    <3>2. BootDone(r) => ~(bootAt[r] < 2 * QueueCount)
      BY DEF BootDone, Booting, QueueCount
    <3>3. QED BY <1>1, <3>1, <3>2
  <2>3. LifeOK'
    BY <1>1, <1>5, <2>2
       DEF BootDone, ReplicaClose, ReplicaDisconnect, ReplicaExit, JobTypeOK, LifeOK
  <2>4. QED BY <2>1, <2>3
<1>6. CASE Crash(r)
  <2>1. stalled' \in [Queues -> 0 .. MaxWaiting]
    BY <1>1, <1>6, JobAssumption DEF Crash, JobTypeOK, AtMost
  <2>2. JobTypeOK'
    BY <1>1, <1>6, <2>1 DEF Crash, JobTypeOK
  <2>3. BootsSchedule' /\ LifeOK'
    BY <1>1, <1>6 DEF Crash, JobTypeOK, BootsSchedule, LifeOK
  <2>4. QED BY <2>2, <2>3
<1>7. QED BY <1>2, <1>3, <1>4, <1>5, <1>6 DEF ReplicaNext

\* Jobs come and go without a boot or a scheduler taking notice.
LEMMA WorkStep ==
    ASSUME JobInv, NEW q \in Queues,
           \/ SchedulerTick(q) \/ Redeliver(q) \/ StalledFails(q)
           \/ \E r \in Replicas : Take(r, q) \/ JobEnds(r, q)
    PROVE  JobInv'
<1>1. JobTypeOK /\ BootsSchedule /\ LifeOK
  BY DEF JobInv
<1>2. CASE SchedulerTick(q) \/ Redeliver(q) \/ StalledFails(q)
  <2>1. UNCHANGED <<replicaPc, bootAt, schedulers, running>>
    BY <1>2 DEF SchedulerTick, Redeliver, StalledFails
  <2>2. waiting' \in [Queues -> 0 .. MaxWaiting]
    BY <1>1, <1>2, Enqueued DEF SchedulerTick, Redeliver, StalledFails, JobTypeOK
  <2>3. stalled' \in [Queues -> 0 .. MaxWaiting]
    BY <1>1, <1>2, JobAssumption DEF SchedulerTick, Redeliver, StalledFails, JobTypeOK
  <2>4. QED BY <1>1, <2>1, <2>2, <2>3 DEF JobInv, JobTypeOK, BootsSchedule, LifeOK
<1>3. ASSUME NEW r \in Replicas, Take(r, q) PROVE JobInv'
  <2>1. JobTypeOK'
    BY <1>1, <1>3, JobAssumption DEF Take, JobTypeOK
  <2>2. BootsSchedule' /\ LifeOK'
    BY <1>1, <1>3 DEF Take, JobTypeOK, BootsSchedule, LifeOK
  <2>3. QED BY <2>1, <2>2 DEF JobInv
<1>4. ASSUME NEW r \in Replicas, JobEnds(r, q) PROVE JobInv'
  <2>1. JobTypeOK'
    BY <1>1, <1>4 DEF JobEnds, redisVars, JobTypeOK
  <2>2. BootsSchedule' /\ LifeOK'
    BY <1>1, <1>4 DEF JobEnds, redisVars, JobTypeOK, BootsSchedule, LifeOK
  <2>3. QED BY <2>1, <2>2 DEF JobInv
<1>5. QED BY <1>2, <1>3, <1>4

LEMMA JobStep == JobInv /\ [JobNext]_jobVars => JobInv'
<1> SUFFICES ASSUME JobInv, [JobNext]_jobVars PROVE JobInv'
  OBVIOUS
<1>1. CASE JobNext
  BY <1>1, ReplicaStep, WorkStep DEF JobNext
<1>2. CASE UNCHANGED jobVars
  BY <1>2 DEF jobVars, redisVars, JobInv, JobTypeOK, BootsSchedule, LifeOK
<1>3. QED BY <1>1, <1>2

LEMMA JobInductive == JobSpec => []JobInv
  BY JobInitInv, JobStep, PTL DEF JobSpec

\* However many replicas boot, stop and crash: a queue has at most one
\* scheduler, an up replica found or left one for every queue and has a worker
\* on each, and no job runs on a connection that a shutdown is closing or has
\* closed (the *-queue.ts files, index.ts).
JobsAreSound ==
    \A r \in Replicas : \A q \in Queues :
        /\ schedulers[q] <= 1
        /\ replicaPc[r] = "up" => schedulers[q] = 1 /\ WorkerStarted(r, q)
        /\ replicaPc[r] \in {"down", "disconnecting"} => q \notin running[r]

\* Whatever crashes cut a boot or a job short (index.ts:82-131, and the shutdown
\* at index.ts:227).
THEOREM JobsStaySound == JobSpec => []JobsAreSound
<1>1. ASSUME JobInv PROVE JobsAreSound
  <2> SUFFICES ASSUME NEW r \in Replicas, NEW q \in Queues
               PROVE  /\ schedulers[q] <= 1
                      /\ replicaPc[r] = "up" => schedulers[q] = 1 /\ WorkerStarted(r, q)
                      /\ replicaPc[r] \in {"down", "disconnecting"} => q \notin running[r]
    BY DEF JobsAreSound
  <2>1. PICK i \in 1 .. QueueCount : QueueOrder[i] = q
    BY QueueFacts
  <2>2. schedulers[q] <= 1
    BY <1>1 DEF JobInv, JobTypeOK
  <2>3. ASSUME replicaPc[r] = "up" PROVE schedulers[q] = 1 /\ WorkerStarted(r, q)
    <3>1. bootAt[r] = 2 * QueueCount /\ 2 * i - 1 <= bootAt[r] /\ 2 * i <= bootAt[r]
      BY <1>1, <2>1, <2>3, QueueFacts DEF JobInv, LifeOK
    <3>2. QED BY <1>1, <2>1, <3>1 DEF JobInv, BootsSchedule, WorkerStarted, QueueCount
  <2>4. QED BY <1>1, <2>2, <2>3 DEF JobInv, LifeOK
<1>2. JobInv => JobsAreSound
  BY <1>1
<1>3. QED BY JobInductive, <1>2, PTL
=============================================================================
