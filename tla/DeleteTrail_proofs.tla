-------------------------- MODULE DeleteTrail_proofs --------------------------
(***************************************************************************)
(* DeleteTrail for every finite set of keys and requests, every policy and *)
(* every bound: an inductive invariant, and from it that deletions are     *)
(* authorised by their quorum of patient holders, that the rolling window  *)
(* cannot be got round, and that the trail is append-only.                 *)
(***************************************************************************)
EXTENDS DeleteTrail, FiniteSetTheorems, TLAPS

\* The larger of the scope's quorum and the escalated one is at least each.
LEMMA MaxOfTwo ==
  ASSUME NEW x \in Nat, NEW y \in Nat
  PROVE  Max({x, y}) \in Nat /\ Max({x, y}) >= x /\ Max({x, y}) >= y
<1>1. \E m \in {x, y} : \A n \in {x, y} : m >= n
  BY DEF Max
<1>2. Max({x, y}) \in {x, y} /\ \A n \in {x, y} : Max({x, y}) >= n
  BY <1>1 DEF Max
<1> QED
  BY <1>2

\* Every element of a sequence over S is in S.
LEMMA ElementsOf ==
  ASSUME NEW S, NEW s \in Seq(S)
  PROVE  \A i \in DOMAIN s : s[i] \in S
  OBVIOUS

\* A sequence grows at its end.
LEMMA AppendOf ==
  ASSUME NEW S, NEW s \in Seq(S), NEW e
  PROVE  /\ e \in S => Append(s, e) \in Seq(S)
         /\ \A i \in DOMAIN Append(s, e) : \/ Append(s, e)[i] = e
                                           \/ i \in DOMAIN s /\ Append(s, e)[i] = s[i]
  OBVIOUS

\* What a report holds.
LEMMA ReportsTyped ==
  ASSUME IndInv
  PROVE  \A i \in DOMAIN reported : reported[i].request \in Request
<1> DEFINE R == [request : Request, at : 0 .. MaxTime, now : 0 .. MaxTime, holders : SUBSET Key]
<1>1. reported \in Seq(R)
  BY DEF IndInv, TypeOK
<1>2. \A i \in DOMAIN reported : reported[i] \in R
  BY <1>1, ElementsOf
<1> QED
  BY <1>2

\* The window counts a part of a finite set.
LEMMA WindowCounts ==
  /\ InWindow \in Nat
  /\ \A S \in SUBSET {r \in Request : Recorded(r) /\ Since(now, executions[r].at) < Window} :
       Cardinality(S) <= InWindow /\ Cardinality(S) \in Nat
<1> DEFINE W == {r \in Request : Recorded(r) /\ Since(now, executions[r].at) < Window}
<1>1. W \in SUBSET Request
  OBVIOUS
<1>2. IsFiniteSet(W)
  BY <1>1, FS_Subset, FinitenessAssumption
<1>3. InWindow = Cardinality(W)
  BY DEF InWindow
<1>4. Cardinality(W) \in Nat
  BY <1>2, FS_CardinalityType
<1>5. ASSUME NEW S \in SUBSET W PROVE Cardinality(S) <= Cardinality(W) /\ Cardinality(S) \in Nat
  BY <1>2, FS_Subset, FS_CardinalityType
<1> QED
  BY <1>3, <1>4, <1>5

\* What a request owes is at least what its scope owes, and more in a full window.
LEMMA RequiredBounds ==
  ASSUME NEW r \in Request
  PROVE  /\ Required(r) \in Nat /\ Base(r.scope) \in Nat
         /\ Required(r) >= Base(r.scope)
         /\ InWindow >= Objects => Required(r) >= EscalateTo
<1>1. Base(r.scope) \in Nat /\ EscalateTo \in Nat /\ Objects \in Nat
  BY ConstantsAssumption DEF Base
<1>2. InWindow \in Nat
  BY WindowCounts
<1>3. /\ Max({Base(r.scope), EscalateTo}) \in Nat
      /\ Max({Base(r.scope), EscalateTo}) >= Base(r.scope)
      /\ Max({Base(r.scope), EscalateTo}) >= EscalateTo
  BY <1>1, MaxOfTwo
<1> QED
  BY <1>1, <1>2, <1>3 DEF Required

\* The deliberate holders of a request are a finite set.
LEMMA DeliberateFinite ==
  ASSUME NEW r
  PROVE  IsFiniteSet(Deliberate(r)) /\ Cardinality(Deliberate(r)) \in Nat
<1>1. Deliberate(r) \in SUBSET Key
  BY ConstantsAssumption DEF Deliberate
<1>2. IsFiniteSet(Deliberate(r))
  BY <1>1, FS_Subset, FinitenessAssumption
<1> QED
  BY <1>2, FS_CardinalityType

\* Whoever decide counts has deliberated.
LEMMA CountedAreDeliberate ==
  ASSUME IndInv, NEW r \in Request, NEW as \in Offered, Decide(r, as)
  PROVE  /\ Holders(as) \in SUBSET Key
         /\ Cardinality(Holders(as)) \in Nat
         /\ Cardinality(Deliberate(r)) >= Base(r.scope)
<1>0. PICK n \in 0 .. MaxApprovals : as \in [1 .. n -> signed]
  BY DEF Offered
<1>1. \A i \in DOMAIN as : as[i] \in signed /\ as[i] \in Approval
  <2>1. \A i \in DOMAIN as : as[i] \in signed
    BY <1>0
  <2>2. signed \subseteq Approval
    BY DEF IndInv, TypeOK
  <2> QED
    BY <2>1, <2>2
<1>2. \A i \in DOMAIN as : /\ as[i].request = r /\ as[i].by \in Authority /\ as[i].by # r.by
                           /\ as[i] = [request |-> r, by |-> as[i].by]
  BY <1>1 DEF Decide, ExecutionOk, Approval
<1>3. \A i \in DOMAIN as : as[i].by \in Deliberate(r)
  <2> SUFFICES ASSUME NEW i \in DOMAIN as PROVE as[i].by \in Deliberate(r)
    OBVIOUS
  <2>1. /\ as[i] \in signed /\ as[i].request = r /\ as[i].by \in Authority \ {r.by}
        /\ [request |-> r, by |-> as[i].by] \in signed
    BY <1>1, <1>2
  <2>2. firstSeen[as[i].by][r] # None /\ Since(clock, firstSeen[as[i].by][r]) >= CoolingOff
    BY <2>1 DEF IndInv, SignedIsDeliberate
  <2> QED
    BY <2>1, <2>2 DEF Deliberate
<1>4. Holders(as) \in SUBSET Deliberate(r)
  BY <1>3 DEF Holders
<1>5. Deliberate(r) \in SUBSET Key
  BY ConstantsAssumption DEF Deliberate
<1> DEFINE h == Cardinality(Holders(as))
           d == Cardinality(Deliberate(r))
           q == Required(r)
           b == Base(r.scope)
<1>6. h <= d /\ h \in Nat
  BY <1>4, DeliberateFinite, FS_Subset, FS_CardinalityType
<1>7. h >= q
  BY DEF Decide
<1>8. q \in Nat /\ b \in Nat /\ q >= b /\ d \in Nat
  BY RequiredBounds, DeliberateFinite
<1> HIDE DEF h, d, q, b
<1>9. d >= b
  BY <1>6, <1>7, <1>8
<1> QED
  BY <1>4, <1>5, <1>6, <1>9 DEF h, d, b

\* A reported execution was judged with the window as it stood.
LEMMA ReportEscalates ==
  ASSUME IndInv, NEW r \in Request, NEW as \in Offered, Decide(r, as), Report(r, as)
  PROVE  DecompositionEscalates'
<1> DEFINE E == [request |-> r, at |-> executions'[r].at, now |-> now, holders |-> Holders(as)]
           W == {q \in Request : Recorded(q) /\ Since(now, executions[q].at) < Window}
<1>1. /\ reported' = Append(reported, E)
      /\ reported \in Seq([request : Request, at : 0 .. MaxTime, now : 0 .. MaxTime,
                           holders : SUBSET Key])
  BY DEF Report, IndInv, TypeOK
<1>0. PICK n \in Nat : n = Len(reported)
  BY <1>1
<1>2. /\ n \in Nat /\ DOMAIN reported = 1 .. n /\ DOMAIN reported' = 1 .. n + 1
      /\ \A i \in 1 .. n : reported'[i] = reported[i]
      /\ reported'[n + 1] = E
  BY <1>0, <1>1
<1>3. \A i \in 1 .. n : CountedBefore(i)' = CountedBefore(i)
  BY <1>2 DEF CountedBefore
<1>4. \A i \in 1 .. n : Cardinality(CountedBefore(i)') >= Objects
                          => Cardinality(reported'[i].holders) >= EscalateTo
  BY <1>2, <1>3 DEF IndInv, DecompositionEscalates
<1>5. CountedBefore(n + 1)' \in SUBSET W
  <2>1. \A j \in 1 .. n : /\ reported[j].request \in Request
                          /\ Recorded(reported[j].request)
                          /\ executions[reported[j].request].at = reported[j].at
    BY <1>2, ReportsTyped DEF IndInv, ReportedIsRecorded
  <2>2. ASSUME NEW q \in CountedBefore(n + 1)'
        PROVE  \E j \in 1 .. n : q = reported[j].request /\ Since(now, reported[j].at) < Window
    <3>1. CountedBefore(n + 1)' =
            {reported'[j].request : j \in {j \in 1 .. n + 1 - 1 :
               Since(reported'[n + 1].now, reported'[j].at) < Window}} \ {reported'[n + 1].request}
      BY DEF CountedBefore
    <3>2. PICK j \in 1 .. n + 1 - 1 :
            q = reported'[j].request /\ Since(reported'[n + 1].now, reported'[j].at) < Window
      BY <2>2, <3>1
    <3>3. j \in 1 .. n
      BY <1>2
    <3>4. reported'[j] = reported[j] /\ reported'[n + 1].now = now
      BY <1>2, <3>3
    <3> QED
      BY <3>2, <3>3, <3>4
  <2> QED
    BY <2>1, <2>2
<1> DEFINE c == Cardinality(CountedBefore(n + 1)')
           w == InWindow
           h == Cardinality(Holders(as))
           q == Required(r)
<1>6. c <= w /\ c \in Nat /\ w \in Nat
  BY <1>5, WindowCounts
<1>7. h \in Nat /\ q \in Nat /\ h >= q /\ (w >= Objects => q >= EscalateTo)
  BY CountedAreDeliberate, RequiredBounds DEF Decide
<1> HIDE DEF c, w, h, q
<1>8. c >= Objects => h >= EscalateTo
  <2>1. Objects \in Nat /\ EscalateTo \in Nat
    BY ConstantsAssumption
  <2> QED
    BY <1>6, <1>7, <2>1
<1>9. reported'[n + 1].holders = Holders(as)
  BY <1>2
<1>10. \A i \in 1 .. n + 1 : i \in 1 .. n \/ i = n + 1
  BY <1>2
<1>11. \A i \in 1 .. n + 1 : Cardinality(CountedBefore(i)') >= Objects
                          => Cardinality(reported'[i].holders) >= EscalateTo
  <2> TAKE i \in 1 .. n + 1
  <2>1. CASE i \in 1 .. n
    BY <2>1, <1>4
  <2>2. CASE i = n + 1
    BY <2>2, <1>8, <1>9 DEF c, h
  <2> QED
    BY <2>1, <2>2, <1>10
<1> QED
  BY <1>2, <1>11 DEF DecompositionEscalates

\* What the approvers' devices do between two states of one behaviour.
DevicesAdvance ==
  /\ signed \subseteq signed'
  /\ clock' \in Nat /\ clock' >= clock
  /\ \A k \in Authority, r \in Request :
       firstSeen[k][r] # None => firstSeen'[k][r] = firstSeen[k][r]

\* A wait that is over stays over.
LEMMA WaitIsOver ==
  ASSUME IndInv, DevicesAdvance, NEW k \in Authority, NEW r \in Request,
         firstSeen[k][r] # None, Since(clock, firstSeen[k][r]) >= CoolingOff
  PROVE  firstSeen'[k][r] # None /\ Since(clock', firstSeen'[k][r]) >= CoolingOff
<1>1. firstSeen[k][r] \in 0 .. MaxTime /\ clock \in 0 .. MaxTime
  BY DEF IndInv, TypeOK
<1>2. firstSeen'[k][r] = firstSeen[k][r]
  BY DEF DevicesAdvance
<1>3. clock' \in Nat /\ clock' >= clock
  BY DEF DevicesAdvance
<1> QED
  BY <1>1, <1>2, <1>3, ConstantsAssumption DEF Since

\* Deliberation is never taken back.
LEMMA DeliberateGrows ==
  ASSUME IndInv, DevicesAdvance, NEW r \in Request
  PROVE  /\ Cardinality(Deliberate(r)) <= Cardinality(Deliberate(r)')
         /\ Cardinality(Deliberate(r)) \in Nat /\ Cardinality(Deliberate(r)') \in Nat
<1>1. Deliberate(r) \in SUBSET (Deliberate(r)')
  <2> SUFFICES ASSUME NEW k \in Deliberate(r) PROVE k \in Deliberate(r)'
    OBVIOUS
  <2>1. /\ k \in Authority /\ k # r.by /\ [request |-> r, by |-> k] \in signed
        /\ firstSeen[k][r] # None /\ Since(clock, firstSeen[k][r]) >= CoolingOff
    BY DEF Deliberate
  <2>2. firstSeen'[k][r] # None /\ Since(clock', firstSeen'[k][r]) >= CoolingOff
    BY <2>1, WaitIsOver
  <2> QED
    BY <2>1, <2>2 DEF Deliberate, DevicesAdvance
<1>2. Deliberate(r)' \in SUBSET Key
  BY ConstantsAssumption DEF Deliberate
<1>3. IsFiniteSet(Deliberate(r)')
  BY <1>2, FS_Subset, FinitenessAssumption
<1> QED
  BY <1>1, <1>3, FS_Subset, FS_CardinalityType

\* A step that reports nothing and records nothing new keeps the quorum and
\* the window.
LEMMA Kept ==
  ASSUME IndInv, DevicesAdvance, reported' = reported,
         \A r \in Request : executionsDisk'[r] # NoExecution => executionsDisk[r] # NoExecution
  PROVE  QuorumIsDeliberate' /\ DecompositionEscalates'
<1>1. \A r \in Request : Base(r.scope) \in Nat
  BY RequiredBounds
<1>2. \A r \in Request : Cardinality(Deliberate(r)) >= Base(r.scope)
                           => Cardinality(Deliberate(r)') >= Base(r.scope)
  <2> TAKE r \in Request
  <2>1. /\ Cardinality(Deliberate(r)) <= Cardinality(Deliberate(r)')
        /\ Cardinality(Deliberate(r)) \in Nat /\ Cardinality(Deliberate(r)') \in Nat
    BY DeliberateGrows
  <2> QED
    BY <2>1, <1>1
<1>3. \A i \in DOMAIN reported : reported[i].request \in Request
  BY ReportsTyped
<1>4. QuorumIsDeliberate'
  <2>1. \A r \in Request : executionsDisk'[r] # NoExecution => Cardinality(Deliberate(r)') >= Base(r.scope)
    BY <1>2 DEF IndInv, QuorumIsDeliberate
  <2>2. \A i \in DOMAIN reported : Cardinality(Deliberate(reported[i].request)) >= Base(reported[i].request.scope)
    BY DEF IndInv, QuorumIsDeliberate
  <2>3. \A i \in DOMAIN reported : Cardinality(Deliberate(reported[i].request)') >= Base(reported[i].request.scope)
    BY <1>2, <1>3, <2>2
  <2> QED
    BY <2>1, <2>3 DEF QuorumIsDeliberate, Deliberate
<1>5. DecompositionEscalates'
  BY DEF IndInv, DecompositionEscalates, CountedBefore
<1> QED
  BY <1>4, <1>5

\* Steps in which the devices do nothing.
LEMMA DevicesIdle ==
  ASSUME IndInv, UNCHANGED deviceVars
  PROVE  DevicesAdvance
BY ConstantsAssumption DEF IndInv, TypeOK, deviceVars, DevicesAdvance

-----------------------------------------------------------------------------
(* One lemma per action.                                                   *)

\* Nothing is on record, signed or reported at first.
LEMMA InitIndInv == Init => IndInv
<1> SUFFICES ASSUME Init PROVE IndInv
  OBVIOUS
<1>0. MaxTime \in Nat /\ MaxFaults \in Nat /\ Objects \in Nat
  BY ConstantsAssumption
<1>1. TypeOK
  BY <1>0 DEF Init, TypeOK
<1>2. ServedIsDurable /\ SignedIsDeliberate /\ ReportedIsRecorded
  BY DEF Init, ServedIsDurable, SignedIsDeliberate, ReportedIsRecorded
<1>3. QuorumIsDeliberate /\ DecompositionEscalates
  BY DEF Init, QuorumIsDeliberate, DecompositionEscalates
<1> QED
  BY <1>1, <1>2, <1>3 DEF IndInv

LEMMA LearnOfStep ==
  ASSUME IndInv, NEW k \in Authority, NEW r \in Request, LearnOf(k, r)
  PROVE  IndInv'
<1>0. clock \in 0 .. MaxTime /\ signed \subseteq Approval
  BY DEF IndInv, TypeOK
<1>1. TypeOK'
  BY DEF IndInv, TypeOK, LearnOf, peerVars
<1>2. ServedIsDurable' /\ ReportedIsRecorded'
  BY DEF IndInv, LearnOf, peerVars, ServedIsDurable, ReportedIsRecorded, Recorded
<1>3. \A j \in Authority, q \in Request :
        firstSeen[j][q] # None => firstSeen'[j][q] = firstSeen[j][q]
  BY DEF IndInv, TypeOK, LearnOf
<1>4. DevicesAdvance
  BY <1>3, ConstantsAssumption DEF LearnOf, DevicesAdvance, IndInv, TypeOK
<1>5. SignedIsDeliberate'
  BY <1>0, <1>3 DEF IndInv, SignedIsDeliberate, LearnOf, Approval
<1>6. QuorumIsDeliberate' /\ DecompositionEscalates'
  BY <1>4, Kept DEF LearnOf, peerVars
<1> QED
  BY <1>1, <1>2, <1>5, <1>6 DEF IndInv

LEMMA ApproveStep ==
  ASSUME IndInv, NEW k \in Authority, NEW r \in Request, Approve(k, r)
  PROVE  IndInv'
<1>1. TypeOK'
  BY ConstantsAssumption DEF IndInv, TypeOK, Approve, peerVars, Approval
<1>2. ServedIsDurable' /\ ReportedIsRecorded'
  BY DEF IndInv, Approve, peerVars, ServedIsDurable, ReportedIsRecorded, Recorded
<1>3. DevicesAdvance
  BY ConstantsAssumption DEF Approve, DevicesAdvance, IndInv, TypeOK
<1>4. SignedIsDeliberate'
  BY DEF IndInv, SignedIsDeliberate, Approve
<1>5. QuorumIsDeliberate' /\ DecompositionEscalates'
  BY <1>3, Kept DEF Approve, peerVars
<1> QED
  BY <1>1, <1>2, <1>4, <1>5 DEF IndInv

LEMMA OutsiderApprovesStep ==
  ASSUME IndInv, NEW k \in Key, NEW r \in Request, OutsiderApproves(k, r)
  PROVE  IndInv'
<1>1. TypeOK'
  BY DEF IndInv, TypeOK, OutsiderApproves, peerVars, Approval
<1>2. ServedIsDurable' /\ ReportedIsRecorded'
  BY DEF IndInv, OutsiderApproves, peerVars, ServedIsDurable, ReportedIsRecorded, Recorded
<1>3. DevicesAdvance
  BY ConstantsAssumption DEF OutsiderApproves, DevicesAdvance, IndInv, TypeOK
<1>4. SignedIsDeliberate'
  BY DEF IndInv, SignedIsDeliberate, OutsiderApproves
<1>5. QuorumIsDeliberate' /\ DecompositionEscalates'
  BY <1>3, Kept DEF OutsiderApproves, peerVars
<1> QED
  BY <1>1, <1>2, <1>4, <1>5 DEF IndInv

LEMMA ApproverClockStep ==
  ASSUME IndInv, ApproverClockTicks
  PROVE  IndInv'
<1>0. clock \in 0 .. MaxTime /\ MaxTime \in Nat /\ signed \subseteq Approval
  BY ConstantsAssumption DEF IndInv, TypeOK
<1>1. TypeOK'
  BY <1>0 DEF IndInv, TypeOK, ApproverClockTicks, peerVars
<1>2. ServedIsDurable' /\ ReportedIsRecorded'
  BY DEF IndInv, ApproverClockTicks, peerVars, ServedIsDurable, ReportedIsRecorded, Recorded
<1>3. DevicesAdvance
  BY <1>0 DEF ApproverClockTicks, DevicesAdvance
<1>4. SignedIsDeliberate'
  <2> SUFFICES ASSUME NEW a \in signed, a.by \in Authority
               PROVE  /\ firstSeen'[a.by][a.request] # None
                      /\ Since(clock', firstSeen'[a.by][a.request]) >= CoolingOff
    BY DEF SignedIsDeliberate, ApproverClockTicks
  <2>1. /\ a.request \in Request
        /\ firstSeen[a.by][a.request] # None
        /\ Since(clock, firstSeen[a.by][a.request]) >= CoolingOff
    BY <1>0 DEF Approval, IndInv, SignedIsDeliberate
  <2> QED
    BY <1>3, <2>1, WaitIsOver
<1>5. QuorumIsDeliberate' /\ DecompositionEscalates'
  BY <1>3, Kept DEF ApproverClockTicks, peerVars
<1> QED
  BY <1>1, <1>2, <1>4, <1>5 DEF IndInv

\* The faults are counted up to their bound.
LEMMA FaultCounts ==
  ASSUME IndInv, WriteFails \/ UNCHANGED faults
  PROVE  faults' \in 0 .. MaxFaults
BY ConstantsAssumption DEF IndInv, TypeOK, WriteFails

LEMMA PublishDeleteRequestStep ==
  ASSUME IndInv, NEW s \in Subject, NEW r \in Request, PublishDeleteRequest(s, r)
  PROVE  IndInv'
<1>0. faults' \in 0 .. MaxFaults
  BY FaultCounts DEF PublishDeleteRequest
<1>1. TypeOK'
  BY <1>0 DEF IndInv, TypeOK, PublishDeleteRequest, deviceVars
<1>2. ServedIsDurable' /\ ReportedIsRecorded' /\ SignedIsDeliberate'
  BY DEF IndInv, PublishDeleteRequest, deviceVars, ServedIsDurable, ReportedIsRecorded,
         SignedIsDeliberate, Recorded
<1>3. UNCHANGED deviceVars /\ reported' = reported /\ executionsDisk' = executionsDisk
  BY DEF PublishDeleteRequest
<1>4. QuorumIsDeliberate' /\ DecompositionEscalates'
  BY <1>3, DevicesIdle, Kept
<1> QED
  BY <1>1, <1>2, <1>4 DEF IndInv

LEMMA PublishDeleteApprovalStep ==
  ASSUME IndInv, NEW a \in signed, PublishDeleteApproval(a)
  PROVE  IndInv'
<1>0. faults' \in 0 .. MaxFaults
  BY FaultCounts DEF PublishDeleteApproval
<1>1. TypeOK'
  BY <1>0 DEF IndInv, TypeOK, PublishDeleteApproval, deviceVars
<1>2. ServedIsDurable' /\ ReportedIsRecorded' /\ SignedIsDeliberate'
  BY DEF IndInv, PublishDeleteApproval, deviceVars, ServedIsDurable, ReportedIsRecorded,
         SignedIsDeliberate, Recorded
<1>3. UNCHANGED deviceVars /\ reported' = reported /\ executionsDisk' = executionsDisk
  BY DEF PublishDeleteApproval
<1>4. QuorumIsDeliberate' /\ DecompositionEscalates'
  BY <1>3, DevicesIdle, Kept
<1> QED
  BY <1>1, <1>2, <1>4 DEF IndInv

LEMMA RestartStep ==
  ASSUME IndInv, Restart
  PROVE  IndInv'
<1>1. TypeOK'
  BY DEF IndInv, TypeOK, Restart, deviceVars
<1>2. ServedIsDurable' /\ SignedIsDeliberate'
  BY DEF IndInv, Restart, deviceVars, ServedIsDurable, SignedIsDeliberate, Recorded
<1>3. ReportedIsRecorded'
  <2>1. \A q \in Request : Recorded(q) => executions'[q] = executions[q]
    BY DEF IndInv, ServedIsDurable, Restart
  <2> QED
    BY <2>1, ReportsTyped DEF IndInv, ReportedIsRecorded, Recorded, Restart
<1>4. UNCHANGED deviceVars /\ reported' = reported /\ executionsDisk' = executionsDisk
  BY DEF Restart
<1>5. QuorumIsDeliberate' /\ DecompositionEscalates'
  BY <1>4, DevicesIdle, Kept
<1> QED
  BY <1>1, <1>2, <1>3, <1>5 DEF IndInv

LEMMA ClockStep ==
  ASSUME IndInv, ClockMoves
  PROVE  IndInv'
<1>1. TypeOK'
  BY DEF IndInv, TypeOK, ClockMoves, deviceVars, peerVars
<1>2. ServedIsDurable' /\ SignedIsDeliberate' /\ ReportedIsRecorded'
  BY DEF IndInv, ClockMoves, deviceVars, peerVars, ServedIsDurable, SignedIsDeliberate,
         ReportedIsRecorded, Recorded
<1>3. UNCHANGED deviceVars /\ reported' = reported /\ executionsDisk' = executionsDisk
  BY DEF ClockMoves, peerVars
<1>4. QuorumIsDeliberate' /\ DecompositionEscalates'
  BY <1>3, DevicesIdle, Kept
<1> QED
  BY <1>1, <1>2, <1>4 DEF IndInv

\* The execution that would be written, typed.
LEMMA WrittenExecution ==
  ASSUME IndInv, NEW r \in Request, NEW as \in Offered, Decide(r, as)
  PROVE  [at |-> now, holders |-> Holders(as)] \in Execution
<1>1. now \in 0 .. MaxTime /\ Holders(as) \in SUBSET Key
  BY CountedAreDeliberate DEF IndInv, TypeOK
<1> QED
  BY <1>1 DEF Execution

\* A step that records r, or tries to, after decide has counted its holders.
LEMMA QuorumAtExecution ==
  ASSUME IndInv, NEW r \in Request, NEW as \in Offered, Decide(r, as),
         UNCHANGED deviceVars,
         \A q \in Request \ {r} : executionsDisk'[q] = executionsDisk[q],
         reported' = reported \/ Report(r, as)
  PROVE  QuorumIsDeliberate'
<1>1. \A q \in Request : Deliberate(q)' = Deliberate(q)
  BY DEF deviceVars, Deliberate
<1>2. Cardinality(Deliberate(r)) >= Base(r.scope)
  BY CountedAreDeliberate
<1>3. \A q \in Request : executionsDisk'[q] # NoExecution => Cardinality(Deliberate(q)) >= Base(q.scope)
  BY <1>2 DEF IndInv, QuorumIsDeliberate
<1>4. \A i \in DOMAIN reported' : \/ reported'[i].request = r
                                  \/ i \in DOMAIN reported /\ reported'[i] = reported[i]
  <2> DEFINE e == [request |-> r, at |-> executions'[r].at, now |-> now, holders |-> Holders(as)]
             R == [request : Request, at : 0 .. MaxTime, now : 0 .. MaxTime, holders : SUBSET Key]
  <2>1. reported' = reported \/ reported' = Append(reported, e)
    BY DEF Report
  <2>2. reported \in Seq(R) /\ e.request = r
    BY DEF IndInv, TypeOK
  <2> HIDE DEF e, R
  <2>3. \A i \in DOMAIN Append(reported, e) :
          \/ Append(reported, e)[i] = e
          \/ i \in DOMAIN reported /\ Append(reported, e)[i] = reported[i]
    BY <2>2, AppendOf
  <2> QED
    BY <2>1, <2>2, <2>3
<1>5. \A i \in DOMAIN reported' :
        /\ reported'[i].request \in Request
        /\ Cardinality(Deliberate(reported'[i].request)) >= Base(reported'[i].request.scope)
  BY <1>2, <1>4, ReportsTyped DEF IndInv, QuorumIsDeliberate
<1>6. \A i \in DOMAIN reported' :
        Cardinality((Deliberate(reported[i].request))') >= Base(reported'[i].request.scope)
  BY <1>5 DEF deviceVars, Deliberate
<1>7. \A q \in Request : executionsDisk'[q] # NoExecution => Cardinality(Deliberate(q)') >= Base(q.scope)
  BY <1>1, <1>3
<1> QED
  BY <1>6, <1>7 DEF QuorumIsDeliberate

LEMMA ExecuteDeleteStep ==
  ASSUME IndInv, NEW r \in Request, NEW as \in Offered, ExecuteDelete(r, as)
  PROVE  IndInv'
<1> DEFINE R == [request : Request, at : 0 .. MaxTime, now : 0 .. MaxTime, holders : SUBSET Key]
           x == [at |-> now, holders |-> Holders(as)]
<1>0. /\ Decide(r, as) /\ Report(r, as) /\ UNCHANGED deviceVars /\ UNCHANGED now
      /\ UNCHANGED <<requests, requestsDisk, approvals, approvalsDisk, faults>>
  BY DEF ExecuteDelete, Record
<1>1. x \in Execution /\ Holders(as) \in SUBSET Key
  BY <1>0, WrittenExecution, CountedAreDeliberate
<1>2. x # NoExecution /\ x.at = now
  BY DEF NoExecution, None, IndInv, TypeOK
<1>3. /\ executions \in [Request -> Execution \cup {NoExecution}]
      /\ executionsDisk \in [Request -> Execution \cup {NoExecution}]
      /\ now \in 0 .. MaxTime /\ reported \in Seq(R)
  BY DEF IndInv, TypeOK
<1>4. \/ Recorded(r) /\ executions' = executions /\ executionsDisk' = executionsDisk
      \/ /\ ~Recorded(r)
         /\ executions' = [executions EXCEPT ![r] = x]
         /\ executionsDisk' = [executionsDisk EXCEPT ![r] = x]
  BY <1>3 DEF ExecuteDelete, Record
<1> HIDE DEF x
<1>5. /\ executions' \in [Request -> Execution \cup {NoExecution}]
      /\ executionsDisk' \in [Request -> Execution \cup {NoExecution}]
  BY <1>1, <1>3, <1>4
<1>6. /\ Recorded(r)'
      /\ \A q \in Request : Recorded(q) => executions'[q] = executions[q]
      /\ \A q \in Request \ {r} : executions'[q] = executions[q] /\ executionsDisk'[q] = executionsDisk[q]
      /\ executions'[r] # NoExecution => executionsDisk'[r] = executions'[r]
  BY <1>2, <1>3, <1>4 DEF Recorded, IndInv, ServedIsDurable
<1>7. executions'[r].at \in 0 .. MaxTime
  <2>1. executions'[r] \in Execution
    BY <1>5, <1>6 DEF Recorded
  <2> QED
    BY <2>1 DEF Execution
<1> DEFINE e == [request |-> r, at |-> executions'[r].at, now |-> now, holders |-> Holders(as)]
<1>8. e \in R /\ reported' = Append(reported, e)
  BY <1>0, <1>1, <1>3, <1>7 DEF Report
<1>9. reported' \in Seq(R)
  <2> HIDE DEF e, R
  <2> QED
    BY <1>3, <1>8, AppendOf
<1>10. TypeOK'
  BY <1>0, <1>5, <1>9 DEF IndInv, TypeOK, deviceVars
<1>11. ServedIsDurable'
  BY <1>0, <1>6 DEF IndInv, ServedIsDurable, Recorded
<1>12. SignedIsDeliberate'
  BY <1>0 DEF IndInv, SignedIsDeliberate, deviceVars
<1>13. ReportedIsRecorded'
  <2>1. \A i \in DOMAIN reported' :
          \/ reported'[i].request = r /\ reported'[i].at = executions'[r].at
          \/ i \in DOMAIN reported /\ reported'[i] = reported[i]
    BY <1>0, <1>3 DEF Report
  <2>2. \A i \in DOMAIN reported :
          /\ executions'[reported[i].request] # NoExecution
          /\ executions'[reported[i].request].at = reported[i].at
    BY <1>6, ReportsTyped DEF IndInv, ReportedIsRecorded, Recorded
  <2>3. executions'[r] # NoExecution
    BY <1>6 DEF Recorded
  <2> QED
    BY <2>1, <2>2, <2>3 DEF ReportedIsRecorded, Recorded
<1>14. QuorumIsDeliberate'
  BY <1>0, <1>6, QuorumAtExecution
<1>15. DecompositionEscalates'
  BY <1>0, ReportEscalates
<1> QED
  BY <1>10, <1>11, <1>12, <1>13, <1>14, <1>15 DEF IndInv

LEMMA ExecuteDeleteFailsStep ==
  ASSUME IndInv, NEW r \in Request, NEW as \in Offered, ExecuteDeleteFails(r, as)
  PROVE  IndInv'
<1>0. /\ Decide(r, as) /\ ~Recorded(r) /\ UNCHANGED deviceVars
      /\ UNCHANGED <<requests, requestsDisk, approvals, approvalsDisk, executions, now, reported>>
  BY DEF ExecuteDeleteFails
<1>1. faults' \in 0 .. MaxFaults
  BY FaultCounts DEF ExecuteDeleteFails
<1>2. PICK x \in {NoExecution, [at |-> now, holders |-> Holders(as)]} :
        executionsDisk' = [executionsDisk EXCEPT ![r] = x]
  BY DEF ExecuteDeleteFails
<1>3. x \in Execution \cup {NoExecution}
  BY <1>0, <1>2, WrittenExecution
<1>4. /\ executionsDisk' \in [Request -> Execution \cup {NoExecution}]
      /\ \A q \in Request \ {r} : executionsDisk'[q] = executionsDisk[q]
  BY <1>2, <1>3 DEF IndInv, TypeOK
<1>5. TypeOK'
  BY <1>0, <1>1, <1>4 DEF IndInv, TypeOK, deviceVars
<1>6. ServedIsDurable' /\ SignedIsDeliberate' /\ ReportedIsRecorded'
  BY <1>0, <1>4 DEF IndInv, ServedIsDurable, SignedIsDeliberate, ReportedIsRecorded,
                    Recorded, deviceVars
<1>7. QuorumIsDeliberate'
  BY <1>0, <1>4, QuorumAtExecution
<1>8. DecompositionEscalates'
  BY <1>0 DEF IndInv, DecompositionEscalates, CountedBefore
<1> QED
  BY <1>5, <1>6, <1>7, <1>8 DEF IndInv

\* Every step keeps the invariant.
LEMMA StepIndInv == IndInv /\ [Next]_vars => IndInv'
<1> SUFFICES ASSUME IndInv, [Next]_vars PROVE IndInv'
  OBVIOUS
<1>1. CASE \E k \in Authority, r \in Request : LearnOf(k, r) \/ Approve(k, r)
  BY <1>1, LearnOfStep, ApproveStep
<1>2. CASE \E k \in Key, r \in Request : OutsiderApproves(k, r)
  BY <1>2, OutsiderApprovesStep
<1>3. CASE ApproverClockTicks
  BY <1>3, ApproverClockStep
<1>4. CASE \E s \in Subject, r \in Request : PublishDeleteRequest(s, r)
  BY <1>4, PublishDeleteRequestStep
<1>5. CASE \E a \in signed : PublishDeleteApproval(a)
  BY <1>5, PublishDeleteApprovalStep
<1>6. CASE \E r \in Request, as \in Offered : ExecuteDelete(r, as) \/ ExecuteDeleteFails(r, as)
  BY <1>6, ExecuteDeleteStep, ExecuteDeleteFailsStep
<1>7. CASE Restart
  BY <1>7, RestartStep
<1>8. CASE ClockMoves
  BY <1>8, ClockStep
<1>9. CASE UNCHANGED vars
  <2>1. UNCHANGED deviceVars /\ reported' = reported /\ executionsDisk' = executionsDisk
    BY <1>9 DEF vars, peerVars
  <2>2. QuorumIsDeliberate' /\ DecompositionEscalates'
    BY <2>1, DevicesIdle, Kept
  <2>3. TypeOK' /\ ServedIsDurable' /\ SignedIsDeliberate' /\ ReportedIsRecorded'
    BY <1>9 DEF vars, peerVars, deviceVars, IndInv, TypeOK, ServedIsDurable,
                SignedIsDeliberate, ReportedIsRecorded, Recorded
  <2> QED
    BY <2>2, <2>3 DEF IndInv
<1> QED
  BY <1>1, <1>2, <1>3, <1>4, <1>5, <1>6, <1>7, <1>8, <1>9 DEF Next

-----------------------------------------------------------------------------
(* What follows for every behaviour of the deletion loop.                  *)

\* The invariant holds in every state.
THEOREM Inductive == Spec => []IndInv
  BY InitIndInv, StepIndInv, PTL DEF Spec

\* Peer::execute_delete authorises nothing below the quorum of the scope, and
\* only holders that learned of the request and let their cooling-off pass
\* count towards it, through failed writes, restarts and replays.
THEOREM QuorumMet == Spec => []QuorumIsDeliberate
<1>1. IndInv => QuorumIsDeliberate
  BY DEF IndInv
<1> QED
  BY <1>1, Inductive, PTL

\* Splitting a deletion into many does not get round the escalated quorum:
\* decide counts every execution that was ever reported.
THEOREM WindowHolds == Spec => []DecompositionEscalates
<1>1. IndInv => DecompositionEscalates
  BY DEF IndInv
<1> QED
  BY <1>1, Inductive, PTL

\* No step of the peer, its restart by load included, takes a served record
\* back or changes it.
THEOREM TrailKept == Spec => TrailAppendOnly
<1> DEFINE A == /\ requests \subseteq requests'
                /\ approvals \subseteq approvals'
                /\ \A r \in Request : Recorded(r) => executions'[r] = executions[r]
<1>1. IndInv /\ [Next]_vars => [A]_vars
  <2> SUFFICES ASSUME IndInv, Next PROVE A
    OBVIOUS
  <2>1. CASE Restart
    BY <2>1 DEF Restart, IndInv, ServedIsDurable
  <2>2. CASE \E s \in Subject, r \in Request : PublishDeleteRequest(s, r)
    BY <2>2 DEF PublishDeleteRequest
  <2>3. CASE \E a \in signed : PublishDeleteApproval(a)
    BY <2>3 DEF PublishDeleteApproval
  <2>4. CASE \E r \in Request, as \in Offered : ExecuteDelete(r, as)
    <3> PICK r \in Request, as \in Offered : ExecuteDelete(r, as)
      BY <2>4
    <3>1. executions \in [Request -> Execution \cup {NoExecution}]
      BY DEF IndInv, TypeOK
    <3> QED
      BY <3>1 DEF ExecuteDelete, Record, Recorded
  <2>5. CASE \E r \in Request, as \in Offered : ExecuteDeleteFails(r, as)
    BY <2>5 DEF ExecuteDeleteFails
  <2>6. CASE UNCHANGED peerVars
    BY <2>6 DEF peerVars
  <2>7. Next => \/ UNCHANGED peerVars \/ Restart
                \/ \E s \in Subject, r \in Request : PublishDeleteRequest(s, r)
                \/ \E a \in signed : PublishDeleteApproval(a)
                \/ \E r \in Request, as \in Offered : ExecuteDelete(r, as)
                \/ \E r \in Request, as \in Offered : ExecuteDeleteFails(r, as)
    BY DEF Next, LearnOf, Approve, OutsiderApproves, ApproverClockTicks, ClockMoves
  <2> QED
    BY <2>1, <2>2, <2>3, <2>4, <2>5, <2>6, <2>7
<1> QED
  BY <1>1, Inductive, PTL DEF Spec, TrailAppendOnly
=============================================================================
