---------------------------- MODULE DeleteTrail ----------------------------
(***************************************************************************)
(* The deletion loop: a signed request, approvals by holders of an offline *)
(* authority, an execution that the peer judges and records                *)
(* (crates/nas-delete, the trail of crates/nas-peer/src/peer.rs and its    *)
(* dispatch in crates/nas-transfer/src/server.rs).                         *)
(*                                                                         *)
(* Signatures are ideal: a record that names a key was signed by it, and   *)
(* whatever does not verify is refused without effect and left out.  A     *)
(* request's hash covers all of it, so the request stands for its hash.    *)
(* An approval exists once it is signed, wherever it is carried: the peer  *)
(* judges the approvals inside the execution, not the ones it recorded.    *)
(*                                                                         *)
(* reported is history: the executions clients were told are authorised.   *)
(***************************************************************************)
EXTENDS Integers, Sequences, FiniteSets, FiniteSetsExt

CONSTANTS
  Request,        \* requests that may be made: [scope, by, nonce]
  Key,            \* signing keys
  Authority,      \* Peer.delete_authority: the approvers' keys
  Granted,        \* subjects whose ACL entry has delete-request
  Subject,        \* subjects that connect
  Quorum,         \* QuorumPolicy: [object, prefix, namespace]
  Window, Objects, EscalateTo,    \* RollingPolicy
  CoolingOff,     \* Approver.cooling_off
  MaxApprovals,   \* MAX_APPROVALS
  MaxRequests,    \* MAX_DELETE_REQUESTS
  MaxTime,        \* bound: clocks show 0 .. MaxTime
  MaxFaults,      \* bound: failed writes in a behaviour
  MaxRelayed,     \* bound: approvals the peer records
  MaxReports      \* bound: executions reported in a behaviour

ScopeKind == {"object", "prefix", "namespace"}

ASSUME ConstantsAssumption ==
  /\ \A r \in Request : r.scope.kind \in ScopeKind /\ r.by \in Key
  /\ Authority \subseteq Key /\ Granted \subseteq Subject
  /\ Quorum \in [ScopeKind -> Nat]
  /\ {Window, Objects, EscalateTo, CoolingOff} \subseteq Nat
  /\ {MaxApprovals, MaxRequests, MaxTime, MaxFaults, MaxRelayed, MaxReports} \subseteq Nat

ASSUME FinitenessAssumption == IsFiniteSet(Request) /\ IsFiniteSet(Key)

VARIABLES
  requests, requestsDisk,      \* Peer.delete_requests and delete/requests
  approvals, approvalsDisk,    \* Peer.delete_approvals and delete/approvals
  executions, executionsDisk,  \* Peer.delete_executions and delete/executions
  now,                         \* the peer's clock
  clock,                       \* the approvers' own clock
  firstSeen,                   \* when each approver learned of each request
  signed,                      \* approvals that were signed
  faults,                      \* failed writes so far
  reported                     \* executions reported as authorised

peerVars == <<requests, requestsDisk, approvals, approvalsDisk,
              executions, executionsDisk>>
deviceVars == <<clock, firstSeen, signed>>
vars == <<peerVars, deviceVars, now, faults, reported>>

None == -1
Approval == [request : Request, by : Key]
Execution == [at : 0 .. MaxTime, holders : SUBSET Key]
NoExecution == [at |-> None, holders |-> {}]

Init ==
  /\ requests = {} /\ requestsDisk = {}
  /\ approvals = {} /\ approvalsDisk = {}
  /\ executions = [r \in Request |-> NoExecution]
  /\ executionsDisk = executions
  /\ now = 0 /\ clock = 0
  /\ firstSeen = [k \in Authority |-> [r \in Request |-> None]]
  /\ signed = {}
  /\ faults = 0
  /\ reported = <<>>

Recorded(r) == executions[r] # NoExecution

-----------------------------------------------------------------------------
(* The records.                                                            *)

\* Scope::check: an object or a prefix has a path, the namespace has none.
ScopeOk(scope) == (scope.kind = "namespace") = (scope.path = "")

\* DeleteRequest::verify and ::decode.
RequestOk(r) == ScopeOk(r.scope)

\* DeleteExecution::verify and ::decode: every approval it carries is for the
\* request it names, and there are not too many.
ExecutionOk(r, as) ==
  /\ Len(as) <= MaxApprovals
  /\ \A i \in DOMAIN as : as[i].request = r

-----------------------------------------------------------------------------
(* policy.rs: the verdict on an execution.                                 *)

\* Timestamp::saturating_since.
Since(t, earlier) == IF t > earlier THEN t - earlier ELSE 0

\* The distinct holders who approved.
Holders(as) == {as[i].by : i \in DOMAIN as}

\* How many recorded executions are inside the rolling window.
InWindow == Cardinality({r \in Request : Recorded(r) /\ Since(now, executions[r].at) < Window})

\* QuorumPolicy::base: what the scope owes on its own.
Base(scope) == Quorum[scope.kind]

\* Mutant: escalated only past the limit.
RequiredLate(r) ==
  IF InWindow > Objects THEN Max({Base(r.scope), EscalateTo}) ELSE Base(r.scope)

\* What the request owes: by its scope, and more once the window is full.
Required(r) ==
  IF InWindow >= Objects THEN Max({Base(r.scope), EscalateTo}) ELSE Base(r.scope)

\* Mutant: the requester's own approval counts when it is in the authority.
DecideAllowingSelf(r, as) ==
  /\ RequestOk(r) /\ ExecutionOk(r, as)
  /\ Authority # {}
  /\ \A i \in DOMAIN as : as[i].by \in Authority
  /\ Cardinality(Holders(as)) >= Required(r)

\* decide: TRUE is Decision::Execute; each conjunct is a refusal.
Decide(r, as) ==
  /\ RequestOk(r) /\ ExecutionOk(r, as)
  /\ Authority # {}
  /\ \A i \in DOMAIN as : as[i].by # r.by /\ as[i].by \in Authority
  /\ Cardinality(Holders(as)) >= Required(r)

-----------------------------------------------------------------------------
(* Approver devices, each with its own clock.                              *)

\* The approver fetches the request from the peer (DeleteRequestRecord).
LearnOf(k, r) ==
  /\ r \in requests
  /\ firstSeen[k][r] = None
  /\ firstSeen' = [firstSeen EXCEPT ![k][r] = clock]
  /\ UNCHANGED <<peerVars, clock, signed, now, faults, reported>>

\* Approver::approve: not before the cooling-off has passed by its own clock.
Approve(k, r) ==
  /\ firstSeen[k][r] # None
  /\ Since(clock, firstSeen[k][r]) >= CoolingOff
  /\ [request |-> r, by |-> k] \notin signed
  /\ signed' = signed \cup {[request |-> r, by |-> k]}
  /\ UNCHANGED <<peerVars, clock, firstSeen, now, faults, reported>>

\* Any other key can sign an approval of anything, its own request included.
OutsiderApproves(k, r) ==
  /\ k \notin Authority
  /\ [request |-> r, by |-> k] \notin signed
  /\ signed' = signed \cup {[request |-> r, by |-> k]}
  /\ UNCHANGED <<peerVars, clock, firstSeen, now, faults, reported>>

ApproverClockTicks ==
  /\ clock < MaxTime
  /\ clock' = clock + 1
  /\ UNCHANGED <<peerVars, firstSeen, signed, now, faults, reported>>

-----------------------------------------------------------------------------
(* The peer.  A record is written to its .tmp, renamed, then inserted; a   *)
(* write that fails leaves nothing readable or the whole .tmp, which load  *)
(* reads like the file itself.                                             *)

WriteFails == faults < MaxFaults /\ faults' = faults + 1

\* The dispatch asks the ACL for this one step of the loop; approvals and
\* executions may be carried by anybody.
MayRequest(s) == s \in Granted

\* Peer::publish_delete_request.
PublishDeleteRequest(s, r) ==
  /\ MayRequest(s)
  /\ RequestOk(r)
  /\ r \notin requests
  /\ Cardinality(requests) < MaxRequests
  /\ \/ /\ requests' = requests \cup {r}
        /\ requestsDisk' = requestsDisk \cup {r}
        /\ UNCHANGED faults
     \/ /\ WriteFails
        /\ requestsDisk' \in {requestsDisk, requestsDisk \cup {r}}
        /\ UNCHANGED requests
  /\ UNCHANGED <<approvals, approvalsDisk, executions, executionsDisk,
                 deviceVars, now, reported>>

\* Peer::publish_delete_approval: of a recorded request, by the authority,
\* once per holder.
PublishDeleteApproval(a) ==
  /\ a \in signed
  /\ a.request \in requests
  /\ a.by \in Authority
  /\ a \notin approvals
  /\ Cardinality(approvals) < MaxRelayed
  /\ \/ /\ approvals' = approvals \cup {a}
        /\ approvalsDisk' = approvalsDisk \cup {a}
        /\ UNCHANGED faults
     \/ /\ WriteFails
        /\ approvalsDisk' \in {approvalsDisk, approvalsDisk \cup {a}}
        /\ UNCHANGED approvals
  /\ UNCHANGED <<requests, requestsDisk, executions, executionsDisk,
                 deviceVars, now, reported>>

\* The execution and its time are written, then inserted.
Record(r, as) ==
  /\ executions' = [executions EXCEPT ![r] = [at |-> now, holders |-> Holders(as)]]
  /\ executionsDisk' = [executionsDisk EXCEPT ![r] = executions'[r]]
  /\ UNCHANGED faults

\* The answer to the client: authorised, by these holders, at the time on record.
Report(r, as) ==
  /\ Len(reported) < MaxReports
  /\ reported' = Append(reported, [request |-> r, at |-> executions'[r].at,
                                   now |-> now, holders |-> Holders(as)])

\* Mutant: a repeated execution replaces the one on record.
ExecuteDeleteAgain(r, as) ==
  /\ r \in requests
  /\ Decide(r, as)
  /\ Record(r, as)
  /\ Report(r, as)
  /\ UNCHANGED <<requests, requestsDisk, approvals, approvalsDisk, deviceVars, now>>

\* Peer::execute_delete when it answers Execute.  An execution already on
\* record is judged again, reported, and not written again.
ExecuteDelete(r, as) ==
  /\ r \in requests
  /\ Decide(r, as)
  /\ IF Recorded(r) THEN UNCHANGED <<executions, executionsDisk, faults>> ELSE Record(r, as)
  /\ Report(r, as)
  /\ UNCHANGED <<requests, requestsDisk, approvals, approvalsDisk, deviceVars, now>>

\* The same when the write fails: an error, and perhaps a .tmp with the time.
ExecuteDeleteFails(r, as) ==
  /\ r \in requests
  /\ Decide(r, as)
  /\ ~Recorded(r)
  /\ WriteFails
  /\ \E x \in {NoExecution, [at |-> now, holders |-> Holders(as)]} :
       executionsDisk' = [executionsDisk EXCEPT ![r] = x]
  /\ UNCHANGED <<requests, requestsDisk, approvals, approvalsDisk, executions,
                 deviceVars, now, reported>>

\* Peer::load.
Restart ==
  /\ requests' = requestsDisk
  /\ approvals' = approvalsDisk
  /\ executions' = executionsDisk
  /\ UNCHANGED <<requestsDisk, approvalsDisk, executionsDisk, deviceVars, now,
                 faults, reported>>

\* The peer's clock may be set either way.
ClockMoves ==
  /\ now' \in (0 .. MaxTime) \ {now}
  /\ UNCHANGED <<peerVars, deviceVars, faults, reported>>

\* The approvals a client can put into an execution.
Offered == UNION {[1 .. n -> signed] : n \in 0 .. MaxApprovals}

Next ==
  \/ \E k \in Authority, r \in Request : LearnOf(k, r) \/ Approve(k, r)
  \/ \E k \in Key, r \in Request : OutsiderApproves(k, r)
  \/ ApproverClockTicks
  \/ \E s \in Subject, r \in Request : PublishDeleteRequest(s, r)
  \/ \E a \in signed : PublishDeleteApproval(a)
  \/ \E r \in Request, as \in Offered : ExecuteDelete(r, as) \/ ExecuteDeleteFails(r, as)
  \/ Restart
  \/ ClockMoves

Spec == Init /\ [][Next]_vars

-----------------------------------------------------------------------------
(* Properties.                                                             *)

\* Every variable keeps its shape.
TypeOK ==
  /\ requests \subseteq Request /\ requestsDisk \subseteq Request
  /\ approvals \subseteq Approval /\ approvalsDisk \subseteq Approval
  /\ executions \in [Request -> Execution \cup {NoExecution}]
  /\ executionsDisk \in [Request -> Execution \cup {NoExecution}]
  /\ now \in 0 .. MaxTime /\ clock \in 0 .. MaxTime
  /\ firstSeen \in [Authority -> [Request -> (0 .. MaxTime) \cup {None}]]
  /\ signed \subseteq Approval
  /\ faults \in 0 .. MaxFaults
  /\ reported \in Seq([request : Request, at : 0 .. MaxTime, now : 0 .. MaxTime,
                       holders : SUBSET Key])

\* The holders whose approval of r was given after their cooling-off.
Deliberate(r) ==
  {k \in Authority \ {r.by} :
     /\ [request |-> r, by |-> k] \in signed
     /\ firstSeen[k][r] # None
     /\ Since(clock, firstSeen[k][r]) >= CoolingOff}

\* Nothing is authorised below the quorum of its scope: that many holders of
\* the offline authority, other than the requester, learned of the request and
\* let their cooling-off pass, whoever put the execution together, however
\* often it lists a holder, and whatever restarts lie in between.  It holds of
\* what is on disk too, including a .tmp whose client was told of a failure.
QuorumIsDeliberate ==
  /\ \A i \in DOMAIN reported :
       Cardinality(Deliberate(reported[i].request)) >= Base(reported[i].request.scope)
  /\ \A r \in Request :
       executionsDisk[r] # NoExecution => Cardinality(Deliberate(r)) >= Base(r.scope)

\* The other requests reported before the i-th report whose recorded time was
\* inside the window then.
CountedBefore(i) ==
  {reported[j].request : j \in {j \in 1 .. i - 1 :
     Since(reported[i].now, reported[j].at) < Window}} \ {reported[i].request}

\* Splitting a deletion up does not get round the quorum: once as many other
\* deletions as the window allows were reported, by the peer's clock, the next
\* is reported only with the escalated number of holders, also when the peer
\* was restarted, a write failed or the clock was set back in between.
DecompositionEscalates ==
  \A i \in DOMAIN reported :
    Cardinality(CountedBefore(i)) >= Objects
      => Cardinality(reported[i].holders) >= EscalateTo

\* The trail is append-only through crashes: a record, once served, is served
\* unchanged by every later incarnation of the peer.
TrailAppendOnly ==
  [][ /\ requests \subseteq requests'
      /\ approvals \subseteq approvals'
      /\ \A r \in Request : Recorded(r) => executions'[r] = executions[r] ]_vars

-----------------------------------------------------------------------------
(* The inductive invariant.                                                *)

\* What is served is on disk, so that a restart only adds to it.
ServedIsDurable ==
  /\ requests \subseteq requestsDisk
  /\ approvals \subseteq approvalsDisk
  /\ \A r \in Request : Recorded(r) => executionsDisk[r] = executions[r]

\* A holder's signature means that it learned of the request and waited.
SignedIsDeliberate ==
  \A a \in signed : a.by \in Authority =>
    /\ firstSeen[a.by][a.request] # None
    /\ Since(clock, firstSeen[a.by][a.request]) >= CoolingOff

\* Whatever was reported is on record, at the time the report named.
ReportedIsRecorded ==
  \A i \in DOMAIN reported :
    /\ Recorded(reported[i].request)
    /\ executions[reported[i].request].at = reported[i].at

\* What every step preserves.
IndInv ==
  /\ TypeOK
  /\ ServedIsDurable
  /\ SignedIsDeliberate
  /\ ReportedIsRecorded
  /\ QuorumIsDeliberate
  /\ DecompositionEscalates
=============================================================================
