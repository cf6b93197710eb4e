-------------------------------- MODULE Wire --------------------------------
(***************************************************************************)
(* What client and peer say to each other (nas-transfer/src/wire.rs), and  *)
(* how a peer cuts a list to what one answer can carry (server.rs).  A     *)
(* message is a kind and its arguments, in the order of the wire; on the   *)
(* wire it is a tag byte and one field per argument.                       *)
(***************************************************************************)
EXTENDS Fields

\* In the code 256 records, 260 KiB and 256 KiB; small here so that each binds.
MaxRecords == 2
MaxFrame == 22
RecordBudget == 14

\* The requests in the order of their tags.
ReqTags ==
    <<"GetBlob", "HasBlob", "PutBlob", "Prove", "SlotHead", "SlotHistory", "PublishSlot",
      "PublishWitness", "Witnesses", "PublishHandoff", "Handoffs", "PublishCheckpoint", "Checkpoints",
      "TakeLease", "ReleaseLease", "Leases", "SweepWarnings", "PublishDeleteRequest",
      "PublishDeleteApproval", "ExecuteDelete", "DeleteRequestRecord", "DeleteApprovals",
      "ForgetRetention">>
RspTags == <<"Blob", "Bool", "Stored", "Proof", "Record", "Records", "Ok", "Addrs", "Error">>
TagOf(tags, kind) == (CHOOSE i \in DOMAIN tags : tags[i] = kind) - 1

\* The requests by the shape of what follows the tag.
OneId == {"GetBlob", "HasBlob", "SlotHead", "Witnesses", "Handoffs", "DeleteRequestRecord", "DeleteApprovals"}
OneBlob == {"PutBlob", "PublishSlot", "PublishWitness", "PublishHandoff", "PublishCheckpoint",
            "PublishDeleteRequest", "PublishDeleteApproval", "ExecuteDelete"}
IdFrom == {"SlotHistory", "Checkpoints"}
NoArgs == {"Leases", "SweepWarnings"}
AddrLists == {"TakeLease", "ReleaseLease"}

CheckSize(f) == IF Len(EncodeFields(f)) > MaxFrame THEN {} ELSE {f}
Tagged(tag, fields) == CheckSize(<<(<<tag>>)>> \o fields)
\* A tag and any number of fields, MAX_RECORDS at most.
ListOf(tag, fields, items) == IF Len(items) > MaxRecords THEN {} ELSE Tagged(tag, fields \o items)

EncodeRequest(r) ==
    LET tag == TagOf(ReqTags, r.kind)
    IN  CASE r.kind \in IdFrom -> Tagged(tag, <<r.id, LE(r.from, U64)>>)
          [] r.kind \in AddrLists -> ListOf(tag, <<>>, r.list)
          [] r.kind = "ForgetRetention" -> ListOf(tag, <<r.blob>>, r.list)
          [] r.kind \in OneId -> Tagged(tag, <<r.id>>)
          [] r.kind \in OneBlob -> Tagged(tag, <<r.blob>>)
          [] r.kind = "Prove" -> Tagged(tag, <<r.id, r.nonce>>)
          [] r.kind \in NoArgs -> Tagged(tag, <<>>)

\* Requests carry only the arguments their kind has.
NoArg == [id |-> <<>>, blob |-> <<>>, nonce |-> <<>>, from |-> 0, list |-> <<>>]
Req(kind) == [kind |-> kind] @@ NoArg
IsWide(b) == Len(b) = Wide
AllWide(s) == \A i \in DOMAIN s : IsWide(s[i])

Number(b) == IF Len(b) = U64 THEN {FromLE(b)} ELSE {}

DecodeRequest(f) ==
    LET n == Len(f)
        known == f # <<>> /\ Len(f[1]) = 1 /\ f[1][1] < Len(ReqTags)
        kind == ReqTags[f[1][1] + 1]
        tail(k) == SubSeq(f, k, n)
    IN  IF ~known \/ Len(EncodeFields(f)) > MaxFrame THEN {}
        ELSE CASE kind \in OneId /\ n = 2 /\ IsWide(f[2]) -> {[Req(kind) EXCEPT !.id = f[2]]}
               [] kind \in OneBlob /\ n = 2 -> {[Req(kind) EXCEPT !.blob = f[2]]}
               [] kind = "Prove" /\ n = 3 /\ IsWide(f[2]) /\ IsWide(f[3]) ->
                    {[Req(kind) EXCEPT !.id = f[2], !.nonce = f[3]]}
               [] kind \in IdFrom /\ n = 3 /\ IsWide(f[2]) ->
                    {[Req(kind) EXCEPT !.id = f[2], !.from = x] : x \in Number(f[3])}
               [] kind \in NoArgs /\ n = 1 -> {Req(kind)}
               [] kind \in AddrLists /\ n - 1 <= MaxRecords /\ AllWide(tail(2)) ->
                    {[Req(kind) EXCEPT !.list = tail(2)]}
               [] kind = "ForgetRetention" /\ n >= 2 /\ n - 2 <= MaxRecords /\ AllWide(tail(3)) ->
                    {[Req(kind) EXCEPT !.blob = f[2], !.list = tail(3)]}
               [] OTHER -> {}

-----------------------------------------------------------------------------
\* A response: a flag for Bool and for whether a Record is there, a blob, a list.
Rsp(kind) == [kind |-> kind, flag |-> FALSE, blob |-> <<>>, list |-> <<>>]
Byte(flag) == <<IF flag THEN 1 ELSE 0>>

\* Strict UTF-8: in the model a byte of 128 and above never is.
Utf8(b) == \A i \in DOMAIN b : b[i] < 128

EncodeResponse(r) ==
    LET tag == TagOf(RspTags, r.kind)
    IN  CASE r.kind \in {"Blob", "Stored", "Proof", "Error"} -> Tagged(tag, <<r.blob>>)
          [] r.kind = "Bool" -> Tagged(tag, <<Byte(r.flag)>>)
          [] r.kind = "Record" -> Tagged(tag, <<Byte(r.flag)>> \o (IF r.flag THEN <<r.blob>> ELSE <<>>))
          [] r.kind \in {"Records", "Addrs"} -> ListOf(tag, <<>>, r.list)
          [] r.kind = "Ok" -> Tagged(tag, <<>>)

Truth(b) == {x \in BOOLEAN : b = Byte(x)}

DecodeResponse(f) ==
    LET n == Len(f)
        known == f # <<>> /\ Len(f[1]) = 1 /\ f[1][1] < Len(RspTags)
        kind == RspTags[f[1][1] + 1]
    IN  IF ~known \/ Len(EncodeFields(f)) > MaxFrame THEN {}
        ELSE CASE kind = "Blob" /\ n = 2 -> {[Rsp(kind) EXCEPT !.blob = f[2]]}
               [] kind = "Bool" /\ n = 2 -> {[Rsp(kind) EXCEPT !.flag = x] : x \in Truth(f[2])}
               [] kind \in {"Stored", "Proof"} /\ n = 2 /\ IsWide(f[2]) -> {[Rsp(kind) EXCEPT !.blob = f[2]]}
               [] kind = "Record" /\ n = 2 /\ f[2] = <<0>> -> {Rsp(kind)}
               [] kind = "Record" /\ n = 3 /\ f[2] = <<1>> -> {[Rsp(kind) EXCEPT !.flag = TRUE, !.blob = f[3]]}
               [] kind = "Records" /\ n - 1 <= MaxRecords -> {[Rsp(kind) EXCEPT !.list = Tail(f)]}
               [] kind = "Addrs" /\ n - 1 <= MaxRecords /\ AllWide(Tail(f)) -> {[Rsp(kind) EXCEPT !.list = Tail(f)]}
               [] kind = "Ok" /\ n = 1 -> {Rsp(kind)}
               [] kind = "Error" /\ n = 2 /\ Utf8(f[2]) -> {[Rsp(kind) EXCEPT !.blob = f[2]]}
               [] OTHER -> {}

-----------------------------------------------------------------------------
\* `bounded': as many items from the front as fit the count and the budget.
RecordCost(r) == Len(r) + LenPrefix
Bounded(items) ==
    LET Used[n \in 0..Len(items)] == IF n = 0 THEN 0 ELSE Used[n-1] + RecordCost(items[n])
        fits == {n \in 0..Len(items) : n <= MaxRecords /\ Used[n] <= RecordBudget}
    IN  SubSeq(items, 1, CHOOSE n \in fits : \A k \in fits : k <= n)

-----------------------------------------------------------------------------
\* Request::encode and Request::decode: whatever decode accepts re-encodes to
\* the same bytes, for every kind, at the record and frame limits too.
RequestIsCanonical(r) == CanonicalAt(r, EncodeRequest, DecodeRequest)

\* The same of Response::encode and Response::decode.
ResponseIsCanonical(r) == CanonicalAt(r, EncodeResponse, DecodeResponse)

\* bounded: the page it cuts always encodes (the count and the byte limit are
\* different questions, and a page over the frame drops the connection), it is
\* a prefix of what there is, and a walk from the next record makes progress
\* unless one record alone is over the budget.
PageAlwaysFits(items) ==
    LET page == Bounded(items)
    IN  /\ EncodeResponse([Rsp("Records") EXCEPT !.list = page]) # {}
        /\ IsPrefix(page, items)
        /\ items # <<>> /\ RecordCost(items[1]) <= RecordBudget => page # <<>>
=============================================================================
