------------------------------- MODULE Fields -------------------------------
(***************************************************************************)
(* The one encoding under every signed, stored or sent object of nas-tools *)
(* (nas-core/src/encoding.rs): a sequence of fields, each with its length  *)
(* in front.  Bytes are 0..255 and numbers little-endian as in the code;   *)
(* only the widths are scaled down, each kept apart from the others.       *)
(* A decoder returns the set of values the input stands for: a singleton,  *)
(* or {} for an error.                                                     *)
(***************************************************************************)
EXTENDS Naturals, Sequences, FiniteSets, SequencesExt, TLC

LenPrefix == 2  \* 4 in the code
U64 == 3        \* 8
U32 == 2        \* 4
Wide == 2       \* 32: addresses, slot ids, writer ids, hashes
KeyLen == 4     \* VERIFYING_KEY_LEN
SigLen == 5     \* SIGNATURE_LEN

\* to_le_bytes and from_le_bytes at a width.
LE(n, w) == [i \in 1..w |-> (n \div 256^(i-1)) % 256]
FromLE(b) ==
    LET V[i \in 0..Len(b)] == IF i = 0 THEN 0 ELSE V[i-1] + b[i] * 256^(i-1)
    IN  V[Len(b)]

PushField(field) == LE(Len(field), LenPrefix) \o field
EncodeFields(fields) == FlattenSeq([i \in DOMAIN fields |-> PushField(fields[i])])

\* Mutant: a field cut short is taken as it is.
DecodeFieldShort(b) ==
    IF Len(b) < LenPrefix THEN {}
    ELSE LET want == FromLE(SubSeq(b, 1, LenPrefix))
             rest == SubSeq(b, LenPrefix + 1, Len(b))
             take == IF want < Len(rest) THEN want ELSE Len(rest)
         IN  {[field |-> SubSeq(rest, 1, take), rest |-> SubSeq(rest, take + 1, Len(rest))]}

\* One field and what is left, or nothing when the prefix is cut short or asks
\* for more than there is.
DecodeField(b) ==
    IF Len(b) < LenPrefix THEN {}
    ELSE LET want == FromLE(SubSeq(b, 1, LenPrefix))
             rest == SubSeq(b, LenPrefix + 1, Len(b))
         IN  IF Len(rest) < want THEN {}
             ELSE {[field |-> SubSeq(rest, 1, want), rest |-> SubSeq(rest, want + 1, Len(rest))]}

\* Every field to the last byte: each round takes at least the prefix.
DecodeFields(b) ==
    LET D[n \in 0..Len(b)] ==
          IF n = 0 THEN [ok |-> TRUE, out |-> <<>>, rest |-> b]
          ELSE LET s == D[n-1]
               IN  IF ~s.ok \/ s.rest = <<>> THEN s
                   ELSE LET d == DecodeField(s.rest)
                        IN  IF d = {} THEN [s EXCEPT !.ok = FALSE]
                            ELSE LET x == CHOOSE x \in d : TRUE
                                 IN  [ok |-> TRUE, out |-> Append(s.out, x.field), rest |-> x.rest]
        end == D[Len(b)]
    IN  IF end.ok THEN {end.out} ELSE {}

\* Addresses in hex (nas-core/src/addr.rs): lower case digits only.
AddrLen == 2  \* 32
Digits == <<"0", "1", "2", "3", "4", "5", "6", "7", "8", "9", "a", "b", "c", "d", "e", "f">>
Upper == "A" :> 10 @@ "F" :> 15
HexVal(c) == {i - 1 : i \in {i \in DOMAIN Digits : Digits[i] = c}}
ToHex(addr) == FlattenSeq([i \in DOMAIN addr |-> <<Digits[(addr[i] \div 16) + 1], Digits[(addr[i] % 16) + 1]>>])
FromHex(s) ==
    IF Len(s) # 2 * AddrLen \/ \E i \in DOMAIN s : HexVal(s[i]) = {} THEN {}
    ELSE LET Val(i) == CHOOSE v \in HexVal(s[i]) : TRUE
         IN  {[i \in 1..AddrLen |-> 16 * Val(2 * i - 1) + Val(2 * i)]}
Shard(addr) == LET hex == ToHex(addr) IN <<SubSeq(hex, 1, 2), SubSeq(hex, 3, Len(hex))>>

\* Bytes in the order of Rust's slices: the first difference decides, a prefix
\* comes first.
LessBytes(p, q) ==
    \/ IsStrictPrefix(p, q)
    \/ \E i \in DOMAIN p \cap DOMAIN q :
         p[i] < q[i] /\ \A j \in 1..i-1 : p[j] = q[j]

\* Strictly ascending: the order in which a map is written.
Ascending(keys) == \A i \in 1..Len(keys)-1 : LessBytes(keys[i], keys[i+1])

\* The members of a finite set of byte strings in that order.
InOrder(S) ==
    CHOOSE s \in [1..Cardinality(S) -> S] : Ascending(s)

-----------------------------------------------------------------------------
\* encode_fields and decode_fields: what decodes is exactly what encodes, so no
\* two field sequences share bytes and no two byte strings share fields.
FramingIsCanonical(bytes) ==
    \A f \in DecodeFields(bytes) : EncodeFields(f) = bytes
FramingRoundTrips(fields) == DecodeFields(EncodeFields(fields)) = {fields}

\* from_hex, to_hex, shard: a name that reads as an address is the one name that
\* is written for it, so the store never has two paths for one blob.
AddressHasOneName(s) ==
    \A addr \in FromHex(s) : ToHex(addr) = s /\ Shard(addr)[1] \o Shard(addr)[2] = s

\* Everything one edit away from a field sequence: a field replaced, cut,
\* lengthened, dropped, doubled, swapped with its neighbour, or one added.
Junk == {<<>>, <<0>>, <<1>>, <<2>>, <<0, 0>>, <<1, 1>>, <<1, 0, 0>>}
Near(f) ==
    {f} \cup {ReplaceAt(f, i, g) : i \in DOMAIN f, g \in Junk}
        \cup {ReplaceAt(f, i, Append(f[i], 0)) : i \in DOMAIN f}
        \cup {ReplaceAt(f, i, SubSeq(f[i], 1, Len(f[i]) - 1)) : i \in {j \in DOMAIN f : f[j] # <<>>}}
        \cup {RemoveAt(f, i) : i \in DOMAIN f}
        \cup {InsertAt(f, i, f[i]) : i \in DOMAIN f}
        \cup {[f EXCEPT ![i] = f[i+1], ![i+1] = f[i]] : i \in 1..Len(f)-1}
        \cup {Append(f, g) : g \in Junk}

\* A format is canonical: what it writes it reads back, and whatever it reads
\* near that it would have written just so.  Encode yields a set of field
\* sequences, {} when the value is refused.
CanonicalAt(v, Encode(_), Decode(_)) ==
    \A f \in Encode(v) :
       /\ Decode(f) = {v}
       /\ \A g \in Near(f) : \A w \in Decode(g) : Encode(w) = {g}
=============================================================================
