------------------------------- MODULE Chunks -------------------------------
(***************************************************************************)
(* How an object becomes chunks and chunks become frames: the chunker      *)
(* (nas-store/src/chunker.rs), whose cut points are part of the storage    *)
(* format, and padding (nas-store/src/padding.rs).  Sizes are scaled down, *)
(* their order and the clash between the largest chunk and the largest     *)
(* class kept; a read of the stream is a step, so that what a reader hands *)
(* over at a time is free.                                                 *)
(***************************************************************************)
EXTENDS Naturals, Sequences, FiniteSets, SequencesExt, TLC

Header == 1                 \* 4 bytes in the code
Ladder == <<4, 6>>          \* 32 to 256 KiB in four classes
FixedClass == 4             \* 64 KiB
FixedChunk == FixedClass - Header
Normalization == 1          \* 2
FpBits == 4                 \* the fingerprint: 64 bits

Smaller(a, b) == IF a < b THEN a ELSE b

-----------------------------------------------------------------------------
\* Padding.  A frame is the length, the bytes and zeroes up to the class; the
\* results are sets as in Fields, {} for an error.
Classes(profile) ==
    CASE profile = "None" -> <<>> [] profile = "Classes" -> Ladder [] profile = "Fixed" -> <<FixedClass>>

MinimalClassRoomy(profile, len) ==
    LET fits == {c \in ToSet(Classes(profile)) : c >= len}
    IN  {c \in fits : \A d \in fits : c <= d}
MinimalClass(profile, len) ==
    LET fits == {c \in ToSet(Classes(profile)) : c >= len + Header}
    IN  {c \in fits : \A d \in fits : c <= d}

\* The largest plaintext of a profile that pads.
MaxPlaintext(profile) == {Last(c) - Header : c \in {Classes(profile)} \ {<<>>}}

Pad(profile, plain) ==
    IF Classes(profile) = <<>> THEN {plain}
    ELSE {<<Len(plain)>> \o plain \o [i \in 1..class - Header - Len(plain) |-> 0] :
            class \in MinimalClass(profile, Len(plain))}

\* The fill must be zero and the class the smallest: both would be channels.
Unpad(profile, padded) ==
    IF Classes(profile) = <<>> THEN {padded}
    ELSE IF Len(padded) \notin ToSet(Classes(profile)) \/ padded[1] + Header > Len(padded) THEN {}
         ELSE LET end == padded[1] + Header
              IN  IF \/ \E i \in end+1..Len(padded) : padded[i] # 0
                     \/ MinimalClass(profile, padded[1]) # {Len(padded)}
                  THEN {}
                  ELSE {SubSeq(padded, Header + 1, end)}

-----------------------------------------------------------------------------
\* Configurations.
Config(min, avg, max) == [min |-> min, avg |-> avg, max |-> max]
Fixed(size) == Config(size, size, size)

ForProfile(profile, base) ==
    CASE profile = "None" -> base
      [] profile = "Fixed" -> Fixed(FixedChunk)
      [] profile = "Classes" ->
           LET max == Smaller(base.max, CHOOSE n \in MaxPlaintext(profile) : TRUE)
           IN  Config(Smaller(base.min, max), Smaller(base.avg, max), max)

Log2(n) == CHOOSE k \in 0..n : 2^k <= n /\ n < 2^(k+1)
PowerOfTwo(n) == n > 0 /\ 2^Log2(n) = n
Validate(cfg) ==
    /\ cfg.min <= cfg.avg /\ cfg.avg <= cfg.max /\ cfg.min # 0
    /\ cfg.min # cfg.max => PowerOfTwo(cfg.avg) /\ Log2(cfg.avg) + Normalization < FpBits

\* ObjectWriter::new: a chunk must fit the largest class.
WriterAccepts(profile, cfg) == Validate(cfg) /\ \A n \in MaxPlaintext(profile) : cfg.max <= n

-----------------------------------------------------------------------------
\* Cut points.  The gear table of the model's two byte values; a mask of k low
\* bits is zero on a fingerprint that 2^k divides.
Gear == <<3, 5>>
Hits(fp, bits) == fp % 2^bits = 0
MaskS(cfg) == Log2(cfg.avg) + Normalization
MaskL(cfg) == Log2(cfg.avg) - Smaller(Normalization, Log2(cfg.avg))

\* The length of the next chunk at the front of buf: the harder mask up to the
\* average, the easier one up to the maximum.
Cut(cfg, buf) ==
    LET n == Smaller(Len(buf), cfg.max)
        Fp[i \in cfg.min..n] == IF i = cfg.min THEN 0 ELSE (2 * Fp[i-1] + Gear[buf[i]]) % 2^FpBits
        hits == {i \in cfg.min+1..n : Hits(Fp[i], IF i <= cfg.avg THEN MaskS(cfg) ELSE MaskL(cfg))}
    IN  IF cfg.min = cfg.max \/ n <= cfg.min \/ hits = {} THEN n
        ELSE CHOOSE i \in hits : \A j \in hits : i <= j

\* The chunks of a slice: at most one per byte.
Split(cfg, data) ==
    LET S[k \in 0..Len(data)] ==
          IF k = 0 THEN [out |-> <<>>, rest |-> data]
          ELSE LET s == S[k-1]  n == Cut(cfg, s.rest)
               IN  IF s.rest = <<>> THEN s
                   ELSE [out |-> Append(s.out, SubSeq(s.rest, 1, n)),
                         rest |-> SubSeq(s.rest, n + 1, Len(s.rest))]
    IN  S[Len(data)].out

-----------------------------------------------------------------------------
(***************************************************************************)
(* A stream over a reader.  `filling' is a call of next() inside refill.   *)
(***************************************************************************)
VARIABLES stream  \* [cfg, data, pos, buf, eof, filling, out, open]

\* start only delays the removal of what was consumed: buf is what lies behind it.
NoStream == [cfg |-> Config(1, 1, 1), data |-> <<>>, pos |-> 0, buf |-> <<>>, eof |-> FALSE,
             filling |-> FALSE, out |-> <<>>, open |-> FALSE]

StreamInit == stream = NoStream

OpenStream(cfg, data) ==
    /\ ~stream.open
    /\ stream' = [NoStream EXCEPT !.cfg = cfg, !.data = data, !.open = TRUE]

\* Mutant: a cut is made on whatever the buffer holds.
MustRefillWhenEmpty == ~stream.eof /\ stream.buf = <<>>

\* next() finds too little for a cut that depends on nothing but the content.
MustRefill == ~stream.eof /\ Len(stream.buf) < stream.cfg.max
StartRefill ==
    /\ stream.open /\ ~stream.filling /\ MustRefill
    /\ stream' = [stream EXCEPT !.filling = TRUE]

\* One read: anything from one byte to all there is, none at the end of input.
ReadSome(n) ==
    /\ stream.filling /\ ~stream.eof /\ Len(stream.buf) < 2 * stream.cfg.max
    /\ n > 0 /\ stream.pos + n <= Len(stream.data)
    /\ stream' = [stream EXCEPT !.buf = @ \o SubSeq(stream.data, stream.pos + 1, stream.pos + n),
                                !.pos = @ + n]
ReadEnd ==
    /\ stream.filling /\ ~stream.eof /\ Len(stream.buf) < 2 * stream.cfg.max
    /\ stream.pos = Len(stream.data)
    /\ stream' = [stream EXCEPT !.eof = TRUE]

\* A read fails: next() returns the error and what was read stays in the window.
ReadFails ==
    /\ stream.filling /\ ~stream.eof /\ Len(stream.buf) < 2 * stream.cfg.max
    /\ stream' = [stream EXCEPT !.filling = FALSE]

\* The window is full or the input at its end, or it did not need to be filled.
Ready == IF stream.filling THEN stream.eof \/ Len(stream.buf) >= 2 * stream.cfg.max ELSE ~MustRefill
NextChunk ==
    /\ stream.open /\ Ready /\ stream.buf # <<>>
    /\ LET n == Cut(stream.cfg, stream.buf)
       IN  stream' = [stream EXCEPT !.out = Append(@, SubSeq(stream.buf, 1, n)),
                                    !.buf = SubSeq(@, n + 1, Len(@)), !.filling = FALSE]
AtEnd == stream.open /\ Ready /\ stream.buf = <<>>

StreamNext ==
    \/ StartRefill \/ ReadEnd \/ ReadFails \/ NextChunk
    \/ \E n \in 1..Len(stream.data) : ReadSome(n)

-----------------------------------------------------------------------------
\* pad and unpad: what was framed comes back, and of all frames that unpad only
\* the one pad makes is taken, so neither fill nor class can carry anything.
OneFrame(profile, bytes) ==
    /\ \A padded \in Pad(profile, bytes) : Unpad(profile, padded) = {bytes}
    /\ \A plain \in Unpad(profile, bytes) : Pad(profile, plain) = {bytes}

\* for_profile, ObjectWriter::new: a configuration the writer accepts never cuts
\* a chunk that no class can hold, and the one derived from a base is accepted
\* whenever the base is valid and its average stays below the largest plaintext.
ChunksFit(profile, base, data) ==
    LET cfg == ForProfile(profile, base)
        chunks == Split(cfg, data)
    IN  /\ Validate(base) /\ (profile = "Classes" => \A n \in MaxPlaintext(profile) : base.avg <= n)
             => WriterAccepts(profile, cfg)
        /\ WriterAccepts(profile, cfg) =>
             /\ FlattenSeq(chunks) = data
             /\ \A i \in DOMAIN chunks : chunks[i] # <<>> /\ Pad(profile, chunks[i]) # {}

\* Stream::next, refill: the chunks depend on the content alone.  However the
\* reader hands its bytes over, and whatever reads fail in between, what came
\* out is a prefix of what split cuts, and at the end all of it.
StreamCutsLikeSplit ==
    stream.open =>
      LET chunks == Split(stream.cfg, stream.data)
      IN  /\ IsPrefix(stream.out, chunks)
          /\ AtEnd => stream.out = chunks
=============================================================================
