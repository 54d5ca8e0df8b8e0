------------------------- MODULE ContainerStreamProofs -------------------------
(* Proofs about ContainerStream, for a stream of any length, cut into any  *)
(* fragments, segments and blocks, read in any pieces.  And about          *)
(* HandlePool, for any readers and fragments of the container.             *)
EXTENDS ContainerStream, HandlePool, SequenceTheorems, FiniteSetTheorems, TLAPS


-----------------------------------------------------------------------------
(* Fragments side by side.                                                 *)

EndOf(f) == f.start + f.len

\* The fragments fs cover the first total bytes, each from where the one
\* before it ends.
Tiled(fs, total) ==
  /\ fs \in Seq(ToSet(fs))
  /\ \A i \in DOMAIN fs : fs[i].start \in Nat /\ fs[i].len \in Nat /\ fs[i].nonce \in Nat
  /\ fs # <<>> => fs[1].start = 0
  /\ \A i \in DOMAIN fs : i > 1 => fs[i].start = EndOf(fs[i - 1])
  /\ \A i \in DOMAIN fs : EndOf(fs[i]) <= total
  /\ IF fs = <<>> THEN total = 0 ELSE EndOf(fs[Len(fs)]) = total
  /\ \A o \in Nat : o < total =>
       \E i \in DOMAIN fs : EndOf(fs[i]) > o /\ \A j \in 1..(i - 1) : EndOf(fs[j]) <= o

\* A sequence of anything stays one.
LEMMA AppendSeq ==
  ASSUME NEW s, s \in Seq(ToSet(s)), NEW x
  PROVE  /\ Append(s, x) \in Seq(ToSet(Append(s, x)))
         /\ Len(s) \in Nat /\ DOMAIN s = 1..Len(s)
         /\ Len(Append(s, x)) = Len(s) + 1
         /\ DOMAIN Append(s, x) = 1..(Len(s) + 1)
         /\ \A i \in 1..Len(s) : Append(s, x)[i] = s[i]
         /\ Append(s, x)[Len(s) + 1] = x
<1> DEFINE S == ToSet(s) \cup {x}
<1>1. s \in Seq(S)
  BY SeqMonotonic
<1>2. /\ Append(s, x) \in Seq(S)
      /\ Len(s) \in Nat /\ DOMAIN s = 1..Len(s)
      /\ Len(Append(s, x)) = Len(s) + 1
      /\ DOMAIN Append(s, x) = 1..(Len(s) + 1)
      /\ \A i \in 1..Len(s) : Append(s, x)[i] = s[i]
      /\ Append(s, x)[Len(s) + 1] = x
  BY <1>1
<1>3. Append(s, x) \in Seq(ToSet(Append(s, x)))
  BY <1>2 DEF ToSet
<1> QED
  BY <1>2, <1>3

\* One more fragment covers the bytes that follow.
LEMMA TiledAppend ==
  ASSUME NEW fs, NEW total \in Nat, Tiled(fs, total),
         NEW f, f.start = total, f.len \in Nat, f.nonce \in Nat
  PROVE  Tiled(Append(fs, f), total + f.len)
<1> DEFINE gs == Append(fs, f)
<1>1. /\ gs \in Seq(ToSet(gs))
      /\ Len(fs) \in Nat /\ DOMAIN fs = 1..Len(fs)
      /\ Len(gs) = Len(fs) + 1
      /\ DOMAIN gs = 1..(Len(fs) + 1)
      /\ \A i \in 1..Len(fs) : gs[i] = fs[i]
      /\ gs[Len(fs) + 1] = f
  BY AppendSeq DEF Tiled
<1>2. gs # <<>> /\ (fs = <<>> <=> Len(fs) = 0)
  BY <1>1 DEF Tiled
<1> HIDE DEF gs
<1>3. \A i \in DOMAIN gs : gs[i].start \in Nat /\ gs[i].len \in Nat /\ gs[i].nonce \in Nat
  BY <1>1 DEF Tiled
<1>4. gs[1].start = 0
  BY <1>1, <1>2 DEF Tiled
<1>5. \A i \in DOMAIN gs : i > 1 => gs[i].start = EndOf(gs[i - 1])
  <2> SUFFICES ASSUME NEW i \in DOMAIN gs, i > 1
               PROVE  gs[i].start = EndOf(gs[i - 1])
    OBVIOUS
  <2>1. CASE i \in 1..Len(fs)
    BY <2>1, <1>1 DEF Tiled
  <2>2. CASE i = Len(fs) + 1
    BY <2>2, <1>1, <1>2 DEF Tiled
  <2> QED
    BY <2>1, <2>2, <1>1
<1>6. \A j \in 1..Len(fs) : EndOf(gs[j]) \in Nat /\ EndOf(gs[j]) <= total
  <2> SUFFICES ASSUME NEW j \in 1..Len(fs)
               PROVE  EndOf(gs[j]) \in Nat /\ EndOf(gs[j]) <= total
    OBVIOUS
  <2>1. j \in DOMAIN fs /\ gs[j] = fs[j]
    BY <1>1
  <2>2. fs[j].start \in Nat /\ fs[j].len \in Nat /\ EndOf(fs[j]) <= total
    BY <2>1 DEF Tiled
  <2> QED
    BY <2>1, <2>2 DEF EndOf
<1>7. EndOf(gs[Len(gs)]) = total + f.len
  BY <1>1 DEF EndOf
<1>8. \A i \in DOMAIN gs : EndOf(gs[i]) <= total + f.len
  <2> SUFFICES ASSUME NEW i \in DOMAIN gs
               PROVE  EndOf(gs[i]) <= total + f.len
    OBVIOUS
  <2>1. CASE i \in 1..Len(fs)
    BY <2>1, <1>6
  <2>2. CASE i = Len(gs)
    BY <2>2, <1>7
  <2> QED
    BY <2>1, <2>2, <1>1
<1>9. ASSUME NEW o \in Nat, o < total + f.len
      PROVE  \E i \in DOMAIN gs : EndOf(gs[i]) > o /\ \A j \in 1..(i - 1) : EndOf(gs[j]) <= o
  <2>1. CASE o < total
    <3>1. PICK i \in DOMAIN fs : EndOf(fs[i]) > o /\ \A j \in 1..(i - 1) : EndOf(fs[j]) <= o
      BY <2>1 DEF Tiled
    <3> QED
      BY <3>1, <1>1
  <2>2. CASE o >= total
    BY <2>2, <1>6, <1>1, <1>7, <1>9
  <2> QED
    BY <2>1, <2>2
<1> QED
  BY <1>1, <1>2, <1>3, <1>4, <1>5, <1>7, <1>8, <1>9 DEF Tiled, gs

-----------------------------------------------------------------------------
(* The inductive invariant.                                                *)

\* What the sealed fragments cover.
SealedBytes == IF cur = NoPiece THEN written ELSE cur.start

\* The writer's side: the fragments lie side by side, what is open follows
\* them, and every segment has a nonce of its own.
WriterInv ==
  /\ format \in {"stream", "single"}
  /\ written \in Nat /\ written <= MaxBytes /\ SealedBytes \in Nat
  /\ Tiled(frags, SealedBytes)
  /\ \A i \in DOMAIN frags : frags[i].nonce = IF format = "stream" THEN i ELSE 0
  /\ cur # NoPiece => /\ DOMAIN cur = {"start", "len", "crcs"}
                      /\ cur.len \in Nat /\ cur.start + cur.len = written

\* The counter of a fragment's first byte.
FirstCounter(f) == IF f.nonce # 0 THEN 0 ELSE f.start

\* The stream s reads fragment idx, with the fragment's keystream at the
\* place of the next raw byte, which is the reader's offset.
InStep(s) ==
  /\ DOMAIN s = {"frag", "raw", "nonce", "ctr", "guard"}
  /\ s.frag = idx /\ idx \in DOMAIN frags
  /\ s.raw \in Nat /\ s.raw <= frags[idx].len
  /\ s.nonce = frags[idx].nonce
  /\ s.ctr = FirstCounter(frags[idx]) + s.raw
  /\ ~adrift => off = frags[idx].start + s.raw

\* Without a stream, the offset is where the next one will begin.
BetweenStreams ==
  idx \in DOMAIN frags /\ ~adrift =>
    /\ frags[idx].start <= off /\ off <= EndOf(frags[idx])
    /\ rdr = "sequential" => off = frags[idx].start

ReaderInv ==
  /\ rdr \in ReaderNames \cup {"none"} /\ rawSeeks \in BOOLEAN /\ adrift \in BOOLEAN
  /\ bad \in Nat /\ off \in Nat /\ idx \in Nat \ {0}
  /\ rdr # "none" => cur = NoPiece /\ frags # <<>>
  /\ rdr = "none" => dec = NoStream /\ idx = 1 /\ off = 0 /\ last = NothingRead
  /\ rdr = "segment" => format = "stream" /\ dec = NoStream
  /\ rdr # "sequential" => ~adrift
  /\ dec # NoStream => InStep(dec)
  /\ IsFragmentReader /\ dec = NoStream => BetweenStreams

StreamInv == WriterInv /\ ReaderInv /\ ReadsAreRight

LEMMA InitStream == StreamInit => StreamInv
<1> SUFFICES ASSUME StreamInit
             PROVE  StreamInv
  OBVIOUS
<1>1. Tiled(<<>>, 0)
  BY DEF Tiled, ToSet
<1>2. WriterInv
  BY <1>1, StreamAssumption DEF StreamInit, WriterInv, SealedBytes
<1>3. ReaderInv
  <2>1. /\ rdr = "none" /\ rawSeeks = TRUE /\ adrift = FALSE
        /\ bad = 0 /\ off = 0 /\ idx = 1 /\ dec = NoStream /\ last = NothingRead
    BY DEF StreamInit
  <2>2. rawSeeks \in BOOLEAN /\ adrift \in BOOLEAN /\ ~adrift
    BY <2>1
  <2>3. rdr # "segment" /\ rdr # "sequential" /\ ~IsFragmentReader
    BY <2>1 DEF IsFragmentReader
  <2> QED
    BY <2>1, <2>2, <2>3 DEF ReaderInv
<1>4. ReadsAreRight
  BY DEF StreamInit, ReadsAreRight, NothingRead
<1> QED
  BY <1>2, <1>3, <1>4 DEF StreamInv

-----------------------------------------------------------------------------
(* Writing.                                                                *)

\* Sealing the piece p, open at the end of the fragments.
LEMMA SealedTiled ==
  ASSUME format \in {"stream", "single"},
         NEW total \in Nat, Tiled(frags, total),
         \A i \in DOMAIN frags : frags[i].nonce = IF format = "stream" THEN i ELSE 0,
         NEW p, p.start = total, p.len \in Nat
  PROVE  /\ Tiled(Append(frags, Sealed(p)), total + p.len)
         /\ Append(frags, Sealed(p)) # <<>>
         /\ \A i \in DOMAIN Append(frags, Sealed(p)) :
              Append(frags, Sealed(p))[i].nonce = IF format = "stream" THEN i ELSE 0
<1>1. Len(frags) \in Nat
  BY AppendSeq DEF Tiled
<1>2. /\ Sealed(p).start = total /\ Sealed(p).len = p.len
      /\ Sealed(p).nonce = IF format = "stream" THEN Len(frags) + 1 ELSE 0
  BY DEF Sealed
<1> HIDE DEF Sealed
<1>3. Tiled(Append(frags, Sealed(p)), total + p.len)
  BY <1>1, <1>2, TiledAppend
<1>4. /\ DOMAIN frags = 1..Len(frags)
      /\ DOMAIN Append(frags, Sealed(p)) = 1..(Len(frags) + 1)
      /\ \A i \in 1..Len(frags) : Append(frags, Sealed(p))[i] = frags[i]
      /\ Append(frags, Sealed(p))[Len(frags) + 1] = Sealed(p)
  BY AppendSeq DEF Tiled
<1>5. Append(frags, Sealed(p)) # <<>>
  BY <1>1, <1>4
<1>6. ASSUME NEW i \in DOMAIN Append(frags, Sealed(p))
      PROVE  Append(frags, Sealed(p))[i].nonce = IF format = "stream" THEN i ELSE 0
  <2>1. CASE i \in 1..Len(frags)
    BY <2>1, <1>4
  <2>2. CASE i = Len(frags) + 1
    BY <2>2, <1>4, <1>2
  <2> QED
    BY <2>1, <2>2, <1>1, <1>4
<1> QED
  BY <1>3, <1>5, <1>6

LEMMA WriteStream ==
  ASSUME WriterInv, NEW n \in 1..(MaxBytes - written), StreamWrite(n), format' = format
  PROVE  WriterInv'
<1> DEFINE p == IF cur = NoPiece THEN NewPiece ELSE cur
           q == [p EXCEPT !.len = @ + n]
<1>1. /\ DOMAIN p = {"start", "len", "crcs"}
      /\ p.start = SealedBytes /\ p.len \in Nat /\ p.start + p.len = written
      /\ p.start \in Nat
  BY DEF WriterInv, SealedBytes, NewPiece
<1>2. /\ DOMAIN q = {"start", "len", "crcs"}
      /\ q.start = SealedBytes /\ q.len = p.len + n /\ q.len \in Nat
      /\ q.start + q.len = written + n /\ q.start # -1
  BY <1>1 DEF WriterInv
<1>3. /\ written' = written + n
      /\ \/ frags' = Append(frags, Sealed(q)) /\ cur' = NoPiece
         \/ cur' = q /\ frags' = frags
  BY DEF StreamWrite
<1>4. written' \in Nat /\ written' <= MaxBytes
  BY <1>3, StreamAssumption DEF WriterInv
<1> HIDE DEF p, q
<1>5. CASE frags' = Append(frags, Sealed(q)) /\ cur' = NoPiece
  <2>1. /\ Tiled(Append(frags, Sealed(q)), SealedBytes + q.len)
        /\ \A i \in DOMAIN Append(frags, Sealed(q)) :
             Append(frags, Sealed(q))[i].nonce = IF format = "stream" THEN i ELSE 0
    BY <1>2, SealedTiled DEF WriterInv
  <2>2. SealedBytes' = SealedBytes + q.len
    BY <1>2, <1>3, <1>5 DEF SealedBytes
  <2> QED
    BY <1>4, <1>5, <2>1, <2>2, <1>2 DEF WriterInv
<1>6. CASE cur' = q /\ frags' = frags
  <2>1. cur' # NoPiece
    BY <1>6, <1>2 DEF NoPiece
  <2>2. SealedBytes' = SealedBytes
    BY <2>1, <1>6, <1>2 DEF SealedBytes
  <2> QED
    BY <1>2, <1>3, <1>4, <1>6, <2>1, <2>2 DEF WriterInv
<1> QED
  BY <1>3, <1>5, <1>6

LEMMA BeginPiece ==
  ASSUME WriterInv, BeginFragment, format' = format
  PROVE  WriterInv'
<1>1. /\ cur = NoPiece /\ cur' = NewPiece /\ frags' = frags /\ written' = written
      /\ NewPiece.start = written /\ NewPiece.len = 0
      /\ DOMAIN NewPiece = {"start", "len", "crcs"}
  BY DEF BeginFragment, NewPiece
<1>2. cur' # NoPiece
  BY <1>1 DEF NoPiece, WriterInv
<1>3. SealedBytes' = SealedBytes
  BY <1>1, <1>2 DEF SealedBytes
<1> QED
  BY <1>1, <1>2, <1>3 DEF WriterInv

LEMMA WritePiece ==
  ASSUME WriterInv, NEW n \in 1..(MaxBytes - written), WriteFragmentData(n), format' = format
  PROVE  WriterInv'
<1>1. /\ cur # NoPiece /\ frags' = frags /\ written' = written + n
      /\ DOMAIN cur' = {"start", "len", "crcs"}
      /\ cur'.start = cur.start /\ cur'.len = cur.len + n
  BY DEF WriteFragmentData, WriterInv
<1>2. cur.start \in Nat /\ SealedBytes = cur.start /\ cur.len \in Nat /\ cur.start + cur.len = written
  BY <1>1 DEF WriterInv, SealedBytes
<1>3. cur' # NoPiece
  BY <1>1, <1>2 DEF NoPiece
<1>4. SealedBytes' = SealedBytes
  BY <1>1, <1>2, <1>3 DEF SealedBytes
<1> QED
  BY <1>1, <1>2, <1>3, <1>4, StreamAssumption DEF WriterInv

LEMMA FinishPiece ==
  ASSUME WriterInv, FinishFragment, format' = format
  PROVE  WriterInv'
<1>1. /\ cur # NoPiece /\ cur' = NoPiece /\ written' = written
      /\ frags' = Append(frags, Sealed(cur))
  BY DEF FinishFragment
<1>2. SealedBytes \in Nat /\ SealedBytes = cur.start /\ cur.len \in Nat /\ cur.start + cur.len = written
  BY <1>1 DEF WriterInv, SealedBytes
<1>3. /\ Tiled(Append(frags, Sealed(cur)), SealedBytes + cur.len)
      /\ \A i \in DOMAIN Append(frags, Sealed(cur)) :
           Append(frags, Sealed(cur))[i].nonce = IF format = "stream" THEN i ELSE 0
  BY <1>2, SealedTiled DEF WriterInv
<1>4. SealedBytes' = SealedBytes + cur.len
  BY <1>1, <1>2 DEF SealedBytes
<1> QED
  BY <1>1, <1>2, <1>3, <1>4 DEF WriterInv

\* Closing the writer leaves nothing open.
LEMMA ManifestTiled ==
  ASSUME WriterInv, format = "stream" \/ cur = NoPiece
  PROVE  /\ Tiled(Manifest, written)
         /\ \A i \in DOMAIN Manifest : Manifest[i].nonce = IF format = "stream" THEN i ELSE 0
<1> DEFINE p == IF cur = NoPiece THEN NewPiece ELSE cur
<1>1. p.start = SealedBytes /\ p.len \in Nat /\ SealedBytes + p.len = written
  BY DEF WriterInv, SealedBytes, NewPiece
<1> HIDE DEF p
<1>2. CASE Manifest = Append(frags, Sealed(p))
  BY <1>1, <1>2, SealedTiled DEF WriterInv
<1>3. CASE Manifest = frags /\ cur = NoPiece
  BY <1>3 DEF WriterInv, SealedBytes
<1> QED
  BY <1>2, <1>3 DEF Manifest, p

\* What a write leaves of the reader: there is none yet.
LEMMA WritesKeepReader ==
  ASSUME StreamInv, WriteContainer
  PROVE  ReaderInv' /\ ReadsAreRight'
<1>1. /\ rdr = "none" /\ rdr' = "none" /\ dec' = dec /\ idx' = idx /\ off' = off
      /\ bad' = bad /\ rawSeeks' = rawSeeks /\ adrift' = adrift /\ last' = last
  BY DEF WriteContainer, readerVars
<1>2. ~IsFragmentReader' /\ dec' = NoStream
  BY <1>1 DEF IsFragmentReader, StreamInv, ReaderInv
<1>3. ReaderInv'
  BY <1>1, <1>2 DEF StreamInv, ReaderInv
<1>4. ReadsAreRight'
  BY <1>1 DEF StreamInv, ReadsAreRight
<1> QED
  BY <1>3, <1>4

LEMMA StepWriteContainer == StreamInv /\ WriteContainer => StreamInv'
<1> SUFFICES ASSUME StreamInv, WriteContainer
             PROVE  StreamInv'
  OBVIOUS
<1>1. format' = format /\ WriterInv
  BY DEF WriteContainer, StreamInv
<1>2. WriterInv'
  BY <1>1, WriteStream, WritePiece, BeginPiece, FinishPiece DEF WriteContainer
<1> QED
  BY <1>2, WritesKeepReader DEF StreamInv

-----------------------------------------------------------------------------
(* Reading.                                                                *)

\* While there is a reader, the fragments cover all that was written.
LEMMA WholeIsTiled ==
  ASSUME WriterInv, cur = NoPiece
  PROVE  /\ Tiled(frags, written) /\ TotalSize = written /\ written \in Nat
         /\ Len(frags) \in Nat /\ DOMAIN frags = 1..Len(frags)
<1>1. Tiled(frags, written) /\ written \in Nat
  BY DEF WriterInv, SealedBytes
<1>2. Len(frags) \in Nat /\ DOMAIN frags = 1..Len(frags)
  BY <1>1, AppendSeq DEF Tiled
<1>3. TotalSize = written
  BY <1>1 DEF Tiled, TotalSize, EndOf, Last
<1> QED
  BY <1>1, <1>2, <1>3

\* The search finds the fragment that an offset lies in.
LEMMA FindWorks ==
  ASSUME WriterInv, cur = NoPiece, NEW o \in 0..TotalSize
  PROVE  /\ Find(o) \in 1..(Len(frags) + 1)
         /\ Find(o) \in DOMAIN frags =>
              frags[Find(o)].start <= o /\ o < EndOf(frags[Find(o)])
         /\ o < TotalSize => Find(o) \in DOMAIN frags
<1>1. /\ Tiled(frags, TotalSize) /\ TotalSize \in Nat
      /\ Len(frags) \in Nat /\ DOMAIN frags = 1..Len(frags)
  BY WholeIsTiled
<1>2. CASE o = TotalSize
  BY <1>1, <1>2 DEF Find
<1>3. CASE o < TotalSize
  <2> DEFINE Ends(i) == /\ frags[i].start + frags[i].len > o
                        /\ \A j \in 1..(i - 1) : frags[j].start + frags[j].len <= o
  <2>1. \E i \in DOMAIN frags : Ends(i)
    BY <1>1, <1>3 DEF Tiled, EndOf
  <2>2. Find(o) = CHOOSE i \in DOMAIN frags : Ends(i)
    BY <1>3, <1>1 DEF Find
  <2> HIDE DEF Ends
  <2>3. Find(o) \in DOMAIN frags /\ Ends(Find(o))
    BY <2>1, <2>2
  <2> DEFINE i == Find(o)
  <2>4. EndOf(frags[i]) > o /\ \A j \in 1..(i - 1) : EndOf(frags[j]) <= o
    BY <2>3 DEF Ends, EndOf
  <2> HIDE DEF i
  <2>5. i \in DOMAIN frags /\ i \in 1..Len(frags)
    BY <2>3, <1>1 DEF i
  <2>6. frags[i].start <= o
    <3>1. CASE i = 1
      BY <3>1, <2>5, <1>1 DEF Tiled
    <3>2. CASE i > 1
      <4>1. frags[i].start = EndOf(frags[i - 1])
        BY <3>2, <2>5, <1>1 DEF Tiled
      <4>2. i - 1 \in 1..(i - 1)
        BY <3>2, <2>5
      <4> QED
        BY <4>1, <4>2, <2>4
    <3> QED
      BY <3>1, <3>2, <2>5
  <2> QED
    BY <2>4, <2>5, <2>6, <1>1 DEF i
<1> QED
  BY <1>2, <1>3, <1>1

\* A stream that is set up at l is at l, in either way of getting there.
LEMMA SetupWorks ==
  ASSUME NEW i \in Nat \ {0}, NEW l \in Nat, frags[i].start \in Nat
  PROVE  /\ DOMAIN Setup(i, l) = {"frag", "raw", "nonce", "ctr", "guard"}
         /\ Setup(i, l).frag = i /\ Setup(i, l).raw = l
         /\ Setup(i, l).nonce = frags[i].nonce
         /\ Setup(i, l).ctr = FirstCounter(frags[i]) + l
         /\ Setup(i, l) # NoStream
<1> DEFINE first == IF frags[i].nonce # 0 THEN 0 ELSE frags[i].start
           s == [frag |-> i, raw |-> 0, nonce |-> frags[i].nonce, ctr |-> first,
                 guard |-> NewGuard(frags[i], l)]
<1>1. first \in Nat /\ first = FirstCounter(frags[i])
  BY DEF FirstCounter
<1>2. \/ Setup(i, l) = [s EXCEPT !.raw = l, !.ctr = first + l]
      \/ Setup(i, l) = [s EXCEPT !.raw = l, !.ctr = @ + l]
  BY DEF Setup
<1>3. /\ DOMAIN Setup(i, l) = {"frag", "raw", "nonce", "ctr", "guard"}
      /\ Setup(i, l).frag = i /\ Setup(i, l).raw = l
      /\ Setup(i, l).nonce = frags[i].nonce
      /\ Setup(i, l).ctr = first + l
  BY <1>2
<1>4. NoStream.frag = 0
  BY DEF NoStream
<1> QED
  BY <1>1, <1>3, <1>4

\* A stream in step gives the plaintext of its places, and Garbage for the
\* damaged one.
LEMMA DecryptedRight ==
  ASSUME WriterInv, bad \in Nat, off \in Nat, InStep(dec), ~adrift, NEW n \in Nat,
         NEW i \in 1..n
  PROVE  Decrypted(dec, n)[i] = IF off + i = bad THEN Garbage ELSE off + i
<1> DEFINE f == frags[idx]
           b == f.start + dec.raw + i
<1>1. /\ f.start \in Nat /\ f.nonce \in Nat /\ dec.raw \in Nat
      /\ dec.frag = idx /\ dec.nonce = f.nonce /\ dec.ctr = FirstCounter(f) + dec.raw
      /\ off = f.start + dec.raw
  BY DEF WriterInv, InStep, Tiled
<1>2. b = off + i /\ b \in Nat /\ b > 0
  BY <1>1
<1>3. Decrypted(dec, n)[i] =
        IF RawByte(b) > 0 /\ Keystream(f, RawByte(b)) = <<dec.nonce, dec.ctr + i - 1>>
        THEN RawByte(b) ELSE Garbage
  BY <1>1 DEF Decrypted, RawBytes
<1>4. CASE b = bad
  <2>1. RawByte(b) = -b /\ ~(RawByte(b) > 0)
    BY <1>4, <1>2 DEF RawByte
  <2> QED
    BY <2>1, <1>2, <1>3, <1>4
<1>5. CASE b # bad
  <2>1. RawByte(b) = b
    BY <1>5 DEF RawByte
  <2>2. CASE f.nonce # 0
    <3>1. b - f.start - 1 = dec.ctr + i - 1
      BY <2>2, <1>1 DEF FirstCounter
    <3>2. Keystream(f, b) = <<dec.nonce, dec.ctr + i - 1>>
      BY <3>1, <2>2, <1>1 DEF Keystream
    <3> QED
      BY <3>2, <2>1, <1>2, <1>3, <1>5
  <2>3. CASE f.nonce = 0
    <3>1. b - 1 = dec.ctr + i - 1
      BY <2>3, <1>1 DEF FirstCounter
    <3>2. Keystream(f, b) = <<dec.nonce, dec.ctr + i - 1>>
      BY <3>1, <2>3, <1>1 DEF Keystream
    <3> QED
      BY <3>2, <2>1, <1>2, <1>3, <1>5
  <2> QED
    BY <2>2, <2>3
<1> QED
  BY <1>4, <1>5

-----------------------------------------------------------------------------
(* The steps of the readers.                                               *)

Framed == UNCHANGED <<writerVars, bad, rdr, rawSeeks>>

LEMMA FramedKeeps ==
  ASSUME WriterInv, Framed
  PROVE  /\ WriterInv' /\ frags' = frags /\ cur' = cur /\ format' = format
         /\ bad' = bad /\ rdr' = rdr /\ rawSeeks' = rawSeeks
  BY DEF Framed, writerVars, WriterInv, SealedBytes

\* A reader's fragments, by the facts that its steps use.
LEMMA ReaderFacts ==
  ASSUME StreamInv, rdr # "none"
  PROVE  /\ WriterInv /\ ReaderInv /\ cur = NoPiece
         /\ Len(frags) \in Nat /\ DOMAIN frags = 1..Len(frags)
         /\ \A i \in DOMAIN frags : frags[i].start \in Nat /\ frags[i].len \in Nat
         /\ TotalSize \in Nat
<1>1. WriterInv /\ ReaderInv /\ cur = NoPiece
  BY DEF StreamInv, ReaderInv
<1>2. /\ Tiled(frags, written) /\ TotalSize = written /\ written \in Nat
      /\ Len(frags) \in Nat /\ DOMAIN frags = 1..Len(frags)
  BY <1>1, WholeIsTiled
<1> QED
  BY <1>1, <1>2 DEF Tiled

LEMMA StepSetupInRead == StreamInv /\ SetupInRead /\ Framed => StreamInv'
<1> SUFFICES ASSUME StreamInv, SetupInRead, Framed
             PROVE  StreamInv'
  OBVIOUS
<1>1. IsFragmentReader /\ rdr # "none" /\ rdr # "segment"
  BY DEF SetupInRead, IsFragmentReader
<1>2. /\ WriterInv /\ ReaderInv /\ cur = NoPiece
      /\ \A i \in DOMAIN frags : frags[i].start \in Nat /\ frags[i].len \in Nat
  BY <1>1, ReaderFacts
<1>3. /\ WriterInv' /\ frags' = frags /\ cur' = cur /\ format' = format
      /\ bad' = bad /\ rdr' = rdr /\ rawSeeks' = rawSeeks
  BY <1>2, FramedKeeps
<1> DEFINE l == IF rdr = "virtual" /\ off > frags[idx].start THEN off - frags[idx].start ELSE 0
<1>4. /\ dec = NoStream /\ idx \in DOMAIN frags /\ dec' = Setup(idx, l)
      /\ rdr = "virtual" => l < frags[idx].len
      /\ idx' = idx /\ off' = off /\ last' = last /\ adrift' = adrift
  BY DEF SetupInRead
<1>5. off \in Nat /\ idx \in Nat \ {0} /\ frags[idx].start \in Nat /\ frags[idx].len \in Nat
  BY <1>2, <1>4 DEF ReaderInv
<1>6. l \in Nat /\ l <= frags[idx].len
  BY <1>4, <1>5
<1>7. ~adrift => off = frags[idx].start + l
  <2> SUFFICES ASSUME ~adrift
               PROVE  off = frags[idx].start + l
    OBVIOUS
  <2>1. frags[idx].start <= off /\ (rdr = "sequential" => off = frags[idx].start)
    BY <1>1, <1>2, <1>4 DEF ReaderInv, BetweenStreams
  <2> QED
    BY <2>1, <1>1, <1>5 DEF IsFragmentReader
<1> HIDE DEF l
<1>8. InStep(dec)' /\ dec' # NoStream
  BY <1>3, <1>4, <1>5, <1>6, <1>7, SetupWorks DEF InStep
<1>9. ReaderInv'
  BY <1>1, <1>2, <1>3, <1>4, <1>8 DEF ReaderInv
<1>10. ReadsAreRight'
  BY <1>3, <1>4 DEF StreamInv, ReadsAreRight
<1> QED
  BY <1>3, <1>9, <1>10 DEF StreamInv

LEMMA StepReadStream ==
  ASSUME StreamInv, NEW n \in Nat, ReadStream(n), Framed
  PROVE  StreamInv'
<1>1. IsFragmentReader /\ rdr # "none" /\ rdr # "segment"
  BY DEF ReadStream, IsFragmentReader
<1>2. /\ WriterInv /\ ReaderInv /\ cur = NoPiece
      /\ Len(frags) \in Nat /\ DOMAIN frags = 1..Len(frags)
      /\ \A i \in DOMAIN frags : frags[i].start \in Nat /\ frags[i].len \in Nat
  BY <1>1, ReaderFacts
<1>3. /\ WriterInv' /\ frags' = frags /\ cur' = cur /\ format' = format
      /\ bad' = bad /\ rdr' = rdr /\ rawSeeks' = rawSeeks
  BY <1>2, FramedKeeps
<1>4. /\ dec # NoStream /\ InStep(dec) /\ bad \in Nat /\ off \in Nat /\ adrift \in BOOLEAN
  BY <1>2 DEF ReadStream, ReaderInv
<1>5. /\ dec.frag = idx /\ idx \in DOMAIN frags /\ dec.raw \in Nat
      /\ dec.raw <= frags[idx].len
      /\ n <= frags[idx].len - dec.raw
      /\ off' = off + n /\ adrift' = adrift
      /\ last'.at = off /\ last'.bytes = Decrypted(dec, n)
      /\ ~adrift => off = frags[idx].start + dec.raw
  BY <1>4 DEF ReadStream, InStep
<1>6. /\ idx \in Nat \ {0} /\ idx \in 1..Len(frags)
      /\ frags[idx].start \in Nat /\ frags[idx].len \in Nat
  BY <1>2, <1>5
<1>7. ReadsAreRight'
  <2>1. DOMAIN last'.bytes = 1..n
    BY <1>5 DEF Decrypted
  <2>2. ASSUME ~adrift, NEW i \in 1..n
        PROVE  last'.bytes[i] = IF off + i = bad THEN Garbage ELSE off + i
    BY <2>2, <1>2, <1>4, <1>5, DecryptedRight
  <2> QED
    BY <2>1, <2>2, <1>3, <1>5 DEF ReadsAreRight
<1>8. CASE /\ dec' = [dec EXCEPT !.raw = @ + n, !.ctr = @ + n, !.guard = Guarded(dec, n).guard]
           /\ idx' = idx
  <2>1. /\ DOMAIN dec' = {"frag", "raw", "nonce", "ctr", "guard"}
        /\ dec'.frag = idx /\ dec'.raw = dec.raw + n /\ dec'.nonce = dec.nonce
        /\ dec'.ctr = dec.ctr + n
    BY <1>4, <1>8 DEF InStep
  <2>2. dec' # NoStream
    BY <2>1, <1>6 DEF NoStream
  <2>3. FirstCounter(frags[idx]) \in Nat
    BY <1>6 DEF FirstCounter
  <2>4. dec.nonce = frags[idx].nonce /\ dec.ctr = FirstCounter(frags[idx]) + dec.raw
    BY <1>4 DEF InStep
  <2>5. dec'.ctr = FirstCounter(frags[idx]) + (dec.raw + n)
    BY <2>1, <2>3, <2>4, <1>5
  <2>6. dec.raw + n \in Nat /\ dec.raw + n <= frags[idx].len
    BY <1>5, <1>6
  <2>7. ~adrift => off' = frags[idx].start + (dec.raw + n)
    BY <1>4, <1>5, <1>6
  <2>8. FirstCounter(frags[idx])' = FirstCounter(frags[idx])
    BY <1>3, <1>8 DEF FirstCounter
  <2>9. InStep(dec)'
    BY <2>1, <2>4, <2>5, <2>6, <2>7, <2>8, <1>3, <1>5, <1>8 DEF InStep
  <2>10. ReaderInv'
    BY <2>2, <2>9, <1>1, <1>2, <1>3, <1>4, <1>5, <1>8 DEF ReaderInv
  <2> QED
    BY <2>10, <1>3, <1>7 DEF StreamInv
<1>9. CASE /\ dec.raw + n = frags[idx].len
           /\ dec' = NoStream /\ idx' = idx + 1
  <2>1. BetweenStreams'
    <3> SUFFICES ASSUME idx' \in DOMAIN frags, ~adrift
                 PROVE  /\ frags[idx'].start <= off' /\ off' <= EndOf(frags[idx'])
                        /\ rdr = "sequential" => off' = frags[idx'].start
      BY <1>3, <1>5 DEF BetweenStreams
    <3>1. off' = EndOf(frags[idx])
      BY <1>5, <1>6, <1>9 DEF EndOf
    <3>2. frags[idx'].start = EndOf(frags[idx])
      <4>1. Tiled(frags, written)
        BY <1>2, WholeIsTiled
      <4>2. idx' - 1 = idx /\ idx' > 1
        BY <1>6, <1>9
      <4> QED
        BY <4>1, <4>2 DEF Tiled
    <3>3. frags[idx'].start \in Nat /\ frags[idx'].len \in Nat
      BY <1>2
    <3> QED
      BY <3>1, <3>2, <3>3 DEF EndOf
  <2>2. ReaderInv'
    BY <2>1, <1>1, <1>2, <1>3, <1>4, <1>5, <1>6, <1>9 DEF ReaderInv
  <2> QED
    BY <2>2, <1>3, <1>7 DEF StreamInv
<1> QED
  BY <1>5, <1>8, <1>9 DEF ReadStream

\* Nothing read is nothing wrong.
LEMMA NothingIsRight == last' = NothingRead => ReadsAreRight'
  BY DEF ReadsAreRight, NothingRead

LEMMA StepSeek ==
  ASSUME StreamInv, NEW o \in 0..TotalSize, Seek(o), Framed
  PROVE  StreamInv'
<1>1. /\ IsFragmentReader /\ rdr # "none" /\ rdr # "segment"
      /\ SeekSequential(o) \/ SeekVirtual(o)
  BY DEF Seek, SeekSequential, SeekVirtual, IsFragmentReader
<1>2. /\ WriterInv /\ ReaderInv /\ cur = NoPiece
      /\ Len(frags) \in Nat /\ DOMAIN frags = 1..Len(frags)
      /\ \A i \in DOMAIN frags : frags[i].start \in Nat /\ frags[i].len \in Nat
      /\ TotalSize \in Nat
  BY <1>1, ReaderFacts
<1>3. /\ WriterInv' /\ frags' = frags /\ cur' = cur /\ format' = format
      /\ bad' = bad /\ rdr' = rdr /\ rawSeeks' = rawSeeks
  BY <1>2, FramedKeeps
<1>4. ReadsAreRight'
  BY NothingIsRight DEF Seek
<1> DEFINE i == Find(o)
           l == o - frags[i].start
<1>5. /\ i \in Nat \ {0} /\ o \in Nat
      /\ i \in DOMAIN frags => frags[i].start <= o /\ o < EndOf(frags[i])
  BY <1>2, FindWorks
<1> HIDE DEF i
\* A stream set up where the search leads is in step.
<1>6. ASSUME i \in DOMAIN frags, dec' = Setup(i, l), idx' = i, off' = o
      PROVE  InStep(dec)' /\ dec' # NoStream
  <2>1. frags[i].start \in Nat /\ frags[i].len \in Nat /\ frags[i].start <= o
        /\ o < frags[i].start + frags[i].len
    BY <1>2, <1>5, <1>6 DEF EndOf
  <2>2. l \in Nat /\ l <= frags[i].len /\ o = frags[i].start + l
    BY <1>5, <2>1
  <2> HIDE DEF l
  <2>3. /\ DOMAIN dec' = {"frag", "raw", "nonce", "ctr", "guard"}
        /\ dec'.frag = i /\ dec'.raw = l /\ dec'.nonce = frags[i].nonce
        /\ dec'.ctr = FirstCounter(frags[i]) + l /\ dec' # NoStream
    BY <1>5, <1>6, <2>1, <2>2, SetupWorks
  <2>4. FirstCounter(frags[idx])' = FirstCounter(frags[i])
    BY <1>3, <1>6 DEF FirstCounter
  <2> QED
    BY <2>1, <2>2, <2>3, <2>4, <1>3, <1>6 DEF InStep
<1>7. CASE SeekSequential(o)
  <2>1. CASE i = Len(frags) + 1 /\ idx' = i /\ dec' = NoStream /\ off' = o /\ adrift' = FALSE
    <3>1. idx' \notin DOMAIN frags'
      BY <2>1, <1>2, <1>3
    <3>2. BetweenStreams'
      BY <3>1 DEF BetweenStreams
    <3>3. ReaderInv'
      BY <3>2, <2>1, <1>1, <1>2, <1>3, <1>5 DEF ReaderInv
    <3> QED
      BY <3>3, <1>3, <1>4 DEF StreamInv
  <2>2. CASE /\ i \in DOMAIN frags /\ dec' = Setup(i, l) /\ idx' = i /\ off' = o
             /\ adrift' = FALSE
    <3>1. InStep(dec)' /\ dec' # NoStream
      BY <1>6, <2>2
    <3>2. ReaderInv'
      BY <3>1, <2>2, <1>1, <1>2, <1>3, <1>5 DEF ReaderInv
    <3> QED
      BY <3>2, <1>3, <1>4 DEF StreamInv
  <2>3. CASE /\ dec' = NoStream /\ idx' = idx /\ off' = off
             /\ adrift' = (idx \in DOMAIN frags /\ off # frags[idx].start)
    <3>1. BetweenStreams'
      <4> SUFFICES ASSUME idx' \in DOMAIN frags', ~adrift'
                   PROVE  /\ frags'[idx'].start <= off' /\ off' <= EndOf(frags'[idx'])
                          /\ rdr' = "sequential" => off' = frags'[idx'].start
        BY DEF BetweenStreams, EndOf
      <4>1. idx \in DOMAIN frags /\ off = frags[idx].start
        BY <2>3, <1>3
      <4>2. frags[idx].start \in Nat /\ frags[idx].len \in Nat
        BY <4>1, <1>2
      <4> QED
        BY <4>1, <4>2, <2>3, <1>3 DEF EndOf
    <3>2. rdr = "sequential"
      BY <1>7 DEF SeekSequential
    <3>3. ReaderInv'
      BY <3>1, <3>2, <2>3, <1>1, <1>2, <1>3 DEF ReaderInv
    <3> QED
      BY <3>3, <1>3, <1>4 DEF StreamInv
  <2> QED
    BY <1>7, <2>1, <2>2, <2>3 DEF SeekSequential, i
<1>8. CASE SeekVirtual(o)
  <2>1. rdr = "virtual" /\ idx' = i /\ off' = o /\ adrift' = adrift /\ ~adrift
    BY <1>8, <1>2 DEF SeekVirtual, ReaderInv, i
  <2>2. CASE i \in DOMAIN frags /\ dec' = Setup(i, l)
    <3>1. InStep(dec)' /\ dec' # NoStream
      BY <1>6, <2>1, <2>2
    <3>2. ReaderInv'
      BY <3>1, <2>1, <1>1, <1>2, <1>3, <1>5 DEF ReaderInv
    <3> QED
      BY <3>2, <1>3, <1>4 DEF StreamInv
  <2>3. CASE dec' = NoStream
    <3>1. BetweenStreams'
      BY <2>1, <1>2, <1>3, <1>5 DEF BetweenStreams, EndOf
    <3>2. ReaderInv'
      BY <3>1, <2>1, <2>3, <1>1, <1>2, <1>3, <1>5 DEF ReaderInv
    <3> QED
      BY <3>2, <1>3, <1>4 DEF StreamInv
  <2> QED
    BY <1>8, <2>1, <2>2, <2>3 DEF SeekVirtual, i
<1> QED
  BY <1>1, <1>7, <1>8

\* A segment has a nonce, and its keystream begins with it.
LEMMA SegmentRight ==
  ASSUME WriterInv, format = "stream", NEW i \in DOMAIN frags, NEW k \in 1..frags[i].len
  PROVE  SegmentPlain(frags[i])[k] = frags[i].start + k
<1>1. frags[i].nonce = i /\ frags[i].start \in Nat /\ frags[i].len \in Nat
  BY DEF WriterInv, Tiled
<1>2. DOMAIN frags = 1..Len(frags) /\ Len(frags) \in Nat
  BY AppendSeq DEF WriterInv, Tiled
<1>3. i # 0
  BY <1>2
<1>4. frags[i].start + k - frags[i].start - 1 = k - 1
  BY <1>1
<1>5. Keystream(frags[i], frags[i].start + k) = <<frags[i].nonce, k - 1>>
  BY <1>1, <1>3, <1>4 DEF Keystream
<1> QED
  BY <1>5 DEF SegmentPlain

LEMMA StepReadSegment ==
  ASSUME StreamInv, NEW n \in Nat, ReadSegment(n), Framed
  PROVE  StreamInv'
<1>1. rdr = "segment" /\ rdr # "none" /\ ~IsFragmentReader
  BY DEF ReadSegment, IsFragmentReader
<1>2. /\ WriterInv /\ ReaderInv /\ cur = NoPiece
      /\ \A i \in DOMAIN frags : frags[i].start \in Nat /\ frags[i].len \in Nat
      /\ TotalSize \in Nat
  BY <1>1, ReaderFacts
<1>3. /\ WriterInv' /\ frags' = frags /\ cur' = cur /\ format' = format
      /\ bad' = bad /\ rdr' = rdr /\ rawSeeks' = rawSeeks
  BY <1>2, FramedKeeps
<1> DEFINE i == Find(off)
           f == frags[i]
<1>4. /\ off < TotalSize /\ off \in Nat /\ format = "stream"
      /\ n <= f.start + f.len - off /\ bad \notin PlacesOf(f)
      /\ last' = [at |-> off, bytes |-> [k \in 1..n |-> SegmentPlain(f)[off - f.start + k]],
                  failed |-> FALSE]
      /\ off' = off + n /\ idx' = idx /\ dec' = dec /\ adrift' = adrift
  BY <1>1, <1>2 DEF ReadSegment, LocateOffset, ReaderInv
<1>5. i \in DOMAIN frags /\ f.start <= off
  BY <1>2, <1>4, FindWorks
<1> HIDE DEF i
<1>6. ASSUME NEW k \in 1..n
      PROVE  last'.bytes[k] = off + k /\ off + k # bad
  <2>1. f.start \in Nat /\ f.len \in Nat
    BY <1>2, <1>5
  <2>2. off - f.start + k \in 1..f.len /\ f.start + (off - f.start + k) = off + k
    BY <2>1, <1>4, <1>5
  <2>3. SegmentPlain(f)[off - f.start + k] = f.start + (off - f.start + k)
    BY <2>2, <1>2, <1>4, <1>5, SegmentRight
  <2>4. off + k \in PlacesOf(f)
    <3>1. off + k \in Nat /\ off + k > f.start /\ off + k <= f.start + f.len
      BY <2>1, <2>2
    <3> HIDE DEF f
    <3> QED
      BY <2>1, <3>1 DEF PlacesOf
  <2>5. off + k # bad
    BY <2>4, <1>4
  <2>6. last'.bytes = [h \in 1..n |-> SegmentPlain(f)[off - f.start + h]]
    BY <1>4
  <2>7. last'.bytes[k] = SegmentPlain(f)[off - f.start + k]
    BY <2>6
  <2>8. f.start + (off - f.start + k) = off + k
    BY <2>2
  <2> QED
    BY <2>3, <2>5, <2>7, <2>8
<1>7. ReadsAreRight'
  BY <1>3, <1>4, <1>6 DEF ReadsAreRight
<1>8. ReaderInv'
  <2>1. ~IsFragmentReader' /\ dec' = NoStream /\ off' \in Nat
    BY <1>1, <1>2, <1>3, <1>4 DEF IsFragmentReader, ReaderInv
  <2> QED
    BY <2>1, <1>1, <1>2, <1>3, <1>4 DEF ReaderInv
<1> QED
  BY <1>3, <1>7, <1>8 DEF StreamInv

LEMMA StepSeekSegment ==
  ASSUME StreamInv, NEW o \in 0..TotalSize, SeekSegment(o), Framed
  PROVE  StreamInv'
<1>1. /\ rdr = "segment" /\ rdr # "none" /\ off' = o /\ last' = NothingRead
      /\ idx' = idx /\ dec' = dec /\ adrift' = adrift
  BY DEF SeekSegment
<1>2. WriterInv /\ ReaderInv /\ TotalSize \in Nat
  BY <1>1, ReaderFacts
<1>3. /\ WriterInv' /\ frags' = frags /\ cur' = cur /\ format' = format
      /\ bad' = bad /\ rdr' = rdr /\ rawSeeks' = rawSeeks
  BY <1>2, FramedKeeps
<1>4. ~IsFragmentReader' /\ dec' = NoStream /\ off' \in Nat
  BY <1>1, <1>2, <1>3 DEF IsFragmentReader, ReaderInv
<1>5. ReaderInv'
  BY <1>1, <1>2, <1>3, <1>4 DEF ReaderInv
<1> QED
  BY <1>1, <1>3, <1>5, NothingIsRight DEF StreamInv

LEMMA StepReadContainer == StreamInv /\ ReadContainer => StreamInv'
<1> SUFFICES ASSUME StreamInv, ReadContainer
             PROVE  StreamInv'
  OBVIOUS
<1>1. Framed
  BY DEF ReadContainer, Framed
<1>2. \A n \in 0..MaxBytes : n \in Nat
  BY StreamAssumption
<1> QED
  BY <1>1, <1>2, StepSetupInRead, StepReadStream, StepSeek, StepReadSegment, StepSeekSegment
     DEF ReadContainer

\* A reader begins at the first fragment, which begins at 0.
LEMMA StepOpen ==
  ASSUME StreamInv, NEW which \in ReaderNames, NEW damaged \in 0..written, Open(which, damaged)
  PROVE  StreamInv'
<1>1. /\ rdr = "none" /\ rdr' = which /\ frags' = Manifest /\ Manifest # <<>>
      /\ cur' = NoPiece /\ bad' = damaged /\ rawSeeks' \in BOOLEAN
      /\ format' = format /\ written' = written /\ idx' = idx /\ dec' = dec
      /\ off' = off /\ last' = last /\ adrift' = adrift
      /\ format = "stream" \/ cur = NoPiece
      /\ which = "segment" => format = "stream"
  BY DEF Open
<1>2. WriterInv /\ ReaderInv /\ ReadsAreRight
  BY DEF StreamInv
<1>3. /\ Tiled(Manifest, written)
      /\ \A i \in DOMAIN Manifest : Manifest[i].nonce = IF format = "stream" THEN i ELSE 0
  BY <1>1, <1>2, ManifestTiled
<1>4. SealedBytes' = written /\ written \in Nat
  BY <1>1, <1>2 DEF SealedBytes, WriterInv
<1>5. WriterInv'
  BY <1>1, <1>2, <1>3, <1>4 DEF WriterInv
<1>6. ReadsAreRight'
  BY <1>1, <1>2, NothingIsRight DEF ReaderInv
<1>7. BetweenStreams'
  <2>1. off' = 0 /\ idx' = 1
    BY <1>1, <1>2 DEF ReaderInv
  <2>2. ASSUME 1 \in DOMAIN Manifest
        PROVE  /\ Manifest[1].start = 0 /\ Manifest[1].len \in Nat
    BY <2>2, <1>1, <1>3 DEF Tiled
  <2> QED
    BY <2>1, <2>2, <1>1 DEF BetweenStreams, EndOf
<1>8. ReaderInv'
  <2>1. bad' \in Nat
    BY <1>1, <1>4
  <2>2. which # "none"
    BY DEF ReaderNames
  <2>3. dec' = NoStream /\ ~adrift' /\ off' \in Nat /\ idx' \in Nat \ {0} /\ adrift' \in BOOLEAN
    BY <1>1, <1>2 DEF ReaderInv
  <2> QED
    BY <2>1, <2>2, <2>3, <1>1, <1>7 DEF ReaderInv
<1> QED
  BY <1>5, <1>6, <1>8 DEF StreamInv

LEMMA StutterStream == StreamInv /\ UNCHANGED streamVars => StreamInv'
<1> SUFFICES ASSUME StreamInv, UNCHANGED streamVars
             PROVE  StreamInv'
  OBVIOUS
<1>1. /\ Framed /\ idx' = idx /\ dec' = dec /\ off' = off /\ last' = last /\ adrift' = adrift
  BY DEF streamVars, readerVars, Framed
<1>2. WriterInv /\ ReaderInv /\ ReadsAreRight
  BY DEF StreamInv
<1>3. /\ WriterInv' /\ frags' = frags /\ cur' = cur /\ format' = format
      /\ bad' = bad /\ rdr' = rdr /\ rawSeeks' = rawSeeks
  BY <1>1, <1>2, FramedKeeps
<1>4. ReaderInv'
  BY <1>1, <1>2, <1>3 DEF ReaderInv, InStep, BetweenStreams, EndOf, IsFragmentReader, FirstCounter
<1>5. ReadsAreRight'
  BY <1>1, <1>2, <1>3 DEF ReadsAreRight
<1> QED
  BY <1>3, <1>4, <1>5 DEF StreamInv

LEMMA StepStream == StreamInv /\ [StreamNext]_streamVars => StreamInv'
  BY StepWriteContainer, StepOpen, StepReadContainer, StutterStream DEF StreamNext

\* Whatever the stream, the way it is cut and written, and the reader that
\* seeks in it: what is returned for an offset is what was written there,
\* the damaged byte alone excepted.  The readers of encv-go set the counter
\* of AES-CTR anew at each fragment, each seek and each discard.
THEOREM ReadsAreRightHolds == StreamSpec => []ReadsAreRight
<1>1. StreamInv => ReadsAreRight
  BY DEF StreamInv
<1> QED
  BY <1>1, InitStream, StepStream, PTL DEF StreamSpec

-----------------------------------------------------------------------------
(* Blocks of bytes.                                                        *)

\* The n bytes of h that follow place p.
Part(h, p, n) == [i \in 1..n |-> h[p + i]]

LEMMA BlockPositive == BlockSize \in Nat \ {0}
  BY StreamAssumption

\* How many blocks n bytes have.
LEMMA DivFacts ==
  ASSUME NEW n \in Nat
  PROVE  /\ n \div BlockSize \in Nat
         /\ (n \div BlockSize) * BlockSize \in Nat
         /\ (n \div BlockSize) * BlockSize <= n
         /\ n < (n \div BlockSize) * BlockSize + BlockSize
  BY BlockPositive

\* A block ends before a later one does.
LEMMA BlocksOrder ==
  ASSUME NEW k \in Int, NEW m \in Int, k < m
  PROVE  k * BlockSize + BlockSize <= m * BlockSize
<1>1. PICK d \in Nat : m = k + 1 + d
<2>1. m - k - 1 \in Nat
  OBVIOUS
<2> QED BY <2>1
<1>2. m * BlockSize = k * BlockSize + BlockSize + d * BlockSize
  BY <1>1, BlockPositive
<1>3. d * BlockSize >= 0
  BY BlockPositive
<1> QED BY <1>1, <1>2, <1>3, BlockPositive

LEMMA DivIs ==
  ASSUME NEW x \in Nat, NEW k \in Nat, k * BlockSize <= x, x < k * BlockSize + BlockSize
  PROVE  x \div BlockSize = k
<1> DEFINE q == x \div BlockSize
<1>1. q \in Nat /\ q * BlockSize <= x /\ x < q * BlockSize + BlockSize
  BY DivFacts
<1> HIDE DEF q
<1>2. ~(q < k)
  BY <1>1, BlocksOrder, BlockPositive
<1>3. ~(k < q)
  BY <1>1, BlocksOrder, BlockPositive
<1>4. q = k
  BY <1>1, <1>2, <1>3
<1> QED
  BY <1>4 DEF q

LEMMA PartSeq ==
  ASSUME NEW h \in [Nat -> Int], NEW p \in Nat, NEW n \in Nat
  PROVE  /\ Part(h, p, n) \in Seq(Int) /\ Len(Part(h, p, n)) = n
         /\ DOMAIN Part(h, p, n) = 1..n
         /\ n = 0 <=> Part(h, p, n) = <<>>
<1>1. Part(h, p, n) \in [1..n -> Int]
  BY DEF Part
<1>2. Part(h, p, n) \in Seq(Int) /\ Len(Part(h, p, n)) = n
  BY <1>1
<1>3. n = 0 <=> Part(h, p, n) = <<>>
  BY <1>2, EmptySeq
<1> QED
  BY <1>1, <1>2, <1>3

LEMMA PartAt ==
  ASSUME NEW h, NEW p, NEW n, NEW i \in 1..n
  PROVE  Part(h, p, n)[i] = h[p + i]
  BY DEF Part

\* Bytes, and the bytes after them.
LEMMA PartConcat ==
  ASSUME NEW h \in [Nat -> Int], NEW p \in Nat, NEW a \in Nat, NEW n \in Nat
  PROVE  Part(h, p, a) \o Part(h, p + a, n) = Part(h, p, a + n)
<1> DEFINE s == Part(h, p, a)
           t == Part(h, p + a, n)
           u == Part(h, p, a + n)
<1>0. p + a \in Nat /\ a + n \in Nat
  OBVIOUS
<1>1. s \in Seq(Int) /\ Len(s) = a
  BY PartSeq
<1>2. t \in Seq(Int) /\ Len(t) = n
  BY <1>0, PartSeq
<1>3. u \in Seq(Int) /\ Len(u) = a + n
  BY <1>0, PartSeq
<1>4. \A i \in 1..a : s[i] = h[p + i]
  BY PartAt
<1>5. \A i \in 1..n : t[i] = h[(p + a) + i]
  BY PartAt
<1>6. \A i \in 1..(a + n) : u[i] = h[p + i]
  BY PartAt
<1> HIDE DEF s, t, u
<1>7. /\ s \o t \in Seq(Int) /\ Len(s \o t) = a + n
      /\ \A i \in 1..(a + n) : (s \o t)[i] = IF i <= a THEN s[i] ELSE t[i - a]
  BY <1>1, <1>2, ConcatProperties
<1>8. ASSUME NEW i \in 1..(a + n)
      PROVE  (s \o t)[i] = u[i]
  <2>1. CASE i <= a
    <3>1. i \in 1..a
      BY <2>1
    <3> QED
      BY <2>1, <3>1, <1>4, <1>6, <1>7
  <2>2. CASE ~(i <= a)
    <3>1. i - a \in 1..n /\ (p + a) + (i - a) = p + i
      BY <2>2
    <3>2. t[i - a] = h[p + i]
      BY <3>1, <1>5
    <3> QED
      BY <2>2, <3>1, <3>2, <1>6, <1>7
  <2> QED
    BY <2>1, <2>2
<1>9. s \o t = u
  BY <1>3, <1>7, <1>8, SeqEqual
<1> QED
  BY <1>9 DEF s, t, u

\* Where block j of n bytes begins, and that it is one of them.
LEMMA BlockPlace ==
  ASSUME NEW m \in Nat, NEW j \in 1..(m \div BlockSize)
  PROVE  /\ (j - 1) * BlockSize \in Nat
         /\ (j - 1) * BlockSize + BlockSize <= m
<1>1. /\ m \div BlockSize \in Nat /\ (m \div BlockSize) * BlockSize <= m
  BY DivFacts
<1> DEFINE q == m \div BlockSize
<1>2. j - 1 \in Nat /\ q \in Nat /\ j - 1 < q
  BY <1>1
<1> HIDE DEF q
<1>3. (j - 1) * BlockSize + BlockSize <= q * BlockSize
  BY <1>2, BlocksOrder
<1>4. (j - 1) * BlockSize \in Nat
  BY <1>2, BlockPositive
<1>5. q * BlockSize <= m /\ q * BlockSize \in Int
  BY <1>1, <1>2, BlockPositive DEF q
<1> QED
  BY <1>3, <1>4, <1>5, BlockPositive

\* The blocks of a part are parts.
LEMMA PartBlocks ==
  ASSUME NEW h \in [Nat -> Int], NEW p \in Nat, NEW m \in Nat
  PROVE  /\ Len(FullBlocks(Part(h, p, m))) = m \div BlockSize
         /\ DOMAIN FullBlocks(Part(h, p, m)) = 1..(m \div BlockSize)
<1>1. Len(Part(h, p, m)) = m /\ m \div BlockSize \in Nat
  BY PartSeq, DivFacts
<1>2. DOMAIN FullBlocks(Part(h, p, m)) = 1..(m \div BlockSize)
  BY <1>1 DEF FullBlocks
<1> QED
  BY <1>1, <1>2 DEF FullBlocks

LEMMA PartBlockAt ==
  ASSUME NEW h \in [Nat -> Int], NEW p \in Nat, NEW m \in Nat, NEW j \in 1..(m \div BlockSize)
  PROVE  FullBlocks(Part(h, p, m))[j] = Part(h, p + (j - 1) * BlockSize, BlockSize)
<1> DEFINE s == Part(h, p, m)
           o == (j - 1) * BlockSize
<1>1. Len(s) = m
  BY PartSeq
<1>2. o \in Nat /\ o + BlockSize <= m
  BY BlockPlace
<1>3. FullBlocks(s)[j] = [i \in 1..BlockSize |-> s[o + i]]
  BY <1>1 DEF FullBlocks
<1>4. \A i \in 1..m : s[i] = h[p + i]
  BY PartAt
<1> HIDE DEF s, o
<1>5. ASSUME NEW i \in 1..BlockSize
      PROVE  s[o + i] = h[(p + o) + i]
  <2>1. o + i \in 1..m /\ p + (o + i) = (p + o) + i
    BY <1>2, BlockPositive
  <2> QED
    BY <2>1, <1>4
<1> QED
  BY <1>3, <1>5 DEF Part, s, o

LEMMA PartRest ==
  ASSUME NEW h \in [Nat -> Int], NEW p \in Nat, NEW m \in Nat
  PROVE  AfterBlocks(Part(h, p, m)) =
           Part(h, p + (m \div BlockSize) * BlockSize, m - (m \div BlockSize) * BlockSize)
<1> DEFINE s == Part(h, p, m)
           o == (m \div BlockSize) * BlockSize
<1>1. Len(s) = m
  BY PartSeq
<1>2. o \in Nat /\ o <= m
  BY DivFacts
<1>3. AfterBlocks(s) = [i \in 1..(m - o) |-> s[o + i]]
  BY <1>1 DEF AfterBlocks
<1>4. \A i \in 1..m : s[i] = h[p + i]
  BY PartAt
<1> HIDE DEF s, o
<1>5. ASSUME NEW i \in 1..(m - o)
      PROVE  s[o + i] = h[(p + o) + i]
  <2>1. o + i \in 1..m /\ p + (o + i) = (p + o) + i
    BY <1>2
  <2> QED
    BY <2>1, <1>4
<1> QED
  BY <1>3, <1>5 DEF Part, s, o

LEMMA BlocksSum ==
  ASSUME NEW a \in Int, NEW c \in Int
  PROVE  /\ (a + c) * BlockSize = a * BlockSize + c * BlockSize
         /\ a * BlockSize \in Int
         /\ (a - 1) * BlockSize + BlockSize = a * BlockSize
  BY BlockPositive

\* The bytes that are written, and those that are read back, the one at b damaged.
Plain == [x \in Nat |-> x]
Raw(b) == [x \in Nat |-> IF x = b THEN -b ELSE x]

\* c holds the CRCs of the n bytes after s: of the full blocks, and of the rest.
Gathered(c, s, n) ==
  LET q == n \div BlockSize IN
  /\ c.blocks \in Seq(Seq(Int)) /\ Len(c.blocks) = q
  /\ \A j \in 1..q : c.blocks[j] = Part(Plain, s + (j - 1) * BlockSize, BlockSize)
  /\ c.acc = Part(Plain, s + q * BlockSize, n - q * BlockSize)

LEMMA PlainBytes ==
  ASSUME NEW s \in Nat, NEW n \in Nat
  PROVE  BytesFrom(s, n) = Part(Plain, s, n)
  BY DEF BytesFrom, Part, Plain

LEMMA FullBlocksSeq ==
  ASSUME NEW h \in [Nat -> Int], NEW p \in Nat, NEW m \in Nat
  PROVE  FullBlocks(Part(h, p, m)) \in Seq(Seq(Int))
<1> DEFINE F == FullBlocks(Part(h, p, m))
           q == m \div BlockSize
<1>1. q \in Nat /\ DOMAIN F = 1..q
  BY DivFacts, PartBlocks
<1>2. ASSUME NEW j \in 1..q
      PROVE  F[j] \in Seq(Int)
  <2>1. (j - 1) * BlockSize \in Nat
    BY BlockPlace
  <2>2. p + (j - 1) * BlockSize \in Nat
    BY <2>1
  <2>3. Part(h, p + (j - 1) * BlockSize, BlockSize) \in Seq(Int)
    BY <2>2, PartSeq, BlockPositive
  <2> QED
    BY <2>3, PartBlockAt
<1>3. F = [j \in DOMAIN F |-> F[j]]
  BY DEF FullBlocks
<1> HIDE DEF F, q
<1>4. F \in [1..q -> Seq(Int)]
  BY <1>1, <1>2, <1>3
<1> QED
  BY <1>1, <1>4 DEF F

\* appendBlockCRC: the blocks do not depend on the pieces the bytes came in.
LEMMA GatherMore ==
  ASSUME NEW s \in Nat, NEW n \in Nat, NEW m \in Nat, NEW c, Gathered(c, s, n)
  PROVE  Gathered(AppendBlockCRC(c, BytesFrom(s + n, m)), s, n + m)
<1> DEFINE q == n \div BlockSize
           o == q * BlockSize
           r == n - o
           q2 == (r + m) \div BlockSize
           fed == Part(Plain, s + o, r + m)
           F == FullBlocks(fed)
           N == AppendBlockCRC(c, BytesFrom(s + n, m))
<1>0. Plain \in [Nat -> Int]
  BY DEF Plain
<1>1. q \in Nat /\ o \in Nat /\ o <= n /\ n < o + BlockSize
  BY DivFacts
<1>2. r \in Nat /\ s + o \in Nat /\ r + m \in Nat /\ (s + o) + r = s + n /\ s + n \in Nat /\ r < BlockSize
  BY <1>1, BlockPositive
<1>3. c.acc = Part(Plain, s + o, r) /\ c.blocks \in Seq(Seq(Int)) /\ Len(c.blocks) = q
  BY DEF Gathered
<1>4. \A j \in 1..q : c.blocks[j] = Part(Plain, s + (j - 1) * BlockSize, BlockSize)
  BY DEF Gathered
<1> HIDE DEF q, o, r
<1>5. c.acc \o BytesFrom(s + n, m) = fed
  <2>1. BytesFrom(s + n, m) = Part(Plain, s + n, m)
    BY <1>2, PlainBytes
  <2>2. Part(Plain, s + o, r) \o Part(Plain, (s + o) + r, m) = Part(Plain, s + o, r + m)
    <3> DEFINE p == s + o
    <3>1. p \in Nat /\ r \in Nat
      BY <1>2
    <3> HIDE DEF p
    <3>2. Part(Plain, p, r) \o Part(Plain, p + r, m) = Part(Plain, p, r + m)
      BY <1>0, <3>1, PartConcat
    <3> QED
      BY <3>2 DEF p
  <2> QED
    BY <2>1, <2>2, <1>2, <1>3
<1>6. N.blocks = c.blocks \o F /\ N.acc = AfterBlocks(fed)
  BY <1>5 DEF AppendBlockCRC
<1> HIDE DEF N
<1>7. q2 \in Nat /\ q2 * BlockSize \in Nat /\ q2 * BlockSize <= r + m /\ r + m < q2 * BlockSize + BlockSize
  BY <1>2, DivFacts
<1>8. Len(F) = q2 /\ F \in Seq(Seq(Int))
  BY <1>0, <1>2, PartBlocks, FullBlocksSeq
<1>9. \A j \in 1..q2 : F[j] = Part(Plain, (s + o) + (j - 1) * BlockSize, BlockSize)
  BY <1>0, <1>2, PartBlockAt
<1>10. N.acc = Part(Plain, (s + o) + q2 * BlockSize, (r + m) - q2 * BlockSize)
  BY <1>0, <1>2, <1>6, PartRest
<1> HIDE DEF q2, F, fed
<1>11. (q + q2) * BlockSize = o + q2 * BlockSize
  BY <1>1, <1>7, BlocksSum DEF o
<1>12. (n + m) \div BlockSize = q + q2
  <2>1. (q + q2) * BlockSize <= n + m /\ n + m < (q + q2) * BlockSize + BlockSize
    BY <1>1, <1>2, <1>7, <1>11, BlockPositive DEF r
  <2> QED
    BY <2>1, <1>1, <1>7, DivIs
<1>13. /\ N.blocks \in Seq(Seq(Int)) /\ Len(N.blocks) = q + q2
       /\ \A j \in 1..(q + q2) : N.blocks[j] = IF j <= q THEN c.blocks[j] ELSE F[j - q]
  <2>1. /\ c.blocks \o F \in Seq(Seq(Int)) /\ Len(c.blocks \o F) = Len(c.blocks) + Len(F)
        /\ \A j \in 1..(Len(c.blocks) + Len(F)) :
             (c.blocks \o F)[j] = IF j <= Len(c.blocks) THEN c.blocks[j] ELSE F[j - Len(c.blocks)]
    BY <1>3, <1>8, ConcatProperties
  <2> QED
    BY <2>1, <1>3, <1>6, <1>8
<1>14. ASSUME NEW j \in 1..(q + q2)
       PROVE  N.blocks[j] = Part(Plain, s + (j - 1) * BlockSize, BlockSize)
  <2>1. CASE j <= q
    <3>1. j \in 1..q
      BY <2>1, <1>1
    <3> QED
      BY <2>1, <3>1, <1>4, <1>13
  <2>2. CASE ~(j <= q)
    <3>1. j - q \in 1..q2 /\ j - 1 = q + (j - q - 1) /\ j - q - 1 \in Int
      BY <2>2, <1>1, <1>7
    <3>2. (j - 1) * BlockSize = o + (j - q - 1) * BlockSize /\ (j - q - 1) * BlockSize \in Int
      BY <3>1, <1>1, BlocksSum DEF o
    <3>3. (s + o) + (j - q - 1) * BlockSize = s + (j - 1) * BlockSize
      BY <3>2, <1>1
    <3>4. F[j - q] = Part(Plain, (s + o) + (j - q - 1) * BlockSize, BlockSize)
      BY <3>1, <1>9
    <3>5. N.blocks[j] = F[j - q]
      BY <2>2, <1>13
    <3> QED
      BY <3>3, <3>4, <3>5
  <2> QED
    BY <2>1, <2>2
<1>15. N.acc = Part(Plain, s + (q + q2) * BlockSize, (n + m) - (q + q2) * BlockSize)
  <2>1. /\ (s + o) + q2 * BlockSize = s + (q + q2) * BlockSize
        /\ (r + m) - q2 * BlockSize = (n + m) - (q + q2) * BlockSize
    BY <1>1, <1>7, <1>11 DEF r
  <2> QED
    BY <2>1, <1>10
<1>16. Gathered(N, s, n + m)
  BY <1>12, <1>13, <1>14, <1>15 DEF Gathered
<1> QED
  BY <1>16 DEF N

\* The CRCs bl of n bytes after s: there is one for each full block.
Checked(bl, s, n) ==
  /\ n > 0 => bl # <<>>
  /\ \A j \in Nat \ {0} : j * BlockSize <= n =>
       j \in DOMAIN bl /\ bl[j] = Part(Plain, s + (j - 1) * BlockSize, BlockSize)

\* The CRCs of the blocks of a sealed fragment.
BlocksOf(f, fmt) ==
  IF fmt = "stream" THEN f.blocks = <<>> ELSE Checked(f.blocks, f.start, f.len)

\* finishBlockCRCs: every full block of the fragment has its CRC.
LEMMA GatheredChecked ==
  ASSUME NEW s \in Nat, NEW n \in Nat, NEW c, Gathered(c, s, n)
  PROVE  Checked(FinishBlockCRCs(c), s, n)
<1> DEFINE q == n \div BlockSize
           o == q * BlockSize
           bl == FinishBlockCRCs(c)
<1>0. Plain \in [Nat -> Int]
  BY DEF Plain
<1>1. q \in Nat /\ o \in Nat /\ o <= n /\ n < o + BlockSize
  BY DivFacts
<1>2. c.acc = Part(Plain, s + o, n - o) /\ c.blocks \in Seq(Seq(Int)) /\ Len(c.blocks) = q
  BY DEF Gathered
<1>3. \A j \in 1..q : c.blocks[j] = Part(Plain, s + (j - 1) * BlockSize, BlockSize)
  BY DEF Gathered
<1> HIDE DEF q
<1>4. s + o \in Nat /\ n - o \in Nat
  BY <1>1
<1>5. c.acc \in Seq(Int) /\ (n - o = 0 <=> c.acc = <<>>)
  <2> DEFINE k == n - o
  <2>1. Part(Plain, s + o, k) \in Seq(Int) /\ (k = 0 <=> Part(Plain, s + o, k) = <<>>)
    BY <1>0, <1>4, PartSeq
  <2> HIDE DEF k
  <2>2. c.acc = Part(Plain, s + o, k)
    BY <1>2 DEF k
  <2> QED
    BY <2>1, <2>2 DEF k
<1>6. /\ bl \in Seq(Seq(Int))
      /\ \A j \in 1..q : j \in DOMAIN bl /\ bl[j] = c.blocks[j]
  BY <1>1, <1>2, <1>5 DEF FinishBlockCRCs
<1>7. ASSUME NEW j \in Nat \ {0}, j * BlockSize <= n
      PROVE  j \in 1..q
  <2>1. ~(q < j)
    <3> SUFFICES ASSUME q < j
                 PROVE  FALSE
      OBVIOUS
    <3>1. o + BlockSize <= j * BlockSize
      BY <1>1, BlocksOrder
    <3>2. j * BlockSize \in Int
      BY BlocksSum
    <3> HIDE DEF o
    <3> QED
      BY <3>1, <3>2, <1>1, <1>7, BlockPositive
  <2> QED
    BY <2>1, <1>1
<1>8. n > 0 => bl # <<>>
  <2> SUFFICES ASSUME n > 0
               PROVE  bl # <<>>
    OBVIOUS
  <2>1. CASE c.acc = <<>>
    <3>1. n - o = 0 /\ o # 0
      BY <1>1, <1>5, <2>1
    <3>2. q # 0
      BY <3>1, BlockPositive
    <3> QED
      BY <3>2, <1>2, <2>1 DEF FinishBlockCRCs
  <2>2. CASE c.acc # <<>>
    <3>1. bl = Append(c.blocks, c.acc)
      BY <2>2 DEF FinishBlockCRCs
    <3>2. Len(Append(c.blocks, c.acc)) = Len(c.blocks) + 1 /\ Len(c.blocks) \in Nat
      BY <1>2, <1>5
    <3>3. Len(<<>>) = 0
      OBVIOUS
    <3> QED
      BY <3>1, <3>2, <3>3
  <2> QED
    BY <2>1, <2>2
<1> HIDE DEF bl
<1>9. Checked(bl, s, n)
  BY <1>3, <1>6, <1>7, <1>8 DEF Checked
<1> QED
  BY <1>9 DEF bl

LEMMA MinIs ==
  ASSUME NEW S, NEW m \in S, m \in Int, \A y \in S : y \in Int /\ m <= y
  PROVE  Min(S) = m
<1>1. \E x \in S : \A y \in S : x <= y
  OBVIOUS
<1>2. Min(S) \in S /\ \A y \in S : Min(S) <= y
  BY <1>1 DEF Min
<1>3. Min(S) <= m /\ m <= Min(S) /\ Min(S) \in Int
  BY <1>2
<1> QED
  BY <1>3

\* The CRC of raw bytes is wrong exactly when the damaged byte is among them.
LEMMA RawDiffers ==
  ASSUME NEW b \in Nat, NEW p \in Nat, NEW n \in Nat
  PROVE  Part(Raw(b), p, n) = BytesFrom(p, n) <=> b \notin (p + 1)..(p + n)
<1>1. \A i \in 1..n : Part(Raw(b), p, n)[i] = IF p + i = b THEN -b ELSE p + i
  BY DEF Part, Raw
<1>2. \A i \in 1..n : BytesFrom(p, n)[i] = p + i
  BY DEF BytesFrom
<1>3. CASE b \notin (p + 1)..(p + n)
  <2>1. \A i \in 1..n : p + i # b
    BY <1>3
  <2>2. \A i \in 1..n : Raw(b)[p + i] = p + i
    BY <2>1 DEF Raw
  <2> QED
    BY <1>3, <2>2 DEF Part, BytesFrom
<1>4. CASE b \in (p + 1)..(p + n)
  <2>1. b - p \in 1..n /\ p + (b - p) = b /\ b # -b
    BY <1>4
  <2> QED
    BY <1>1, <1>2, <1>4, <2>1
<1> QED
  BY <1>3, <1>4

GuardFields == {"on", "crc", "acc", "block"}
\* The bytes before the block that guard g compares.
Before(g) == (g.block - 1) * BlockSize

\* After r bytes of f, g has compared its full blocks, and byte b is in none.
Comparing(g, f, r, b) ==
  /\ g.block \in Nat \ {0} /\ Before(g) <= r /\ r < Before(g) + BlockSize
  /\ g.acc = Part(Raw(b), f.start + Before(g), r - Before(g))
  /\ b \notin (f.start + 1)..(f.start + Before(g))

\* After r bytes of f, g has found the block of byte b, and stays there.
Stuck(g, f, r, b) ==
  /\ g.block \in Nat \ {0} /\ Before(g) + BlockSize <= r
  /\ g.acc = Part(Raw(b), f.start + Before(g), BlockSize)
  /\ b \in (f.start + Before(g) + 1)..(f.start + Before(g) + BlockSize)

LEMMA BeforeFacts ==
  ASSUME NEW g, g.block \in Nat \ {0}
  PROVE  /\ Before(g) \in Nat
         /\ g.block * BlockSize = Before(g) + BlockSize
  BY BlocksSum, BlockPositive DEF Before

\* Block i of a fragment is compared rightly.
LEMMA BlockDiffers ==
  ASSUME NEW f, f.start \in Nat, f.len \in Nat, Checked(f.blocks, f.start, f.len),
         NEW b \in Nat, NEW i \in Nat \ {0}, i * BlockSize <= f.len,
         NEW k \in Nat, k = (i - 1) * BlockSize
  PROVE  /\ i \in DOMAIN f.blocks
         /\ f.blocks[i] # Part(Raw(b), f.start + k, BlockSize)
              <=> b \in (f.start + k + 1)..(f.start + k + BlockSize)
<1>1. i \in DOMAIN f.blocks /\ f.blocks[i] = Part(Plain, f.start + k, BlockSize)
  BY DEF Checked
<1>2. f.start + k \in Nat /\ BlockSize \in Nat
  BY BlockPositive
<1>3. f.blocks[i] = BytesFrom(f.start + k, BlockSize)
  BY <1>1, <1>2, PlainBytes
<1> QED
  BY <1>1, <1>2, <1>3, RawDiffers

LEMMA RawConcat ==
  ASSUME NEW b, NEW p \in Nat, NEW a \in Nat, NEW n \in Nat
  PROVE  Part(Raw(b), p, a) \o Part(Raw(b), p + a, n) = Part(Raw(b), p, a + n)
<1> DEFINE h == Raw(b)
<1>1. h \in [Nat -> Int]
  BY DEF Raw
<1> HIDE DEF h
<1>2. Part(h, p, a) \o Part(h, p + a, n) = Part(h, p, a + n)
  BY <1>1, PartConcat
<1> QED
  BY <1>2 DEF h

\* Guard g, after r bytes of fragment f with the damaged byte b, is fed n more.
Feeding(f, b, r, n, g, res) ==
  /\ f.start \in Nat /\ f.len \in Nat /\ f.len > 0 /\ Checked(f.blocks, f.start, f.len)
  /\ b \in Nat /\ r \in Nat /\ n \in Nat /\ r + n <= f.len
  /\ DOMAIN g = GuardFields
  /\ res = FeedBlocks(g, f, Part(Raw(b), f.start + r, n))

\* feedBlocks on bytes that follow the compared blocks: it goes on, or stops at
\* the block of the damaged byte.
LEMMA FeedComparing ==
  ASSUME NEW f, NEW b, NEW r, NEW n, NEW g, NEW res, Feeding(f, b, r, n, g, res),
         Comparing(g, f, r, b)
  PROVE  /\ DOMAIN res.guard = GuardFields /\ res.guard.on = g.on /\ res.guard.crc = g.crc
         /\ \/ ~res.fails /\ Comparing(res.guard, f, r + n, b)
            \/ res.fails /\ Stuck(res.guard, f, r + n, b) /\ r < Before(res.guard) + BlockSize
<1>a. /\ f.start \in Nat /\ f.len \in Nat /\ f.len > 0 /\ Checked(f.blocks, f.start, f.len)
      /\ b \in Nat /\ r \in Nat /\ n \in Nat /\ r + n <= f.len
      /\ DOMAIN g = GuardFields /\ res = FeedBlocks(g, f, Part(Raw(b), f.start + r, n))
  BY DEF Feeding
<1> USE <1>a
<1> DEFINE k == Before(g)
           bytes == Part(Raw(b), f.start + r, n)
<1>0. Raw(b) \in [Nat -> Int]
  BY DEF Raw
<1>1. /\ k \in Nat /\ k = (g.block - 1) * BlockSize /\ g.block \in Nat \ {0}
      /\ k <= r /\ r < k + BlockSize
      /\ g.acc = Part(Raw(b), f.start + k, r - k)
      /\ b \notin (f.start + 1)..(f.start + k)
  BY BeforeFacts DEF Comparing, Before
<1> HIDE DEF k
<1>2. f.blocks # <<>>
  BY DEF Checked
<1>3. n = 0 <=> bytes = <<>>
  <2>1. f.start + r \in Nat
    OBVIOUS
  <2> QED
    BY <1>0, <2>1, PartSeq
<1>4. CASE n = 0
  <2>1. res = [guard |-> g, fails |-> FALSE]
    BY <1>3, <1>4 DEF FeedBlocks
  <2> QED
    BY <2>1, <1>4
<1>5. CASE n # 0
  <2> DEFINE p == f.start + k
             d == r - k
             all == g.acc \o bytes
             q == (d + n) \div BlockSize
             fed == FullBlocks(all)
             wrong == {j \in DOMAIN fed : /\ g.block + j - 1 \in DOMAIN f.blocks
                                         /\ f.blocks[g.block + j - 1] # fed[j]}
  <2>1. p \in Nat /\ d \in Nat /\ p + d = f.start + r /\ d + n \in Nat /\ d < BlockSize
    BY <1>1, BlockPositive
  <2>2. all = Part(Raw(b), p, d + n)
    <3>1. g.acc = Part(Raw(b), p, d) /\ bytes = Part(Raw(b), p + d, n)
      BY <1>1, <2>1
    <3> HIDE DEF p, d, bytes
    <3>2. p \in Nat /\ d \in Nat /\ n \in Nat
      BY <2>1
    <3>3. Part(Raw(b), p, d) \o Part(Raw(b), p + d, n) = Part(Raw(b), p, d + n)
      BY ONLY <3>2, RawConcat
    <3> QED
      BY <3>1, <3>3
  <2>3. res = IF wrong = {}
              THEN [guard |-> [g EXCEPT !.acc = AfterBlocks(all), !.block = @ + Len(fed)],
                    fails |-> FALSE]
              ELSE [guard |-> [g EXCEPT !.acc = fed[Min(wrong)], !.block = @ + Min(wrong) - 1],
                    fails |-> TRUE]
    BY <1>2, <1>3, <1>5 DEF FeedBlocks
  <2> HIDE DEF p, d, bytes, all
  <2>4. /\ q \in Nat /\ q * BlockSize \in Nat /\ q * BlockSize <= d + n
        /\ d + n < q * BlockSize + BlockSize
    BY <2>1, DivFacts
  <2>5. Len(fed) = q /\ DOMAIN fed = 1..q
    BY <1>0, <2>1, <2>2, PartBlocks
  <2>6. \A j \in 1..q : fed[j] = Part(Raw(b), p + (j - 1) * BlockSize, BlockSize)
    BY <1>0, <2>1, <2>2, PartBlockAt
  <2>7. AfterBlocks(all) = Part(Raw(b), p + q * BlockSize, (d + n) - q * BlockSize)
    BY <1>0, <2>1, <2>2, PartRest
  <2>8. \A j \in 1..q : (j - 1) * BlockSize \in Nat /\ (j - 1) * BlockSize + BlockSize <= d + n
    BY <2>1, BlockPlace
  <2> HIDE DEF q, fed
  <2>9. ASSUME NEW j \in 1..q
        PROVE  /\ g.block + j - 1 \in Nat \ {0}
               /\ ((g.block + j - 1) - 1) * BlockSize = k + (j - 1) * BlockSize
               /\ (g.block + j - 1) * BlockSize <= r + n
               /\ k + (j - 1) * BlockSize + BlockSize <= r + n
    <3>1. g.block - 1 \in Int /\ j - 1 \in Int /\ (g.block - 1) + (j - 1) = (g.block + j - 1) - 1
          /\ g.block + j - 1 \in Int /\ g.block + j - 1 \in Nat \ {0}
      BY <1>1, <2>4
    <3>2. ((g.block + j - 1) - 1) * BlockSize = k + (j - 1) * BlockSize
      <4>1. ((g.block - 1) + (j - 1)) * BlockSize = (g.block - 1) * BlockSize + (j - 1) * BlockSize
        BY <3>1, BlocksSum
      <4> QED
        BY <4>1, <3>1, <1>1
    <3>3. ((g.block + j - 1) - 1) * BlockSize + BlockSize = (g.block + j - 1) * BlockSize
      BY <3>1, BlocksSum
    <3>4. k + ((j - 1) * BlockSize + BlockSize) <= r + n
      BY <2>8, <1>1, <2>1, BlockPositive DEF d
    <3> QED
      BY <3>1, <3>2, <3>3, <3>4, <2>8, <1>1, BlockPositive
  <2> DEFINE Block(j) == (p + (j - 1) * BlockSize + 1)..(p + (j - 1) * BlockSize + BlockSize)
  <2>10. ASSUME NEW j \in 1..q
         PROVE  j \in wrong <=> b \in Block(j)
    <3> DEFINE i == g.block + j - 1
               o == k + (j - 1) * BlockSize
    <3>1. i \in Nat \ {0} /\ o = (i - 1) * BlockSize /\ i * BlockSize <= f.len
      <4>1. i \in Nat \ {0} /\ o = (i - 1) * BlockSize /\ i * BlockSize <= r + n
        BY <2>9
      <4> HIDE DEF i
      <4>2. i * BlockSize \in Int
        BY <4>1, BlocksSum
      <4> QED
        BY <4>1, <4>2
    <3>2. o \in Nat /\ f.start + o = p + (j - 1) * BlockSize
      BY <2>8, <1>1 DEF p
    <3> HIDE DEF i, o
    <3>3. /\ i \in DOMAIN f.blocks
          /\ f.blocks[i] # Part(Raw(b), f.start + o, BlockSize)
               <=> b \in (f.start + o + 1)..(f.start + o + BlockSize)
      BY <3>1, <3>2, BlockDiffers
    <3> QED
      BY <3>2, <3>3, <2>5, <2>6 DEF i
  <2> HIDE DEF Block
  <2>11. CASE wrong = {}
    <3>1. /\ ~res.fails /\ DOMAIN res.guard = GuardFields
          /\ res.guard.on = g.on /\ res.guard.crc = g.crc
          /\ res.guard.acc = AfterBlocks(all) /\ res.guard.block = g.block + q
      <4>1. res = [guard |-> [g EXCEPT !.acc = AfterBlocks(all), !.block = g.block + q], fails |-> FALSE]
        BY <2>3, <2>5, <2>11
      <4>2. res.guard = [g EXCEPT !.acc = AfterBlocks(all), !.block = g.block + q] /\ ~res.fails
        BY ONLY <4>1
      <4>3. DOMAIN g = GuardFields
        OBVIOUS
      <4> QED
        BY ONLY <4>2, <4>3 DEF GuardFields
    <3>2. Before(res.guard) = k + q * BlockSize
      <4>1. g.block - 1 \in Int /\ q \in Int /\ (g.block - 1) + q = res.guard.block - 1
        <5>1. g.block \in Nat /\ q \in Nat /\ res.guard.block = g.block + q
          BY <3>1, <1>1, <2>4
        <5> QED
          BY ONLY <5>1
      <4> QED
        <5>1. ((g.block - 1) + q) * BlockSize = (g.block - 1) * BlockSize + q * BlockSize
          BY ONLY <4>1, BlocksSum
        <5> QED
          BY <5>1, <4>1, <1>1 DEF Before
    <3>3. /\ f.start + (k + q * BlockSize) = p + q * BlockSize
          /\ (r + n) - (k + q * BlockSize) = (d + n) - q * BlockSize
          /\ k + q * BlockSize <= r + n /\ r + n < (k + q * BlockSize) + BlockSize
      BY <1>1, <2>4, BlockPositive DEF p, d
    <3>4. ASSUME b \in (f.start + 1)..(f.start + (k + q * BlockSize))
          PROVE  FALSE
      <4> DEFINE x == b - p - 1
                 j == x \div BlockSize + 1
      <4>1. x \in Nat /\ x < q * BlockSize
        BY <3>4, <1>1, <2>1, <2>4 DEF p
      <4>2. /\ x \div BlockSize \in Nat /\ (j - 1) * BlockSize \in Nat
            /\ (j - 1) * BlockSize <= x /\ x < (j - 1) * BlockSize + BlockSize
        <5>1. j - 1 = x \div BlockSize
          BY <4>1, DivFacts
        <5> QED
          BY <5>1, <4>1, DivFacts
      <4> HIDE DEF x
      <4>3. j \in Nat \ {0} /\ j - 1 \in Nat
        BY <4>2
      <4> HIDE DEF j
      <4>4. ~(q < j - 1)
        BY <4>1, <4>2, <4>3, <2>4, BlocksOrder, BlockPositive
      <4>5. q # j - 1
        BY <4>1, <4>2, <4>3, <2>4
      <4>6. j \in 1..q
        BY <4>3, <4>4, <4>5, <2>4
      <4>7. b \in Block(j)
        <5> DEFINE o == (j - 1) * BlockSize
        <5>1. o \in Nat /\ o <= x /\ x < o + BlockSize /\ b = p + x + 1
          BY <4>1, <4>2, <2>1 DEF x
        <5> HIDE DEF o
        <5>2. b \in (p + o + 1)..(p + o + BlockSize)
          BY <5>1, <4>1, <2>1, BlockPositive
        <5> QED
          BY <5>2 DEF o, Block
      <4> QED
        BY <4>6, <4>7, <2>10, <2>11
    <3>5. Comparing(res.guard, f, r + n, b)
      <4>1. res.guard.block \in Nat \ {0}
        BY <3>1, <1>1, <2>4
      <4> QED
        BY <4>1, <3>1, <3>2, <3>3, <3>4, <2>7 DEF Comparing
    <3> QED
      BY <3>1, <3>5
  <2>12. CASE wrong # {}
    <3>1. PICK m \in 1..q : m \in wrong
      BY <2>12, <2>5
    <3>2. b \in Block(m)
      BY <3>1, <2>10
    <3>3. \A y \in wrong : y = m
      <4> SUFFICES ASSUME NEW y \in wrong
                   PROVE  y = m
        OBVIOUS
      <4>1. y \in 1..q /\ b \in Block(y)
        BY <2>5, <2>10
      <4>2. ~(y - 1 < m - 1) /\ ~(m - 1 < y - 1)
        <5>1. y - 1 \in Int /\ m - 1 \in Int
          BY <4>1, <2>4
        <5>2. (y - 1) * BlockSize \in Nat /\ (m - 1) * BlockSize \in Nat
          BY <4>1, <2>8
        <5> QED
          BY <3>2, <4>1, <5>1, <5>2, <2>1, BlocksOrder, BlockPositive DEF Block
      <4> QED
        BY <4>1, <4>2, <2>4
    <3>4. Min(wrong) = m
      <4>1. m \in wrong /\ m \in Int /\ \A y \in wrong : y \in Int /\ m <= y
        BY <3>1, <3>3, <2>4
      <4> QED
        BY ONLY <4>1, MinIs
    <3> HIDE DEF wrong
    <3>5. /\ res.fails /\ DOMAIN res.guard = GuardFields
          /\ res.guard.on = g.on /\ res.guard.crc = g.crc
          /\ res.guard.acc = fed[m] /\ res.guard.block = g.block + m - 1
      <4>1. res = [guard |-> [g EXCEPT !.acc = fed[m], !.block = g.block + m - 1], fails |-> TRUE]
        BY <2>3, <2>12, <3>4
      <4>2. res.guard = [g EXCEPT !.acc = fed[m], !.block = g.block + m - 1] /\ res.fails
        BY ONLY <4>1
      <4>3. DOMAIN g = GuardFields
        OBVIOUS
      <4> QED
        BY ONLY <4>2, <4>3 DEF GuardFields
    <3>6. Before(res.guard) = k + (m - 1) * BlockSize /\ res.guard.block \in Nat \ {0}
      BY <3>5, <2>9 DEF Before
    <3>7. /\ (m - 1) * BlockSize \in Nat
          /\ f.start + (k + (m - 1) * BlockSize) = p + (m - 1) * BlockSize
          /\ k + (m - 1) * BlockSize + BlockSize <= r + n
          /\ r < k + (m - 1) * BlockSize + BlockSize
      <4> DEFINE o == (m - 1) * BlockSize
      <4>1. o \in Nat /\ k + o + BlockSize <= r + n
        BY <2>8, <2>9
      <4>2. b \in (p + o + 1)..(p + o + BlockSize)
        BY <3>2 DEF Block
      <4> HIDE DEF o
      <4>3. f.start + (k + o) = p + o
        BY <4>1, <1>1 DEF p
      <4>4. r < k + o + BlockSize
        BY <4>1, <1>1, BlockPositive
      <4> QED
        BY <4>1, <4>3, <4>4 DEF o
    <3>8. Stuck(res.guard, f, r + n, b)
      BY <3>2, <3>5, <3>6, <3>7, <2>6 DEF Stuck, Block
    <3> QED
      BY <3>5, <3>6, <3>7, <3>8
  <2> QED
    BY <2>11, <2>12
<1> QED
  BY <1>4, <1>5

\* feedBlocks after it has stopped: it fails again with each byte.
LEMMA FeedStuck ==
  ASSUME NEW f, NEW b, NEW r, NEW n, NEW g, NEW res, Feeding(f, b, r, n, g, res),
         Stuck(g, f, r, b)
  PROVE  /\ DOMAIN res.guard = GuardFields /\ res.guard.on = g.on /\ res.guard.crc = g.crc
         /\ Stuck(res.guard, f, r + n, b) /\ Before(res.guard) = Before(g)
         /\ res.fails <=> n # 0
<1>a. /\ f.start \in Nat /\ f.len \in Nat /\ f.len > 0 /\ Checked(f.blocks, f.start, f.len)
      /\ b \in Nat /\ r \in Nat /\ n \in Nat /\ r + n <= f.len
      /\ DOMAIN g = GuardFields /\ res = FeedBlocks(g, f, Part(Raw(b), f.start + r, n))
  BY DEF Feeding
<1> USE <1>a
<1> DEFINE k == Before(g)
           bytes == Part(Raw(b), f.start + r, n)
<1>0. Raw(b) \in [Nat -> Int]
  BY DEF Raw
<1>1. /\ k \in Nat /\ k = (g.block - 1) * BlockSize /\ g.block \in Nat \ {0}
      /\ g.block * BlockSize = k + BlockSize /\ k + BlockSize <= r
      /\ g.acc = Part(Raw(b), f.start + k, BlockSize)
      /\ b \in (f.start + k + 1)..(f.start + k + BlockSize)
  BY BeforeFacts DEF Stuck, Before
<1> HIDE DEF k
<1>2. f.blocks # <<>>
  BY DEF Checked
<1>3. bytes \in Seq(Int) /\ Len(bytes) = n /\ (n = 0 <=> bytes = <<>>)
  <2>1. f.start + r \in Nat
    OBVIOUS
  <2> QED
    BY <1>0, <2>1, PartSeq
<1>4. CASE n = 0
  <2>1. res = [guard |-> g, fails |-> FALSE]
    BY <1>3, <1>4 DEF FeedBlocks
  <2> QED
    BY <2>1, <1>4
<1>5. CASE n # 0
  <2> DEFINE all == g.acc \o bytes
             q == (BlockSize + n) \div BlockSize
             fed == FullBlocks(all)
             wrong == {j \in DOMAIN fed : /\ g.block + j - 1 \in DOMAIN f.blocks
                                         /\ f.blocks[g.block + j - 1] # fed[j]}
  <2>1. g.acc \in Seq(Int) /\ Len(g.acc) = BlockSize /\ DOMAIN g.acc = 1..BlockSize
    <3>1. f.start + k \in Nat /\ BlockSize \in Nat
      BY <1>1, BlockPositive
    <3>2. /\ Part(Raw(b), f.start + k, BlockSize) \in Seq(Int)
          /\ Len(Part(Raw(b), f.start + k, BlockSize)) = BlockSize
          /\ DOMAIN Part(Raw(b), f.start + k, BlockSize) = 1..BlockSize
      BY ONLY <1>0, <3>1, PartSeq
    <3> QED
      BY <1>1, <3>2
  <2>2. res = IF wrong = {}
              THEN [guard |-> [g EXCEPT !.acc = AfterBlocks(all), !.block = @ + Len(fed)],
                    fails |-> FALSE]
              ELSE [guard |-> [g EXCEPT !.acc = fed[Min(wrong)], !.block = @ + Min(wrong) - 1],
                    fails |-> TRUE]
    BY <1>2, <1>3, <1>5 DEF FeedBlocks
  <2> HIDE DEF bytes
  <2>3. /\ Len(all) = BlockSize + n
        /\ \A i \in 1..BlockSize : all[i] = g.acc[i]
    <3>0. g.acc \in Seq(Int) /\ bytes \in Seq(Int)
      BY <1>3, <2>1
    <3>1. /\ Len(all) = Len(g.acc) + Len(bytes)
          /\ \A i \in 1..(Len(g.acc) + Len(bytes)) :
               all[i] = IF i <= Len(g.acc) THEN g.acc[i] ELSE bytes[i - Len(g.acc)]
      BY ONLY <3>0, ConcatProperties
    <3> QED
      BY <3>1, <1>3, <2>1, BlockPositive
  <2> HIDE DEF all
  <2>4. q \in Nat /\ 1 \in 1..q
    <3>1. BlockSize + n \in Nat
      BY BlockPositive
    <3>2. /\ q \in Nat /\ q * BlockSize \in Nat
          /\ BlockSize + n < q * BlockSize + BlockSize
      BY <3>1, DivFacts
    <3>3. q # 0
      BY <3>2, <1>5, BlockPositive
    <3> QED
      BY <3>2, <3>3
  <2>5. DOMAIN fed = 1..q /\ fed[1] = [i \in 1..BlockSize |-> all[(1 - 1) * BlockSize + i]]
    BY <2>3, <2>4 DEF FullBlocks
  <2> HIDE DEF q, fed
  <2>6. fed[1] = g.acc
    <3>1. \A i \in 1..BlockSize : all[(1 - 1) * BlockSize + i] = g.acc[i]
      <4>1. \A i \in 1..BlockSize : (1 - 1) * BlockSize + i = i
        BY BlockPositive
      <4> QED
        BY <4>1, <2>3
    <3>2. fed[1] = [i \in 1..BlockSize |-> g.acc[i]]
      BY <2>5, <3>1
    <3>3. g.acc = [i \in 1..BlockSize |-> g.acc[i]]
      BY <2>1
    <3> QED
      BY <3>2, <3>3
  <2>7. g.block \in DOMAIN f.blocks /\ f.blocks[g.block] # g.acc
    <3>1. g.block * BlockSize <= f.len
      BY <1>1, BlockPositive
    <3>2. g.block \in DOMAIN f.blocks
      BY <1>1, <3>1, BlockDiffers
    <3>3. f.blocks[g.block] # Part(Raw(b), f.start + k, BlockSize)
      BY <1>1, <3>1, BlockDiffers
    <3> QED
      BY <3>2, <3>3, <1>1
  <2>8. 1 \in wrong
    <3>1. g.block + 1 - 1 = g.block
      BY <1>1
    <3> QED
      BY <3>1, <2>4, <2>5, <2>6, <2>7
  <2>9. Min(wrong) = 1
    <3>1. \A y \in wrong : y \in Int /\ 1 <= y
      BY <2>4, <2>5
    <3> HIDE DEF wrong
    <3> QED
      BY <2>8, <3>1, MinIs
  <2> HIDE DEF wrong
  <2>10. res = [guard |-> [g EXCEPT !.acc = g.acc, !.block = g.block + 1 - 1], fails |-> TRUE]
    BY <2>2, <2>6, <2>8, <2>9
  <2>11. g.block + 1 - 1 = g.block
    BY <1>1
  <2>12. res.guard = [g EXCEPT !.acc = g.acc, !.block = g.block] /\ res.fails
    BY ONLY <2>10, <2>11
  <2>13. DOMAIN g = GuardFields
    OBVIOUS
  <2>14. /\ DOMAIN res.guard = GuardFields
         /\ res.guard.on = g.on /\ res.guard.crc = g.crc
         /\ res.guard.acc = g.acc /\ res.guard.block = g.block
    BY ONLY <2>12, <2>13 DEF GuardFields
  <2>15. Before(res.guard) = Before(g)
    BY <2>14 DEF Before
  <2>16. k + BlockSize <= r + n
    BY <1>1, BlockPositive
  <2> QED
    BY <2>12, <2>14, <2>15, <2>16, <1>1, <1>5 DEF Stuck, k
<1> QED
  BY <1>4, <1>5

\* Guard g after r bytes of f, of which those at the places ps came through.
GuardOK(g, f, r, b, fmt, ps) ==
  /\ DOMAIN g = GuardFields /\ f.len > 0
  /\ g.crc = Part(Raw(b), f.start, r)
  /\ ps \subseteq (f.start + 1)..(f.start + r)
  /\ r = f.len /\ b \in PlacesOf(f) => f.start + f.len \notin ps
  /\ fmt = "single" => \/ Comparing(g, f, r, b)
                       \/ Stuck(g, f, r, b) /\ f.start + Before(g) + BlockSize \notin ps

\* What the guard's state says of the bytes that came through.
LEMMA GuardSays ==
  ASSUME NEW f, f.start \in Nat, f.len \in Nat, NEW b \in Nat, NEW r \in Nat, r <= f.len,
         NEW g, NEW fmt, NEW ps, GuardOK(g, f, r, b, fmt, ps), b \in ps
  PROVE  \E x \in PlacesOf(f) \ ps :
           fmt = "single" =>
             x <= f.start + ((b - f.start + BlockSize - 1) \div BlockSize) * BlockSize
<1> DEFINE y == b - f.start + BlockSize - 1
           e == (y \div BlockSize) * BlockSize
<1>1. b \in (f.start + 1)..(f.start + r) /\ b \in PlacesOf(f)
  BY DEF GuardOK, PlacesOf
<1>2. y \in Nat /\ b - f.start >= 1 /\ f.start + f.len \in PlacesOf(f)
  BY <1>1, BlockPositive DEF PlacesOf
<1>3. y \div BlockSize \in Nat /\ e \in Nat /\ e <= y /\ y < e + BlockSize
  BY <1>2, DivFacts
<1>4. b - f.start <= e /\ e >= 1
  BY <1>2, <1>3, BlockPositive
<1>5. f.start + f.len \notin ps
  BY <1>1 DEF GuardOK
<1>6. CASE fmt # "single" \/ f.len <= e
  BY <1>2, <1>3, <1>5, <1>6
<1>7. CASE fmt = "single" /\ ~(f.len <= e)
  <2>1. f.start + e \in PlacesOf(f)
    BY <1>3, <1>4, <1>7 DEF PlacesOf
  <2>2. f.start + e \notin ps
    <3>1. CASE Comparing(g, f, r, b)
      <4>1. /\ Before(g) \in Nat /\ g.block \in Nat \ {0} /\ r < Before(g) + BlockSize
            /\ b \notin (f.start + 1)..(f.start + Before(g))
        BY <3>1, BeforeFacts DEF Comparing
      <4>2. Before(g) < e
        BY <4>1, <1>1, <1>3, <1>4
      <4>3. Before(g) = (g.block - 1) * BlockSize /\ g.block - 1 \in Int
        BY <4>1 DEF Before
      <4> DEFINE K == y \div BlockSize
      <4>4. K \in Int /\ e = K * BlockSize
        BY <1>3
      <4> HIDE DEF K, e, y
      <4>5. ~(K < g.block - 1)
        BY <4>1, <4>2, <4>3, <4>4, <1>3, BlocksOrder, BlockPositive
      <4>6. K # g.block - 1
        BY <4>1, <4>2, <4>3, <4>4, <1>3
      <4>7. g.block - 1 < K
        BY <4>3, <4>4, <4>5, <4>6
      <4>8. Before(g) + BlockSize <= e
        BY <4>3, <4>4, <4>7, BlocksOrder
      <4>9. f.start + e > f.start + r
        BY <4>1, <4>8, <1>3, BlockPositive
      <4> QED
        BY <4>9, <1>3 DEF GuardOK
    <3>2. CASE Stuck(g, f, r, b) /\ f.start + Before(g) + BlockSize \notin ps
      <4>1. /\ Before(g) \in Nat /\ g.block \in Nat \ {0}
            /\ g.block * BlockSize = Before(g) + BlockSize
            /\ b \in (f.start + Before(g) + 1)..(f.start + Before(g) + BlockSize)
        BY <3>2, BeforeFacts DEF Stuck
      <4>2. g.block * BlockSize <= y /\ y < g.block * BlockSize + BlockSize
        BY <4>1, BlockPositive
      <4> HIDE DEF y
      <4>3. y \div BlockSize = g.block
        BY <4>1, <4>2, <1>2, DivIs
      <4> QED
        BY <4>1, <4>3, <3>2, BlockPositive
    <3> QED
      BY <3>1, <3>2, <1>7 DEF GuardOK
  <2> QED
    BY <2>1, <2>2, <1>3
<1> QED
  BY <1>6, <1>7

\* Guard g, after r bytes of fragment f, of which those at the places ps came
\* through, sees n more, and becomes res.guard.
Guarding(f, b, r, n, fmt, g, ps, h, res, fails, qs) ==
  LET bytes == Part(Raw(b), f.start + r, n) IN
  /\ f.start \in Nat /\ f.len \in Nat /\ b \in Nat /\ r \in Nat /\ n \in Nat /\ r + n <= f.len
  /\ fmt \in {"stream", "single"} /\ BlocksOf(f, fmt)
  /\ h = [g EXCEPT !.crc = @ \o bytes] /\ res = FeedBlocks(h, f, bytes)
  /\ fails = (res.fails \/ (r + n >= f.len /\ h.crc # BytesFrom(f.start, f.len)))
  /\ qs = IF fails THEN ps ELSE ps \cup {f.start + r + i : i \in 1..n}

\* crcGuardReader.Read: what is known of the guard holds after each n bytes.
LEMMA GuardMoves ==
  ASSUME NEW f, NEW b, NEW r, NEW n, NEW fmt, NEW g, NEW ps, NEW h, NEW res, NEW fails, NEW qs,
         Guarding(f, b, r, n, fmt, g, ps, h, res, fails, qs),
         GuardOK(g, f, r, b, fmt, ps)
  PROVE  /\ GuardOK(res.guard, f, r + n, b, fmt, qs) /\ res.guard.on = g.on
         /\ fails => b \in PlacesOf(f)
<1> DEFINE bytes == Part(Raw(b), f.start + r, n)
<1>0. /\ f.start \in Nat /\ f.len \in Nat /\ b \in Nat /\ r \in Nat /\ n \in Nat
      /\ r + n <= f.len /\ res = FeedBlocks(h, f, Part(Raw(b), f.start + r, n))
      /\ fmt \in {"stream", "single"}
      /\ fmt = "single" => Checked(f.blocks, f.start, f.len)
      /\ fmt = "stream" => f.blocks = <<>>
      /\ h = [g EXCEPT !.crc = @ \o bytes]
      /\ fails = (res.fails \/ (r + n >= f.len /\ h.crc # BytesFrom(f.start, f.len)))
      /\ qs = IF fails THEN ps ELSE ps \cup {f.start + r + i : i \in 1..n}
  BY DEF Guarding, BlocksOf
<1> HIDE DEF bytes
<1>b. f.start \in Nat /\ f.len \in Nat /\ r \in Nat /\ n \in Nat /\ r + n <= f.len
  BY <1>0
<1> USE <1>0
<1>1. /\ DOMAIN g = GuardFields /\ f.len > 0 /\ g.crc = Part(Raw(b), f.start, r)
      /\ ps \subseteq (f.start + 1)..(f.start + r)
      /\ r = f.len /\ b \in PlacesOf(f) => f.start + f.len \notin ps
      /\ fmt = "single" => \/ Comparing(g, f, r, b)
                           \/ Stuck(g, f, r, b) /\ f.start + Before(g) + BlockSize \notin ps
  BY DEF GuardOK
<1>2. DOMAIN h = GuardFields /\ h.crc = g.crc \o bytes /\ h.on = g.on
      /\ h.acc = g.acc /\ h.block = g.block
  <2>1. DOMAIN g = GuardFields /\ h = [g EXCEPT !.crc = @ \o bytes]
    BY <1>1
  <2> QED
    BY ONLY <2>1 DEF GuardFields
<1>3. h.crc = Part(Raw(b), f.start, r + n)
  <2>1. f.start \in Nat /\ r \in Nat /\ n \in Nat
    OBVIOUS
  <2>2. Part(Raw(b), f.start, r) \o Part(Raw(b), f.start + r, n) = Part(Raw(b), f.start, r + n)
    BY ONLY <2>1, RawConcat
  <2> QED
    BY <2>2, <1>1, <1>2 DEF bytes
\* The fragment's CRC is wrong at its end when it is damaged.
<1>4. r + n = f.len => (h.crc # BytesFrom(f.start, f.len) <=> b \in PlacesOf(f))
  <2>1. Part(Raw(b), f.start, f.len) = BytesFrom(f.start, f.len)
          <=> b \notin (f.start + 1)..(f.start + f.len)
    BY RawDiffers
  <2> QED
    BY <2>1, <1>3 DEF PlacesOf
\* Only the block's CRCs are left.
<1>5. /\ DOMAIN res.guard = GuardFields /\ res.guard.on = g.on /\ res.guard.crc = h.crc
      /\ res.fails => b \in PlacesOf(f)
      /\ fmt = "single" =>
           \/ Comparing(res.guard, f, r + n, b)
           \/ Stuck(res.guard, f, r + n, b) /\ f.start + Before(res.guard) + BlockSize \notin qs
  <2>1. CASE fmt = "stream"
    <3>1. res = [guard |-> h, fails |-> FALSE]
      BY <2>1 DEF FeedBlocks
    <3>2. res.guard = h /\ ~res.fails
      BY ONLY <3>1
    <3> QED
      BY <2>1, <3>2, <1>2
  <2>2. CASE fmt = "single" /\ Comparing(g, f, r, b)
    <3>1. Checked(f.blocks, f.start, f.len) /\ Comparing(h, f, r, b)
      BY <2>2, <1>2 DEF Comparing, Before
    <3>2. /\ DOMAIN res.guard = GuardFields /\ res.guard.on = h.on /\ res.guard.crc = h.crc
          /\ \/ ~res.fails /\ Comparing(res.guard, f, r + n, b)
             \/ res.fails /\ Stuck(res.guard, f, r + n, b) /\ r < Before(res.guard) + BlockSize
      <4>1. Feeding(f, b, r, n, h, res)
        BY <1>0, <1>1, <1>2, <3>1 DEF Feeding
      <4> QED
        BY ONLY <4>1, <3>1, FeedComparing
    <3>3. ASSUME res.fails
          PROVE  /\ Stuck(res.guard, f, r + n, b) /\ b \in PlacesOf(f)
                 /\ f.start + Before(res.guard) + BlockSize \notin qs
      <4>1. Stuck(res.guard, f, r + n, b) /\ r < Before(res.guard) + BlockSize /\ qs = ps
        BY <3>2, <3>3
      <4>2. /\ Before(res.guard) \in Nat /\ Before(res.guard) + BlockSize <= r + n
            /\ b \in (f.start + Before(res.guard) + 1)..(f.start + Before(res.guard) + BlockSize)
        BY <4>1, BeforeFacts DEF Stuck
      <4>3. b \in PlacesOf(f)
        BY <4>2, BlockPositive DEF PlacesOf
      <4>4. f.start + Before(res.guard) + BlockSize \notin (f.start + 1)..(f.start + r)
        BY <4>1, <4>2, BlockPositive
      <4> QED
        BY <4>1, <4>3, <4>4, <1>1
    <3> QED
      BY <3>2, <3>3, <2>2, <1>2
  <2>3. CASE fmt = "single" /\ Stuck(g, f, r, b) /\ f.start + Before(g) + BlockSize \notin ps
    <3>1. Checked(f.blocks, f.start, f.len) /\ Stuck(h, f, r, b) /\ Before(h) = Before(g)
      BY <2>3, <1>2 DEF Stuck, Before
    <3>2. /\ DOMAIN res.guard = GuardFields /\ res.guard.on = h.on /\ res.guard.crc = h.crc
          /\ Stuck(res.guard, f, r + n, b) /\ Before(res.guard) = Before(h)
          /\ res.fails <=> n # 0
      <4>1. Feeding(f, b, r, n, h, res)
        BY <1>0, <1>1, <1>2, <3>1 DEF Feeding
      <4> QED
        BY ONLY <4>1, <3>1, FeedStuck
    <3>3. b \in PlacesOf(f)
      <4>1. /\ Before(g) \in Nat /\ Before(g) + BlockSize <= r
            /\ b \in (f.start + Before(g) + 1)..(f.start + Before(g) + BlockSize)
        BY <2>3, BeforeFacts DEF Stuck
      <4>2. b \in (f.start + 1)..(f.start + f.len)
        BY <4>1, BlockPositive
      <4> QED
        BY <4>2 DEF PlacesOf
    <3>4. qs = ps
      <4>1. CASE fails
        BY <4>1
      <4>2. CASE ~fails
        <5>1. ~res.fails
          BY <4>2
        <5>2. n = 0
          BY <3>2, <5>1
        <5>3. {f.start + r + i : i \in 1..n} = {}
          BY <5>2
        <5> QED
          BY <4>2, <5>3
      <4> QED
        BY <4>1, <4>2
    <3> QED
      BY <3>1, <3>2, <3>3, <3>4, <2>3, <1>2
  <2> QED
    BY <2>1, <2>2, <2>3, <1>1
<1>6. fails => b \in PlacesOf(f)
  <2> SUFFICES ASSUME fails
               PROVE  b \in PlacesOf(f)
    OBVIOUS
  <2>1. CASE res.fails
    BY <2>1, <1>5
  <2>2. CASE r + n >= f.len /\ h.crc # BytesFrom(f.start, f.len)
    <3>1. r + n = f.len
      BY ONLY <2>2, <1>b
    <3> QED
      BY <3>1, <2>2, <1>4
  <2> QED
    BY <2>1, <2>2
<1>7. qs \subseteq (f.start + 1)..(f.start + (r + n))
  <2>1. \A i \in 1..n : f.start + r + i \in (f.start + 1)..(f.start + (r + n))
    OBVIOUS
  <2>2. ps \subseteq (f.start + 1)..(f.start + (r + n))
    BY <1>1
  <2> QED
    BY <2>1, <2>2
<1>8. ASSUME r + n = f.len, b \in PlacesOf(f)
      PROVE  f.start + f.len \notin qs
  <2>1. fails /\ qs = ps
    BY <1>4, <1>8
  <2>2. CASE r = f.len
    BY <2>1, <2>2, <1>1, <1>8
  <2>3. CASE r # f.len
    <3>1. f.start + f.len \notin (f.start + 1)..(f.start + r)
      BY ONLY <2>3, <1>8, <1>b
    <3> QED
      BY <3>1, <2>1, <1>1
  <2> QED
    BY <2>2, <2>3
<1> QED
  BY <1>1, <1>3, <1>5, <1>6, <1>7, <1>8 DEF GuardOK

\* A new guard has seen nothing.
LEMMA GuardStarts ==
  ASSUME NEW f, f.start \in Nat, f.len \in Nat, f.len > 0, NEW b \in Nat, NEW fmt,
         NEW g, g = [NoGuard EXCEPT !.on = TRUE]
  PROVE  GuardOK(g, f, 0, b, fmt, {})
<1>1. DOMAIN g = GuardFields /\ g.crc = <<>> /\ g.acc = <<>> /\ g.block = 1
  BY DEF NoGuard, GuardFields
<1>2. Raw(b) \in [Nat -> Int]
  BY DEF Raw
<1>3. Before(g) = 0
  BY <1>1, BlockPositive DEF Before
<1>4. Part(Raw(b), f.start, 0) = <<>>
  BY <1>2, PartSeq
<1>5. Comparing(g, f, 0, b)
  <2>1. f.start + 0 = f.start /\ 0 - 0 = 0 /\ 0 < 0 + BlockSize
    BY BlockPositive
  <2> QED
    BY <2>1, <1>1, <1>3, <1>4 DEF Comparing
<1> QED
  BY <1>1, <1>4, <1>5 DEF GuardOK

-----------------------------------------------------------------------------
(* The CRCs of blocks and fragments.                                       *)

\* What is known of the CRCs of a piece whose bytes were all written.
Fed(p) == IF format = "stream" THEN p.crcs = NoCRCs ELSE Gathered(p.crcs, p.start, p.len)

BlocksInv ==
  /\ \A i \in DOMAIN frags : BlocksOf(frags[i], format)
  /\ cur # NoPiece => Fed(cur)

\* The guard of the current stream is the one of its fragment, and only a guard
\* that is on fails.
GuardInv ==
  /\ dec.guard.on => GuardOK(dec.guard, frags[dec.frag], dec.raw, bad, format, passed)
  /\ last.failed => dec.guard.on /\ bad \in PlacesOf(frags[dec.frag])

DamageInv == StreamInv /\ BlocksInv /\ GuardInv

\* Sealing a piece keeps what is known of the CRCs.
LEMMA SealedBlocks ==
  ASSUME WriterInv, \A i \in DOMAIN frags : BlocksOf(frags[i], format),
         NEW p, Fed(p), p.start \in Nat, p.len \in Nat
  PROVE  \A i \in DOMAIN Append(frags, Sealed(p)) : BlocksOf(Append(frags, Sealed(p))[i], format)
<1> DEFINE f == Sealed(p)
<1>1. f.start = p.start /\ f.len = p.len /\ f.blocks = FinishBlockCRCs(p.crcs)
  BY DEF Sealed
<1> HIDE DEF f
<1>2. BlocksOf(f, format)
  <2>1. CASE format = "stream"
    BY <2>1, <1>1 DEF Fed, BlocksOf, NoCRCs, FinishBlockCRCs
  <2>2. CASE format # "stream"
    <3>1. Gathered(p.crcs, p.start, p.len)
      BY <2>2 DEF Fed
    <3>2. Checked(f.blocks, f.start, f.len)
      BY <3>1, <1>1, GatheredChecked
    <3> QED
      BY <3>2, <2>2 DEF BlocksOf
  <2> QED
    BY <2>1, <2>2
<1>3. /\ Len(frags) \in Nat /\ DOMAIN frags = 1..Len(frags)
      /\ DOMAIN Append(frags, f) = 1..(Len(frags) + 1)
      /\ \A i \in 1..Len(frags) : Append(frags, f)[i] = frags[i]
      /\ Append(frags, f)[Len(frags) + 1] = f
  BY AppendSeq DEF WriterInv, Tiled
<1>4. ASSUME NEW i \in DOMAIN Append(frags, f)
      PROVE  BlocksOf(Append(frags, f)[i], format)
  <2>1. CASE i \in 1..Len(frags)
    BY <2>1, <1>3
  <2>2. CASE i = Len(frags) + 1
    BY <2>2, <1>2, <1>3
  <2> QED
    BY <2>1, <2>2, <1>3
<1> QED
  BY <1>4 DEF f

LEMMA NewIsFed ==
  ASSUME WriterInv
  PROVE  Fed(NewPiece) /\ NewPiece.start \in Nat /\ NewPiece.len \in Nat
<1>1. /\ NewPiece.start = written /\ NewPiece.len = 0 /\ NewPiece.crcs = NoCRCs
      /\ written \in Nat
  BY DEF NewPiece, WriterInv
<1>2. Gathered(NoCRCs, written, 0)
  <2>1. 0 \div BlockSize = 0
    <3>1. 0 * BlockSize <= 0 /\ 0 < 0 * BlockSize + BlockSize
      BY BlockPositive
    <3> QED
      BY <3>1, DivIs
  <2>2. Plain \in [Nat -> Int]
    BY DEF Plain
  <2>3. Part(Plain, written, 0) = <<>>
    BY <1>1, <2>2, PartSeq
  <2>4. 0 * BlockSize = 0 /\ written + 0 = written /\ 0 - 0 = 0
    BY <1>1, BlockPositive
  <2>5. NoCRCs.blocks = <<>> /\ NoCRCs.acc = <<>> /\ <<>> \in Seq(Seq(Int)) /\ Len(<<>>) = 0
    BY DEF NoCRCs
  <2> QED
    BY <2>1, <2>3, <2>4, <2>5 DEF Gathered
<1> QED
  BY <1>1, <1>2 DEF Fed

LEMMA WriteBlocks ==
  ASSUME WriterInv, BlocksInv, NEW n \in 1..(MaxBytes - written), StreamWrite(n), format' = format
  PROVE  BlocksInv'
<1> DEFINE p == IF cur = NoPiece THEN NewPiece ELSE cur
           q == [p EXCEPT !.len = @ + n]
<1>1. /\ format = "stream" /\ DOMAIN p = {"start", "len", "crcs"} /\ p.crcs = NoCRCs
      /\ p.start \in Nat /\ p.len \in Nat /\ n \in Nat
  <2>1. written \in Nat /\ format = "stream" /\ n \in Nat
    BY DEF WriterInv, StreamWrite
  <2>2. CASE cur = NoPiece
    BY <2>1, <2>2 DEF NewPiece
  <2>3. CASE cur # NoPiece
    BY <2>1, <2>3 DEF WriterInv, SealedBytes, BlocksInv, Fed
  <2> QED
    BY <2>1, <2>2, <2>3
<1>2. q.crcs = NoCRCs /\ q.start \in Nat /\ q.len \in Nat /\ Fed(q)
  BY <1>1 DEF Fed
<1>3. \/ frags' = Append(frags, Sealed(q)) /\ cur' = NoPiece
      \/ cur' = q /\ frags' = frags
  BY DEF StreamWrite
<1> HIDE DEF p, q
<1>4. CASE frags' = Append(frags, Sealed(q)) /\ cur' = NoPiece
  <2>1. \A i \in DOMAIN Append(frags, Sealed(q)) : BlocksOf(Append(frags, Sealed(q))[i], format)
    BY <1>2, SealedBlocks DEF BlocksInv
  <2> QED
    BY <2>1, <1>4 DEF BlocksInv
<1>5. CASE cur' = q /\ frags' = frags
  BY <1>1, <1>2, <1>5 DEF BlocksInv, Fed
<1> QED
  BY <1>3, <1>4, <1>5

LEMMA WritePieceBlocks ==
  ASSUME WriterInv, BlocksInv, NEW n \in 1..(MaxBytes - written), WriteFragmentData(n),
         format' = format
  PROVE  BlocksInv'
<1>1. /\ cur # NoPiece /\ frags' = frags /\ format = "single"
      /\ DOMAIN cur = {"start", "len", "crcs"}
      /\ cur' = [cur EXCEPT !.len = @ + n, !.crcs = AppendBlockCRC(@, BytesFrom(written, n))]
  BY DEF WriteFragmentData, WriterInv
<1>2. /\ cur'.start = cur.start /\ cur'.len = cur.len + n
      /\ cur'.crcs = AppendBlockCRC(cur.crcs, BytesFrom(written, n))
  BY <1>1
<1>3. cur.start \in Nat /\ cur.len \in Nat /\ cur.start + cur.len = written /\ n \in Nat
  BY <1>1 DEF WriterInv, SealedBytes
<1>4. Gathered(cur.crcs, cur.start, cur.len)
  BY <1>1 DEF BlocksInv, Fed
<1>5. Gathered(cur'.crcs, cur'.start, cur'.len)
  <2>1. Gathered(AppendBlockCRC(cur.crcs, BytesFrom(cur.start + cur.len, n)), cur.start, cur.len + n)
    BY <1>3, <1>4, GatherMore
  <2> QED
    BY <2>1, <1>2, <1>3
<1> QED
  BY <1>1, <1>5 DEF BlocksInv, Fed

LEMMA ManifestBlocks ==
  ASSUME WriterInv, BlocksInv
  PROVE  \A i \in DOMAIN Manifest : BlocksOf(Manifest[i], format)
<1> DEFINE p == IF cur = NoPiece THEN NewPiece ELSE cur
<1>1. Fed(p) /\ p.start \in Nat /\ p.len \in Nat
  <2>1. CASE cur = NoPiece
    BY <2>1, NewIsFed
  <2>2. CASE cur # NoPiece
    BY <2>2 DEF WriterInv, SealedBytes, BlocksInv
  <2> QED
    BY <2>1, <2>2
<1>2. Manifest = Append(frags, Sealed(p)) \/ Manifest = frags
  BY DEF Manifest
<1> HIDE DEF p
<1>3. \A i \in DOMAIN Append(frags, Sealed(p)) : BlocksOf(Append(frags, Sealed(p))[i], format)
  BY <1>1, SealedBlocks DEF BlocksInv
<1> QED
  BY <1>2, <1>3 DEF BlocksInv

LEMMA WriteContainerBlocks ==
  ASSUME StreamInv, BlocksInv, WriteContainer
  PROVE  BlocksInv'
<1>1. format' = format /\ WriterInv
  BY DEF WriteContainer, StreamInv
<1>2. ASSUME BeginFragment
      PROVE  BlocksInv'
  <2>1. frags' = frags /\ cur' = NewPiece /\ Fed(NewPiece)
    BY <1>1, <1>2, NewIsFed DEF BeginFragment
  <2> QED
    BY <2>1, <1>1 DEF BlocksInv, Fed
<1>3. ASSUME FinishFragment
      PROVE  BlocksInv'
  <2>1. cur # NoPiece /\ cur' = NoPiece /\ frags' = Append(frags, Sealed(cur))
    BY <1>3 DEF FinishFragment
  <2>2. Fed(cur) /\ cur.start \in Nat /\ cur.len \in Nat
    BY <2>1, <1>1 DEF WriterInv, SealedBytes, BlocksInv
  <2>3. \A i \in DOMAIN Append(frags, Sealed(cur)) : BlocksOf(Append(frags, Sealed(cur))[i], format)
    BY <1>1, <2>2, SealedBlocks DEF BlocksInv
  <2> QED
    BY <2>1, <2>3, <1>1 DEF BlocksInv
<1> QED
  BY <1>1, <1>2, <1>3, WriteBlocks, WritePieceBlocks DEF WriteContainer

LEMMA FramedBlocks == BlocksInv /\ Framed => BlocksInv'
  BY DEF BlocksInv, Framed, writerVars, Fed

\* A guard that is on belongs to the reader's stream.
LEMMA GuardedStream ==
  ASSUME StreamInv, dec.guard.on
  PROVE  /\ dec # NoStream /\ rdr # "none" /\ InStep(dec)
         /\ frags[dec.frag].start \in Nat /\ frags[dec.frag].len \in Nat
         /\ dec.frag \in DOMAIN frags /\ dec.raw \in Nat /\ dec.raw <= frags[dec.frag].len
         /\ bad \in Nat /\ format \in {"stream", "single"} /\ WriterInv
<1>1. dec # NoStream
  BY DEF NoStream, NoGuard
<1>2. InStep(dec) /\ rdr # "none" /\ bad \in Nat
  BY <1>1 DEF StreamInv, ReaderInv
<1>3. WriterInv /\ format \in {"stream", "single"}
  BY DEF StreamInv, WriterInv
<1>4. \A i \in DOMAIN frags : frags[i].start \in Nat /\ frags[i].len \in Nat
  BY <1>3 DEF WriterInv, Tiled
<1> QED
  BY <1>1, <1>2, <1>3, <1>4 DEF InStep

LEMMA NoGuardYet ==
  ASSUME dec' = NoStream, ~last'.failed
  PROVE  GuardInv'
  BY DEF GuardInv, NoStream, NoGuard

\* A guard begins with the fragment.
LEMMA SetupGuard ==
  ASSUME WriterInv, NEW i \in DOMAIN frags, NEW l \in Nat, dec' = Setup(i, l), passed' = {},
         ~last'.failed, Framed, bad \in Nat
  PROVE  GuardInv'
<1>1. /\ frags[i].start \in Nat /\ frags[i].len \in Nat
      /\ i \in Nat \ {0}
  <2>1. DOMAIN frags = 1..Len(frags) /\ Len(frags) \in Nat
    BY AppendSeq DEF WriterInv, Tiled
  <2> QED
    BY <2>1 DEF WriterInv, Tiled
<1>2. dec'.frag = i /\ dec'.raw = l
  BY <1>1, SetupWorks
<1>3. dec'.guard = NewGuard(frags[i], l)
  BY DEF Setup
<1>4. frags' = frags /\ bad' = bad /\ format' = format
  BY DEF Framed, writerVars
<1>5. ASSUME dec'.guard.on
      PROVE  GuardOK(dec'.guard, frags[i], l, bad, format, {})
  <2>1. dec'.guard.on = (rdr = "sequential" /\ l = 0 /\ frags[i].len > 0)
    BY <1>3 DEF NewGuard, NoGuard
  <2>2. l = 0 /\ frags[i].len > 0 /\ dec'.guard = [NoGuard EXCEPT !.on = TRUE]
    BY <1>3, <1>5, <2>1 DEF NewGuard
  <2> DEFINE f == frags[i]
             g == dec'.guard
  <2>3. f.start \in Nat /\ f.len \in Nat /\ f.len > 0 /\ bad \in Nat /\ g = [NoGuard EXCEPT !.on = TRUE]
    BY <2>2, <1>1
  <2> HIDE DEF f, g
  <2>4. GuardOK(g, f, 0, bad, format, {})
    BY ONLY <2>3, GuardStarts
  <2> QED
    BY <2>2, <2>4 DEF f, g
<1> QED
  BY <1>2, <1>4, <1>5 DEF GuardInv

LEMMA ReadGuard ==
  ASSUME StreamInv, BlocksInv, GuardInv, NEW n \in Nat, ReadStream(n), Framed
  PROVE  GuardInv'
<1> DEFINE f == frags[dec.frag]
           G == Guarded(dec, n)
           raw == RawBytes(dec, n)
           h == [dec.guard EXCEPT !.crc = @ \o raw]
           res == FeedBlocks(h, f, raw)
<1>1. frags' = frags /\ bad' = bad /\ format' = format
  BY DEF Framed, writerVars
<1>2. /\ dec # NoStream /\ n <= f.len - dec.raw
      /\ last'.failed = G.fails
      /\ passed' = IF G.fails THEN passed ELSE passed \cup {f.start + dec.raw + i : i \in 1..n}
      /\ \/ dec' = [dec EXCEPT !.raw = @ + n, !.ctr = @ + n, !.guard = G.guard]
         \/ ~G.fails /\ dec' = NoStream
  BY DEF ReadStream
<1>3. InStep(dec)
  BY <1>2 DEF StreamInv, ReaderInv
<1>4. CASE ~dec.guard.on
  <2>1. G = [guard |-> dec.guard, fails |-> FALSE]
    BY <1>4 DEF Guarded
  <2>2. ~last'.failed
    BY <1>2, <2>1
  <2>3. CASE dec' = [dec EXCEPT !.raw = @ + n, !.ctr = @ + n, !.guard = G.guard]
    <3>1. dec'.guard = dec.guard
      BY <1>3, <2>1, <2>3 DEF InStep
    <3> QED
      BY <3>1, <2>2, <1>4 DEF GuardInv
  <2> QED
    BY <2>2, <2>3, <1>2, NoGuardYet
<1>5. CASE dec.guard.on
  <2>1. /\ f.start \in Nat /\ f.len \in Nat /\ dec.raw \in Nat /\ bad \in Nat
        /\ format \in {"stream", "single"} /\ dec.frag \in DOMAIN frags
    BY <1>5, GuardedStream
  <2>2. dec.raw + n <= f.len
    BY <1>2, <2>1
  <2>3. raw = Part(Raw(bad), f.start + dec.raw, n)
    <3>1. \A i \in 1..n : f.start + dec.raw + i \in Nat
      BY <2>1
    <3>2. \A i \in 1..n : RawByte(f.start + dec.raw + i) = Raw(bad)[f.start + dec.raw + i]
      BY <3>1 DEF RawByte, Raw
    <3> QED
      BY <3>2 DEF RawBytes, Part
  <2>4. BlocksOf(f, format)
    BY <2>1 DEF BlocksInv
  <2>5. GuardOK(dec.guard, f, dec.raw, bad, format, passed)
    BY <1>5 DEF GuardInv
  <2>6. /\ G.guard = res.guard
        /\ G.fails = (res.fails \/ (dec.raw + n >= f.len /\ h.crc # BytesFrom(f.start, f.len)))
    BY <1>5 DEF Guarded
  <2> HIDE DEF f, G, raw, h, res
  <2>7. /\ GuardOK(res.guard, f, dec.raw + n, bad, format, passed')
        /\ res.guard.on = dec.guard.on
        /\ G.fails => bad \in PlacesOf(f)
    <3>1. h = [dec.guard EXCEPT !.crc = @ \o Part(Raw(bad), f.start + dec.raw, n)]
      BY <2>3 DEF h
    <3>2. res = FeedBlocks(h, f, Part(Raw(bad), f.start + dec.raw, n))
      BY <2>3 DEF res
    <3>3. passed' = IF G.fails THEN passed
                    ELSE passed \cup {f.start + dec.raw + i : i \in 1..n}
      BY <1>2
    <3>4. Guarding(f, bad, dec.raw, n, format, dec.guard, passed, h, res, G.fails, passed')
      BY <2>1, <2>2, <2>4, <2>6, <3>1, <3>2, <3>3 DEF Guarding
    <3> QED
      BY ONLY <2>5, <3>4, GuardMoves
  <2>8. CASE dec' = [dec EXCEPT !.raw = @ + n, !.ctr = @ + n, !.guard = G.guard]
    <3>1. dec'.guard = G.guard /\ dec'.raw = dec.raw + n /\ dec'.frag = dec.frag
      BY <1>3, <2>8 DEF InStep
    <3>2. frags'[dec'.frag] = f
      BY <3>1, <1>1 DEF f
    <3>3. GuardOK(dec'.guard, f, dec'.raw, bad', format', passed')
      BY <3>1, <2>6, <2>7, <1>1
    <3>4. last'.failed => dec'.guard.on /\ bad' \in PlacesOf(f)
      BY <3>1, <2>6, <2>7, <1>1, <1>2, <1>5
    <3>5. PlacesOf(f)' = PlacesOf(f)
      BY <1>1, <3>2 DEF f, PlacesOf
    <3> QED
      BY <3>2, <3>3, <3>4 DEF GuardInv
  <2> QED
    BY <2>8, <1>2, NoGuardYet
<1> QED
  BY <1>4, <1>5

LEMMA ReadContainerGuard ==
  ASSUME StreamInv, BlocksInv, GuardInv, ReadContainer
  PROVE  GuardInv'
<1>1. Framed
  BY DEF ReadContainer, Framed
<1>2. WriterInv /\ ReaderInv /\ bad \in Nat
  BY DEF StreamInv, ReaderInv
<1>3. ~NothingRead.failed
  BY DEF NothingRead
<1>4. ASSUME SetupInRead
      PROVE  GuardInv'
  <2> DEFINE l == IF rdr = "virtual" /\ off > frags[idx].start THEN off - frags[idx].start ELSE 0
  <2>1. /\ dec = NoStream /\ idx \in DOMAIN frags /\ dec' = Setup(idx, l)
        /\ passed' = {} /\ last' = last
    BY <1>4 DEF SetupInRead
  <2>2. ~last'.failed
    BY <2>1 DEF GuardInv, NoStream, NoGuard
  <2>3. l \in Nat
    BY <2>1, <1>2 DEF ReaderInv, WriterInv, Tiled
  <2> HIDE DEF l
  <2> QED
    BY <2>1, <2>2, <2>3, <1>1, <1>2, SetupGuard
<1>5. ASSUME NEW o \in 0..TotalSize, Seek(o)
      PROVE  GuardInv'
  <2> DEFINE i == Find(o)
             l == o - frags[i].start
  <2>1. /\ passed' = {} /\ ~last'.failed /\ rdr # "none"
        /\ dec' = NoStream \/ (i \in DOMAIN frags /\ dec' = Setup(i, l))
    BY <1>3, <1>5 DEF Seek, SeekSequential, SeekVirtual
  <2>2. cur = NoPiece /\ TotalSize \in Nat
    BY <2>1, ReaderFacts
  <2>3. i \in DOMAIN frags => l \in Nat
    BY <2>2, <1>2, FindWorks DEF WriterInv, Tiled
  <2> HIDE DEF i, l
  <2> QED
    BY <2>1, <2>3, <1>1, <1>2, SetupGuard, NoGuardYet
<1>6. ASSUME NEW n, ReadSegment(n)
      PROVE  GuardInv'
  <2>1. dec' = NoStream /\ ~last'.failed
    BY <1>2, <1>6 DEF ReadSegment, ReaderInv
  <2> QED
    BY <2>1, NoGuardYet
<1>7. ASSUME NEW o, SeekSegment(o)
      PROVE  GuardInv'
  <2>1. dec' = NoStream /\ ~last'.failed
    BY <1>2, <1>3, <1>7 DEF SeekSegment, ReaderInv
  <2> QED
    BY <2>1, NoGuardYet
<1>8. \A n \in 0..MaxBytes : n \in Nat
  BY StreamAssumption
<1> QED
  BY <1>1, <1>4, <1>5, <1>6, <1>7, <1>8, ReadGuard DEF ReadContainer

LEMMA InitDamage == StreamInit => BlocksInv /\ GuardInv
<1> SUFFICES ASSUME StreamInit
             PROVE  BlocksInv /\ GuardInv
  OBVIOUS
<1>1. BlocksInv
  BY DEF StreamInit, BlocksInv
<1>2. GuardInv
  BY DEF StreamInit, GuardInv, NoStream, NoGuard, NothingRead
<1> QED
  BY <1>1, <1>2

LEMMA StepDamage == DamageInv /\ [StreamNext]_streamVars => DamageInv'
<1> SUFFICES ASSUME DamageInv, [StreamNext]_streamVars
             PROVE  DamageInv'
  OBVIOUS
<1>1. StreamInv /\ BlocksInv /\ GuardInv
  BY DEF DamageInv
<1>2. StreamInv'
  BY <1>1, StepStream
\* Before there is a reader, nothing is read and nothing guarded.
<1>3. ASSUME rdr = "none", dec' = dec, last' = last
      PROVE  GuardInv'
  <2>1. dec = NoStream /\ last = NothingRead
    BY <1>1, <1>3 DEF StreamInv, ReaderInv
  <2> QED
    BY <2>1, <1>3, NoGuardYet DEF NothingRead
<1>4. CASE WriteContainer
  <2>1. GuardInv'
    BY <1>3, <1>4 DEF WriteContainer, readerVars
  <2> QED
    BY <2>1, <1>1, <1>2, <1>4, WriteContainerBlocks DEF DamageInv
<1>5. ASSUME NEW which \in ReaderNames, NEW damaged \in 0..written, Open(which, damaged)
      PROVE  DamageInv'
  <2>1. GuardInv'
    BY <1>3, <1>5 DEF Open
  <2>2. BlocksInv'
    <3>1. frags' = Manifest /\ cur' = NoPiece /\ format' = format
      BY <1>5 DEF Open
    <3>2. \A i \in DOMAIN Manifest : BlocksOf(Manifest[i], format)
      BY <1>1, ManifestBlocks DEF StreamInv
    <3> QED
      BY <3>1, <3>2 DEF BlocksInv
  <2> QED
    BY <2>1, <2>2, <1>2 DEF DamageInv
<1>6. CASE ReadContainer
  <2>1. Framed
    BY <1>6 DEF ReadContainer, Framed
  <2> QED
    BY <2>1, <1>1, <1>2, <1>6, FramedBlocks, ReadContainerGuard DEF DamageInv
<1>7. CASE UNCHANGED streamVars
  BY <1>1, <1>2, <1>7 DEF DamageInv, streamVars, writerVars, readerVars, BlocksInv, GuardInv, Fed, PlacesOf
<1> QED
  BY <1>4, <1>5, <1>6, <1>7 DEF StreamNext

LEMMA GuardReports == DamageInv => DamageIsReported
<1> SUFFICES ASSUME DamageInv, dec.guard.on
             PROVE  LET f == frags[dec.frag]
                        BlockEnd == f.start + ((bad - f.start + BlockSize - 1) \div BlockSize) * BlockSize
                    IN /\ bad \in passed =>
                            \E b \in PlacesOf(f) \ passed : format = "single" => b <= BlockEnd
                       /\ last.failed => bad \in PlacesOf(f)
  BY DEF DamageIsReported
<1>1. StreamInv /\ GuardInv
  BY DEF DamageInv
<1> DEFINE f == frags[dec.frag]
<1>2. /\ f.start \in Nat /\ f.len \in Nat /\ dec.raw \in Nat /\ dec.raw <= f.len /\ bad \in Nat
  BY <1>1, GuardedStream
<1>3. /\ GuardOK(dec.guard, f, dec.raw, bad, format, passed)
      /\ last.failed => bad \in PlacesOf(f)
  BY <1>1 DEF GuardInv
<1> HIDE DEF f
<1>4. bad \in passed =>
        \E b \in PlacesOf(f) \ passed :
          format = "single" =>
            b <= f.start + ((bad - f.start + BlockSize - 1) \div BlockSize) * BlockSize
  BY ONLY <1>2, <1>3, GuardSays
<1> QED
  BY <1>3, <1>4 DEF f

\* Whatever the sizes of stream, fragments and blocks, the pieces that the
\* writer and the reader see, and the byte that is damaged: a fragment that is
\* read from its start does not come through to the end of the damaged block,
\* or to its own, without an error, and it never fails undamaged
\* (crc_guard_reader.go, Read and feedBlocks; single_file_container_writer.go,
\* appendBlockCRC and finishBlockCRCs).
THEOREM DamageReported == StreamSpec => []DamageIsReported
<1>1. StreamInit => DamageInv
  BY InitStream, InitDamage DEF DamageInv
<1> QED
  BY <1>1, StepDamage, GuardReports, PTL DEF StreamSpec

-----------------------------------------------------------------------------
(* The shared handles                                                      *)

FragmentRecords == [pc : {"idle", "owning", "counting", "reading"},
                    of : HReaders \cup {NoReader}, handle : Handles \cup {NoHandle}]

\* Uncontended, each use is counted once and is one of the handle in the pool.
Kept ==
  /\ count = Cardinality(Owners) + Cardinality(Owning) + Cardinality(Reading)
  /\ openHandles = IF held = NoHandle THEN {} ELSE {held}
  /\ held = NoHandle <=> count = 0
  /\ \A r \in Owners : own[r] = held
  /\ \A f \in HFragments : frag[f].pc # "idle" => frag[f].handle = held
  /\ \A f \in HFragments : frag[f].pc = "counting" => frag[f].of \in Owners

\* The uses are finitely many, and none is of a container that is not open yet.
UsesInv ==
  /\ IsFiniteSet(Owners) /\ IsFiniteSet(Owning) /\ IsFiniteSet(Reading)
  /\ \A f \in HFragments : frag[f].pc # "idle" => frag[f].of \in HReaders /\ state[frag[f].of] # "new"
  /\ \A r \in HReaders : state[r] = "new" => r \notin Owners

PoolInv == HandleTypeOK /\ UsesInv /\ (contended \/ Kept)

LEMMA NoHandleIsNone == NoHandle \notin Handles
  BY HandleAssumption DEF NoHandle, Handles

LEMMA InitPool == HandleInit => PoolInv
<1> SUFFICES ASSUME HandleInit
             PROVE  PoolInv
  OBVIOUS
<1>1. Owners = {} /\ Owning = {} /\ Reading = {}
  BY DEF HandleInit, Owners, Owning, Reading, NoFragment
<1>2. Cardinality({}) = 0 /\ IsFiniteSet({})
  BY FS_EmptySet
<1>3. \A f \in HFragments : frag[f].pc = "idle"
  BY DEF HandleInit, NoFragment
<1>4. HandleTypeOK
  BY HandleAssumption DEF HandleInit, HandleTypeOK, NoFragment
<1> QED
  BY <1>1, <1>2, <1>3, <1>4 DEF HandleInit, PoolInv, UsesInv, Kept

\* A pool without a handle has no user.
LEMMA NoUsers ==
  ASSUME PoolInv, Kept, held = NoHandle \/ count = 0
  PROVE  /\ Owners = {} /\ Owning = {} /\ Reading = {}
         /\ \A f \in HFragments : frag[f].pc = "idle"
<1>1. /\ Cardinality(Owners) \in Nat /\ Cardinality(Owning) \in Nat /\ Cardinality(Reading) \in Nat
  BY FS_CardinalityType DEF PoolInv, UsesInv
<1>2. Cardinality(Owners) = 0 /\ Cardinality(Owning) = 0 /\ Cardinality(Reading) = 0
  BY <1>1 DEF Kept
<1>3. Owners = {} /\ Owning = {} /\ Reading = {}
  BY <1>2, FS_EmptySet DEF PoolInv, UsesInv
<1> QED
  BY <1>3 DEF Kept, Owning, Reading, PoolInv, HandleTypeOK

LEMMA GetTypes ==
  ASSUME HandleTypeOK, NEW h \in Handles, Get(h)
  PROVE  /\ held' \in Handles \cup {NoHandle} /\ count' \in Nat
         /\ openHandles' \subseteq 1..handlesMade' /\ handlesMade' \in 0..MaxHandles
<1>1. CASE count' = count + 1 /\ UNCHANGED <<held, openHandles, handlesMade>>
  BY <1>1 DEF HandleTypeOK
<1>2. CASE /\ handlesMade < MaxHandles /\ h = handlesMade + 1 /\ held' = h /\ count' = 1
           /\ openHandles' = openHandles \cup {h} /\ handlesMade' = h
  BY <1>2, HandleAssumption DEF HandleTypeOK
<1> QED
  BY <1>1, <1>2 DEF Get

LEMMA PutTypes ==
  ASSUME HandleTypeOK, NEW h, Put(h)
  PROVE  /\ held' \in Handles \cup {NoHandle} /\ count' \in Nat
         /\ openHandles' \subseteq 1..handlesMade' /\ handlesMade' \in 0..MaxHandles
<1>1. CASE count > 1 /\ count' = count - 1 /\ UNCHANGED <<held, openHandles, handlesMade>>
  <2>1. count - 1 \in Nat
    BY <1>1 DEF HandleTypeOK
  <2> QED
    BY <1>1, <2>1 DEF HandleTypeOK
<1>2. CASE /\ held' = NoHandle /\ count' = 0 /\ handlesMade' = handlesMade
           /\ openHandles' = openHandles \ {h}
  BY <1>2 DEF HandleTypeOK
<1> QED
  BY <1>1, <1>2 DEF Put

\* The last use closes the handle, any other leaves it.
LEMMA PutKept ==
  ASSUME PoolInv, Kept, count # 0, Put(held)
  PROVE  /\ count' = count - 1
         /\ openHandles' = IF held' = NoHandle THEN {} ELSE {held'}
         /\ held' = NoHandle <=> count' = 0
         /\ held' = held \/ count' = 0
<1>1. count \in Nat /\ held # NoHandle
  BY DEF PoolInv, HandleTypeOK, Kept
<1>2. CASE count > 1
  BY <1>1, <1>2 DEF Put, Kept
<1>3. CASE count = 1
  BY <1>1, <1>3 DEF Put, Kept
<1> QED
  BY <1>1, <1>2, <1>3

LEMMA OpenPool ==
  ASSUME PoolInv, NEW r \in HReaders, OpenContainer(r)
  PROVE  PoolInv'
<1>1. /\ UNCHANGED <<own, frag, handlesMade>>
      /\ state[r] = "new" /\ state' = [state EXCEPT ![r] = "open"]
      /\ held' = NoHandle /\ count' = 0 /\ openHandles' = openHandles \ {held}
  BY DEF OpenContainer, ClosePath
<1>2. Owners' = Owners /\ Owning' = Owning /\ Reading' = Reading
  BY <1>1 DEF Owners, Owning, Reading
<1>3. HandleTypeOK'
  BY <1>1 DEF PoolInv, HandleTypeOK
<1>4. UsesInv'
  BY <1>1, <1>2 DEF PoolInv, UsesInv, HandleTypeOK
<1>5. ASSUME ~contended'
      PROVE  Kept'
  <2>1. Kept /\ \A q \in HReaders \ {r} : own[q] = NoHandle /\ Using(q) = {}
    BY <1>5 DEF OpenContainer, PoolInv
  <2>2. Owners = {}
    BY <1>1, <2>1 DEF Owners, PoolInv, UsesInv
  <2>3. \A f \in HFragments : frag[f].pc = "idle"
    BY <1>1, <2>1 DEF PoolInv, UsesInv, Using
  <2>4. Owning = {} /\ Reading = {}
    BY <2>3 DEF Owning, Reading
  <2>5. openHandles' = {}
    BY <1>1, <2>1 DEF Kept
  <2> QED
    BY <1>1, <1>2, <2>2, <2>3, <2>4, <2>5, FS_EmptySet DEF Kept
<1> QED
  BY <1>3, <1>4, <1>5 DEF PoolInv

LEMMA MetadataPool ==
  ASSUME PoolInv, NEW r \in HReaders, OpenFromMetadata(r)
  PROVE  PoolInv'
<1>1. /\ UNCHANGED <<own, frag, handlesMade, held, count, openHandles, contended>>
      /\ state' = [state EXCEPT ![r] = "open"]
  BY DEF OpenFromMetadata, poolVars
<1>2. Owners' = Owners /\ Owning' = Owning /\ Reading' = Reading
  BY <1>1 DEF Owners, Owning, Reading
<1>3. HandleTypeOK'
  BY <1>1 DEF PoolInv, HandleTypeOK
<1>4. UsesInv'
  BY <1>1, <1>2 DEF PoolInv, UsesInv, HandleTypeOK
<1> QED
  BY <1>1, <1>2, <1>3, <1>4 DEF PoolInv, Kept

LEMMA AcquirePool ==
  ASSUME PoolInv, NEW f \in HFragments, AcquireMain(f)
  PROVE  PoolInv'
<1>1. PICK r \in HReaders :
        /\ state[r] = "open"
        /\ \/ /\ own[r] \in openHandles
              /\ frag' = [frag EXCEPT ![f] = [pc |-> "counting", of |-> r, handle |-> own[r]]]
              /\ UNCHANGED poolVars
           \/ /\ own[r] \notin openHandles
              /\ \E h \in Handles :
                   /\ Get(h)
                   /\ frag' = [frag EXCEPT ![f] = [pc |-> "owning", of |-> r, handle |-> h]]
  BY DEF AcquireMain
<1>2. frag[f].pc = "idle" /\ UNCHANGED <<state, own, contended>>
  BY DEF AcquireMain
<1>3. Owners' = Owners
  BY <1>2 DEF Owners
<1>4. CASE /\ own[r] \in openHandles /\ UNCHANGED poolVars
           /\ frag' = [frag EXCEPT ![f] = [pc |-> "counting", of |-> r, handle |-> own[r]]]
  <2>1. /\ frag' \in [HFragments -> FragmentRecords]
        /\ frag'[f].pc = "counting" /\ frag'[f].of = r /\ frag'[f].handle = own[r]
        /\ \A g \in HFragments \ {f} : frag'[g] = frag[g]
    BY <1>4 DEF PoolInv, HandleTypeOK, FragmentRecords
  <2>2. Owning' = Owning /\ Reading' = Reading
    BY <1>2, <2>1 DEF Owning, Reading
  <2>3. HandleTypeOK'
    BY <1>2, <1>4, <2>1 DEF PoolInv, HandleTypeOK, poolVars, FragmentRecords
  <2>4. UsesInv'
    BY <1>1, <1>2, <1>3, <2>1, <2>2 DEF PoolInv, UsesInv
  <2>5. ASSUME Kept
        PROVE  Kept'
    <3>1. held # NoHandle /\ own[r] = held /\ r \in Owners
      BY <1>4, <2>5 DEF Kept, Owners
    <3> QED
      BY <1>2, <1>3, <1>4, <2>1, <2>2, <2>5, <3>1 DEF Kept, poolVars
  <2> QED
    BY <1>2, <2>3, <2>4, <2>5 DEF PoolInv
<1>5. ASSUME NEW h \in Handles, own[r] \notin openHandles, Get(h),
             frag' = [frag EXCEPT ![f] = [pc |-> "owning", of |-> r, handle |-> h]]
      PROVE  PoolInv'
  <2>1. /\ frag' \in [HFragments -> FragmentRecords]
        /\ frag'[f].pc = "owning" /\ frag'[f].of = r /\ frag'[f].handle = h
        /\ \A g \in HFragments \ {f} : frag'[g] = frag[g]
    BY <1>5 DEF PoolInv, HandleTypeOK, FragmentRecords
  <2>2. Owning' = Owning \cup {f} /\ f \notin Owning /\ Reading' = Reading
    BY <1>2, <2>1 DEF Owning, Reading
  <2>3. IsFiniteSet(Owning') /\ Cardinality(Owning') = Cardinality(Owning) + 1
    BY <2>2, FS_AddElement DEF PoolInv, UsesInv
  <2>4. HandleTypeOK'
    BY <1>2, <1>5, <2>1, GetTypes DEF PoolInv, HandleTypeOK, FragmentRecords
  <2>5. UsesInv'
    BY <1>1, <1>2, <1>3, <2>1, <2>2, <2>3 DEF PoolInv, UsesInv
  <2>6. ASSUME Kept
        PROVE  Kept'
    <3>1. /\ Cardinality(Owners) \in Nat /\ Cardinality(Owning) \in Nat /\ Cardinality(Reading) \in Nat
          /\ count \in Nat
      BY FS_CardinalityType DEF PoolInv, UsesInv, HandleTypeOK
    <3>2. CASE held # NoHandle
      <4>1. h = held /\ count' = count + 1 /\ UNCHANGED <<held, openHandles>>
        BY <1>5, <3>2 DEF Get
      <4> QED
        BY <1>2, <1>3, <2>1, <2>2, <2>3, <2>6, <3>1, <3>2, <4>1 DEF Kept
    <3>3. CASE held = NoHandle
      <4>1. held' = h /\ count' = 1 /\ openHandles' = openHandles \cup {h} /\ h # NoHandle
        BY <1>5, <3>3, NoHandleIsNone DEF Get
      <4>2. /\ Owners = {} /\ Reading = {} /\ Owning = {}
            /\ \A g \in HFragments : frag[g].pc = "idle"
        BY <2>6, <3>3, NoUsers
      <4>3. Cardinality(Owning') = 1 /\ Cardinality(Owners') = 0 /\ Cardinality(Reading') = 0
        BY <1>3, <2>2, <2>3, <4>2, FS_EmptySet
      <4>4. openHandles' = {h}
        BY <2>6, <3>3, <4>1 DEF Kept
      <4>5. \A g \in HFragments : frag'[g].pc # "idle" => g = f
        BY <2>1, <4>2
      <4> QED
        BY <1>3, <2>1, <4>1, <4>2, <4>3, <4>4, <4>5 DEF Kept
    <3> QED
      BY <3>2, <3>3
  <2> QED
    BY <1>2, <2>4, <2>5, <2>6 DEF PoolInv
<1> QED
  BY <1>1, <1>4, <1>5

LEMMA SetOwnPool ==
  ASSUME PoolInv, NEW f \in HFragments, SetOwn(f)
  PROVE  PoolInv'
<1>0. PICK r, h : r = frag[f].of /\ h = frag[f].handle
  OBVIOUS
<1>1. /\ frag[f].pc = "owning" /\ UNCHANGED <<held, count, openHandles, handlesMade, state>>
      /\ own' = [own EXCEPT ![r] = h]
      /\ contended' = (contended \/ own[r] # NoHandle)
  BY <1>0 DEF SetOwn, poolVars
<1>2. r \in HReaders /\ h \in Handles \cup {NoHandle} /\ state[r] # "new"
  BY <1>0, <1>1 DEF PoolInv, UsesInv, HandleTypeOK
<1>3. /\ frag' \in [HFragments -> FragmentRecords]
      /\ frag'[f].pc = "counting" /\ frag'[f].of = r /\ frag'[f].handle = h
      /\ \A g \in HFragments \ {f} : frag'[g] = frag[g]
  BY <1>0 DEF SetOwn, PoolInv, HandleTypeOK, FragmentRecords
<1>4. own'[r] = h /\ \A q \in HReaders \ {r} : own'[q] = own[q]
  BY <1>1, <1>2 DEF PoolInv, HandleTypeOK
<1>5. Owning' = Owning \ {f} /\ f \in Owning /\ Reading' = Reading
  BY <1>1, <1>3 DEF Owning, Reading
<1>6. IsFiniteSet(Owning') /\ Cardinality(Owning') = Cardinality(Owning) - 1
  BY <1>5, FS_RemoveElement DEF PoolInv, UsesInv
<1>7. Owners' = Owners \cup {r} \/ Owners' = Owners \ {r}
  BY <1>2, <1>4 DEF Owners
<1>8. IsFiniteSet(Owners')
  BY <1>7, FS_AddElement, FS_RemoveElement DEF PoolInv, UsesInv
<1>9. HandleTypeOK'
  BY <1>1, <1>2, <1>3 DEF PoolInv, HandleTypeOK, FragmentRecords
<1>10. UsesInv'
  BY <1>1, <1>2, <1>3, <1>5, <1>6, <1>7, <1>8 DEF PoolInv, UsesInv
<1>11. ASSUME ~contended'
       PROVE  Kept'
  <2>1. Kept /\ own[r] = NoHandle
    BY <1>1, <1>11 DEF PoolInv
  <2>2. h = held /\ held # NoHandle
    BY <1>0, <1>1, <2>1, NoUsers DEF Kept
  <2>3. Owners' = Owners \cup {r} /\ r \notin Owners
    BY <1>2, <1>4, <2>1, <2>2 DEF Owners
  <2>4. Cardinality(Owners') = Cardinality(Owners) + 1
    BY <2>3, FS_AddElement DEF PoolInv, UsesInv
  <2>5. Cardinality(Owners) \in Nat /\ Cardinality(Owning) \in Nat /\ Cardinality(Reading) \in Nat
    BY FS_CardinalityType DEF PoolInv, UsesInv
  <2>6. count' = Cardinality(Owners') + Cardinality(Owning') + Cardinality(Reading')
    BY <1>1, <1>5, <1>6, <2>1, <2>4, <2>5 DEF Kept
  <2>7. \A q \in Owners' : own'[q] = held
    BY <1>2, <1>4, <2>1, <2>2, <2>3 DEF Kept, Owners
  <2>8. \A g \in HFragments : frag'[g].pc = "counting" => frag'[g].of \in Owners'
    BY <1>3, <2>1, <2>3 DEF Kept
  <2>9. \A g \in HFragments : frag'[g].pc # "idle" => frag'[g].handle = held
    BY <1>3, <2>1, <2>2 DEF Kept
  <2> QED
    BY <1>1, <2>1, <2>6, <2>7, <2>8, <2>9 DEF Kept
<1> QED
  BY <1>9, <1>10, <1>11 DEF PoolInv

LEMMA CountPool ==
  ASSUME PoolInv, NEW f \in HFragments, CountFragment(f)
  PROVE  PoolInv'
<1>1. /\ frag[f].pc = "counting" /\ UNCHANGED <<state, own, contended>>
      /\ \E h \in Handles : Get(h)
  BY DEF CountFragment
<1>2. /\ frag' \in [HFragments -> FragmentRecords]
      /\ frag'[f].pc = "reading" /\ frag'[f].of = frag[f].of /\ frag'[f].handle = frag[f].handle
      /\ \A g \in HFragments \ {f} : frag'[g] = frag[g]
  BY DEF CountFragment, PoolInv, HandleTypeOK, FragmentRecords
<1>3. Owners' = Owners /\ Owning' = Owning /\ Reading' = Reading \cup {f} /\ f \notin Reading
  BY <1>1, <1>2 DEF Owners, Owning, Reading
<1>4. IsFiniteSet(Reading') /\ Cardinality(Reading') = Cardinality(Reading) + 1
  BY <1>3, FS_AddElement DEF PoolInv, UsesInv
<1>5. HandleTypeOK'
  BY <1>1, <1>2, GetTypes DEF PoolInv, HandleTypeOK, FragmentRecords
<1>6. UsesInv'
  BY <1>1, <1>2, <1>3, <1>4 DEF PoolInv, UsesInv
<1>7. ASSUME Kept
      PROVE  Kept'
  <2>1. held # NoHandle
    BY <1>1, <1>7, NoUsers
  <2>2. count' = count + 1 /\ UNCHANGED <<held, openHandles>>
    BY <1>1, <2>1 DEF Get
  <2>3. /\ Cardinality(Owners) \in Nat /\ Cardinality(Owning) \in Nat /\ Cardinality(Reading) \in Nat
        /\ count \in Nat
    BY FS_CardinalityType DEF PoolInv, UsesInv, HandleTypeOK
  <2> QED
    BY <1>1, <1>2, <1>3, <1>4, <1>7, <2>1, <2>2, <2>3 DEF Kept
<1> QED
  BY <1>1, <1>5, <1>6, <1>7 DEF PoolInv

LEMMA CloseFragmentPool ==
  ASSUME PoolInv, NEW f \in HFragments, CloseFragment(f)
  PROVE  PoolInv'
<1>1. /\ frag[f].pc = "reading" /\ UNCHANGED <<state, own, contended>>
      /\ Put(frag[f].handle) /\ frag' = [frag EXCEPT ![f] = NoFragment]
  BY DEF CloseFragment
<1>2. /\ frag' \in [HFragments -> FragmentRecords]
      /\ frag'[f].pc = "idle"
      /\ \A g \in HFragments \ {f} : frag'[g] = frag[g]
  BY <1>1 DEF PoolInv, HandleTypeOK, FragmentRecords, NoFragment
<1>3. Owners' = Owners /\ Owning' = Owning /\ Reading' = Reading \ {f} /\ f \in Reading
  BY <1>1, <1>2 DEF Owners, Owning, Reading
<1>4. IsFiniteSet(Reading') /\ Cardinality(Reading') = Cardinality(Reading) - 1
  BY <1>3, FS_RemoveElement DEF PoolInv, UsesInv
<1>5. HandleTypeOK'
  BY <1>1, <1>2, PutTypes DEF PoolInv, HandleTypeOK, FragmentRecords
<1>6. UsesInv'
  BY <1>1, <1>2, <1>3, <1>4 DEF PoolInv, UsesInv
<1>7. ASSUME Kept
      PROVE  Kept'
  <2>1. count # 0 /\ Put(held)
    BY <1>1, <1>7, NoUsers DEF Kept
  <2>2. /\ Cardinality(Owners) \in Nat /\ Cardinality(Owning) \in Nat /\ Cardinality(Reading) \in Nat
        /\ Cardinality(Reading') \in Nat
    BY <1>4, FS_CardinalityType DEF PoolInv, UsesInv
  <2>3. /\ openHandles' = IF held' = NoHandle THEN {} ELSE {held'}
        /\ held' = NoHandle <=> count' = 0
        /\ held' = held \/ count' = 0
        /\ count' = Cardinality(Owners') + Cardinality(Owning') + Cardinality(Reading')
    BY <1>3, <1>4, <1>7, <2>1, <2>2, PutKept DEF Kept
  <2>4. CASE held' = held
    BY <1>1, <1>2, <1>3, <1>7, <2>3, <2>4 DEF Kept
  <2>5. CASE count' = 0
    <3>1. Cardinality(Owners) = 0 /\ Cardinality(Owning) = 0 /\ Cardinality(Reading') = 0
      BY <1>3, <2>2, <2>3, <2>5
    <3>2. Owners' = {} /\ Owning' = {} /\ Reading' = {}
      BY <1>3, <1>4, <3>1, FS_EmptySet DEF PoolInv, UsesInv
    <3>3. \A g \in HFragments : frag'[g].pc = "idle"
      BY <1>2, <1>3, <1>7, <3>2 DEF Kept, Owning, Reading, FragmentRecords
    <3> QED
      BY <2>3, <3>2, <3>3 DEF Kept
  <2> QED
    BY <2>3, <2>4, <2>5
<1> QED
  BY <1>1, <1>5, <1>6, <1>7 DEF PoolInv

LEMMA CloseContainerPool ==
  ASSUME PoolInv, NEW r \in HReaders, CloseContainer(r)
  PROVE  PoolInv'
<1>1. /\ state[r] = "open" /\ state' = [state EXCEPT ![r] = "closed"] /\ frag' = frag
      /\ own' = [own EXCEPT ![r] = NoHandle]
      /\ IF own[r] # NoHandle THEN Put(own[r]) ELSE UNCHANGED poolVars
  BY DEF CloseContainer
<1>2. own'[r] = NoHandle /\ \A q \in HReaders \ {r} : own'[q] = own[q]
  BY <1>1 DEF PoolInv, HandleTypeOK
<1>3. Owners' = Owners \ {r} /\ Owning' = Owning /\ Reading' = Reading
  BY <1>1, <1>2 DEF Owners, Owning, Reading
<1>4. /\ IsFiniteSet(Owners')
      /\ Cardinality(Owners') = IF r \in Owners THEN Cardinality(Owners) - 1 ELSE Cardinality(Owners)
  BY <1>3, FS_RemoveElement DEF PoolInv, UsesInv
<1>5. HandleTypeOK'
  <2>1. /\ held' \in Handles \cup {NoHandle} /\ count' \in Nat
        /\ openHandles' \subseteq 1..handlesMade' /\ handlesMade' \in 0..MaxHandles
    BY <1>1, PutTypes DEF PoolInv, HandleTypeOK, poolVars
  <2> QED
    BY <1>1, <2>1 DEF PoolInv, HandleTypeOK
<1>6. UsesInv'
  BY <1>1, <1>3, <1>4 DEF PoolInv, UsesInv, HandleTypeOK
<1>7. ASSUME ~contended'
      PROVE  Kept'
  <2>1. Kept /\ \A f \in HFragments : frag[f].of = r => frag[f].pc \notin {"owning", "counting"}
    BY <1>7 DEF CloseContainer, PoolInv, Using
  <2>2. \A f \in HFragments : frag[f].pc = "counting" => frag[f].of \in Owners'
    BY <1>3, <2>1 DEF Kept
  <2>3. /\ Cardinality(Owners) \in Nat /\ Cardinality(Owning) \in Nat /\ Cardinality(Reading) \in Nat
        /\ Cardinality(Owners') \in Nat
        /\ Cardinality(Owning') = Cardinality(Owning) /\ Cardinality(Reading') = Cardinality(Reading)
    BY <1>3, <1>4, FS_CardinalityType DEF PoolInv, UsesInv
  <2>4. CASE r \notin Owners
    <3>1. own[r] = NoHandle /\ Owners' = Owners
      BY <1>3, <2>4 DEF Owners
    <3> QED
      BY <1>1, <1>2, <1>3, <2>1, <2>2, <3>1 DEF Kept, poolVars, Owners
  <2>5. CASE r \in Owners
    <3>1. own[r] # NoHandle /\ own[r] = held /\ count # 0
      BY <2>1, <2>5, NoUsers DEF Kept, Owners
    <3>2. /\ openHandles' = IF held' = NoHandle THEN {} ELSE {held'}
          /\ held' = NoHandle <=> count' = 0
          /\ held' = held \/ count' = 0
          /\ count' = Cardinality(Owners') + Cardinality(Owning') + Cardinality(Reading')
      BY <1>1, <1>3, <1>4, <2>1, <2>3, <2>5, <3>1, PutKept DEF Kept
    <3>3. CASE held' = held
      BY <1>1, <1>2, <1>3, <2>1, <2>2, <3>2, <3>3 DEF Kept, Owners
    <3>4. CASE count' = 0
      <4>1. Cardinality(Owners') = 0 /\ Cardinality(Owning) = 0 /\ Cardinality(Reading) = 0
        <5>1. 0 = Cardinality(Owners') + Cardinality(Owning) + Cardinality(Reading)
          BY <2>3, <3>2, <3>4
        <5> QED
          BY <2>3, <5>1
      <4>2. Owners' = {} /\ Owning = {} /\ Reading = {}
        BY <1>4, <4>1, FS_EmptySet DEF PoolInv, UsesInv
      <4>3. \A g \in HFragments : frag[g].pc = "idle"
        BY <2>2, <4>2 DEF Owning, Reading, PoolInv, HandleTypeOK
      <4> QED
        BY <1>1, <1>3, <3>2, <4>2, <4>3 DEF Kept
    <3> QED
      BY <3>2, <3>3, <3>4
  <2> QED
    BY <2>4, <2>5
<1> QED
  BY <1>5, <1>6, <1>7 DEF PoolInv

LEMMA StepPool == PoolInv /\ [HandleNext]_handleVars => PoolInv'
<1> SUFFICES ASSUME PoolInv, [HandleNext]_handleVars
             PROVE  PoolInv'
  OBVIOUS
<1>1. CASE UNCHANGED handleVars
  <2>1. Owners' = Owners /\ Owning' = Owning /\ Reading' = Reading
    BY <1>1 DEF handleVars, Owners, Owning, Reading
  <2> QED
    BY <1>1, <2>1 DEF handleVars, poolVars, PoolInv, UsesInv, Kept, HandleTypeOK
<1> QED
  BY <1>1, OpenPool, MetadataPool, AcquirePool, SetOwnPool, CountPool, CloseFragmentPool, CloseContainerPool
     DEF HandleNext

\* Uncontended, the pool counts each use of the file once, has no open handle
\* but the one that every fragment reads from, and closes it with the last use,
\* for any number of containers and fragments (file_handle_pool.go, Get and Put;
\* file_container_reader.go, acquireMainFile and Close).
THEOREM UsesExact == HandleSpec => []UsesAreExact
<1>1. PoolInv => UsesAreExact
  BY DEF PoolInv, Kept, UsesAreExact, Reading
<1>2. HandleSpec => []PoolInv
  BY InitPool, StepPool, PTL DEF HandleSpec
<1> QED
  BY <1>1, <1>2, PTL
=============================================================================
