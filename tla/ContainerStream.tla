-------------------------- MODULE ContainerStream --------------------------
(* What is written into a container comes out of it: the writers that cut  *)
(* and encrypt a stream (V4StreamWriter, SingleFileContainerWriter), one   *)
(* damaged byte, and the readers that seek in it and decrypt it            *)
(* (SegmentSeekableReader, SequentialSeekableDecryptReader and             *)
(* VirtualSeekableDecryptReader).                                          *)
(* A byte of plaintext is its place in the stream, 1, 2, ...; a byte of    *)
(* ciphertext is the same number, negative once damaged, and a CRC is what *)
(* it was fed.  CTR mode is the pair <<nonce, counter>> of a byte:         *)
(* decrypting with any other pair gives Garbage.  Keys, MACs (a segment    *)
(* with one decrypts only when undamaged), compression and the manifest's  *)
(* encoding are left out.                                                  *)
EXTENDS Integers, FiniteSets, Sequences, SequencesExt

CONSTANTS MaxBytes,   \* bound: the bytes of the stream
          MaxPieces,  \* bound: the fragments a packer makes of it
          SegSize,    \* V4StreamParams.SegmentSize
          BlockSize   \* FragmentBlockCRCSize

ASSUME StreamAssumption ==
  MaxBytes \in Nat /\ {MaxPieces, SegSize, BlockSize} \subseteq Nat \ {0}

VARIABLES
  format,   \* which writer: "stream" (own nonces) or "single" (one IV)
  frags,    \* the manifest: the fragments, or segments, in order
  cur,      \* openSeg or pendingFragment, NoPiece between two
  written,  \* the bytes of plaintext written so far
  bad,      \* the place of the byte that was damaged, 0 if none
  rdr,      \* which reader, "none" while the container is written
  rawSeeks, \* the fragment's raw reader is an io.Seeker
  idx,      \* currentIndex, currentFragmentIndex
  dec,      \* currentDecryptor, currentDataReader: NoStream when nil
  off,      \* currentOffset, globalOffset, offset
  last,     \* history: what the last read returned, and for which offset
  passed,   \* history: what dec has returned without an error
  adrift      \* history: a Seek failed and left off away from the stream

writerVars == <<format, frags, cur, written>>
readerVars == <<rdr, rawSeeks, idx, dec, off, last, passed, adrift>>
streamVars == <<writerVars, bad, readerVars>>

NoPiece == [start |-> -1, len |-> 0, crcs |-> [acc |-> <<>>, blocks |-> <<>>]]
NoGuard == [on |-> FALSE, crc |-> <<>>, acc |-> <<>>, block |-> 1]
NoStream == [frag |-> 0, raw |-> 0, nonce |-> 0, ctr |-> 0, guard |-> NoGuard]
\* Bound: how far an adrift currentOffset may run beyond the data.
MaxOffset == 2 * MaxBytes

Garbage == 0
NothingRead == [at |-> 0, bytes |-> <<>>, failed |-> FALSE]

\* A fragment of the manifest: the places of its bytes, and its bytes, which
\* are n after place s.
PlacesOf(f) == (f.start + 1) .. (f.start + f.len)
BytesFrom(s, n) == [i \in 1..n |-> s + i]
ReaderNames == {"segment", "sequential", "virtual"}

StreamTypeOK ==
  /\ format \in {"stream", "single"}
  /\ \A i \in DOMAIN frags : frags[i].start \in 0..MaxBytes /\ frags[i].len \in 0..MaxBytes
  /\ written \in 0..MaxBytes /\ bad \in 0..MaxBytes
  /\ rdr \in ReaderNames \cup {"none"} /\ rawSeeks \in BOOLEAN /\ adrift \in BOOLEAN
  /\ idx \in 1..(Len(frags) + 1) /\ off \in 0..MaxOffset
  /\ passed \subseteq 1..MaxBytes /\ last.bytes \in Seq(0..MaxBytes)

-----------------------------------------------------------------------------
(* Writing.                                                                *)

NoCRCs == [acc |-> <<>>, blocks |-> <<>>]

\* The full blocks of a sequence of bytes, and the bytes after them.
FullBlocks(bytes) ==
  [j \in 1..(Len(bytes) \div BlockSize) |->
     [i \in 1..BlockSize |-> bytes[(j - 1) * BlockSize + i]]]
AfterBlocks(bytes) ==
  LET n == (Len(bytes) \div BlockSize) * BlockSize IN
  [i \in 1..(Len(bytes) - n) |-> bytes[n + i]]

\* appendBlockCRC: bytes are gathered across the calls, the CRC of each full
\* block is kept.
AppendBlockCRC(crcs, bytes) ==
  LET fed == crcs.acc \o bytes IN
  [acc |-> AfterBlocks(fed), blocks |-> crcs.blocks \o FullBlocks(fed)]

\* finishBlockCRCs: what is left is a block too.
FinishBlockCRCs(crcs) ==
  IF crcs.acc = <<>> THEN crcs.blocks ELSE Append(crcs.blocks, crcs.acc)

NewPiece == [start |-> written, len |-> 0, crcs |-> NoCRCs]

\* The nonce of a fragment: a fresh one per segment, or none, and then the
\* container's IV (0) and the place in the whole stream count.
Sealed(p) == [start |-> p.start, len |-> p.len, blocks |-> FinishBlockCRCs(p.crcs),
              nonce |-> IF format = "stream" THEN Len(frags) + 1 ELSE 0]

\* What the encryption of the byte at place b of fragment f used.
Keystream(f, b) ==
  IF f.nonce # 0 THEN <<f.nonce, b - f.start - 1>> ELSE <<0, b - 1>>

\* V4StreamWriter.Write, one round of its loop: a segment is sealed as soon
\* as it is full.
StreamWrite(n) ==
  /\ format = "stream"
  /\ LET p == IF cur = NoPiece THEN NewPiece ELSE cur IN
     /\ n <= SegSize - p.len
     /\ IF p.len + n = SegSize
        THEN frags' = Append(frags, Sealed([p EXCEPT !.len = @ + n])) /\ cur' = NoPiece
        ELSE cur' = [p EXCEPT !.len = @ + n] /\ UNCHANGED frags
  /\ written' = written + n

\* writeSingleFragmentStream, writeFragmentStream: BeginFragment, the data
\* in the pieces they arrive in, FinishFragment.
BeginFragment ==
  /\ format = "single" /\ cur = NoPiece /\ Len(frags) < MaxPieces
  /\ cur' = NewPiece
  /\ UNCHANGED <<frags, written>>

WriteFragmentData(n) ==
  /\ format = "single" /\ cur # NoPiece
  /\ cur' = [cur EXCEPT !.len = @ + n, !.crcs = AppendBlockCRC(@, BytesFrom(written, n))]
  /\ written' = written + n
  /\ UNCHANGED frags

FinishFragment ==
  /\ format = "single" /\ cur # NoPiece
  /\ frags' = Append(frags, Sealed(cur)) /\ cur' = NoPiece
  /\ UNCHANGED written

WriteContainer ==
  /\ rdr = "none"
  /\ \/ \E n \in 1..(MaxBytes - written) : StreamWrite(n) \/ WriteFragmentData(n)
     \/ BeginFragment \/ FinishFragment
  /\ UNCHANGED <<format, bad, readerVars>>

\* V4StreamWriter.Close seals what is open, and an empty segment when there
\* is nothing; the packer closes between two fragments.
Manifest ==
  IF format = "stream" /\ (cur # NoPiece \/ frags = <<>>)
  THEN Append(frags, Sealed(IF cur = NoPiece THEN NewPiece ELSE cur))
  ELSE frags

-----------------------------------------------------------------------------
(* The readers of fragments.                                               *)

RawByte(b) == IF b = bad THEN -b ELSE b

\* crcGuardFor: only from the start of a fragment that has a CRC.  The
\* reader of SequentialSeekableDecryptReader has it, the virtual one not.
NewGuard(f, local) ==
  [NoGuard EXCEPT !.on = rdr = "sequential" /\ local = 0 /\ f.len > 0]

\* feedBlocks: the full blocks are compared up to the first that does not match,
\* which stays there and is compared again with the next bytes.
FeedBlocks(g, f, bytes) ==
  LET fed == FullBlocks(g.acc \o bytes)
      wrong == {j \in DOMAIN fed : /\ g.block + j - 1 \in DOMAIN f.blocks
                                  /\ f.blocks[g.block + j - 1] # fed[j]}
  IN IF f.blocks = <<>> \/ bytes = <<>> THEN [guard |-> g, fails |-> FALSE]
     ELSE IF wrong = {}
     THEN [guard |-> [g EXCEPT !.acc = AfterBlocks(g.acc \o bytes), !.block = @ + Len(fed)],
           fails |-> FALSE]
     ELSE [guard |-> [g EXCEPT !.acc = fed[Min(wrong)], !.block = @ + Min(wrong) - 1],
           fails |-> TRUE]

\* The raw bytes that a stream over fragment f reads next.
RawBytes(s, n) == [i \in 1..n |-> RawByte(frags[s.frag].start + s.raw + i)]

\* A bug: only full blocks are compared, not the fragment.
GuardedByBlocks(s, n) ==
  LET f == frags[s.frag]
      g == [s.guard EXCEPT !.crc = @ \o RawBytes(s, n)]
      fed == FeedBlocks(g, f, RawBytes(s, n))
  IN IF ~s.guard.on THEN [guard |-> s.guard, fails |-> FALSE]
     ELSE [guard |-> fed.guard, fails |-> fed.fails]

\* crcGuardReader.Read after n bytes of the raw reader.
Guarded(s, n) ==
  LET f == frags[s.frag]
      g == [s.guard EXCEPT !.crc = @ \o RawBytes(s, n)]
      fed == FeedBlocks(g, f, RawBytes(s, n))
  IN IF ~s.guard.on THEN [guard |-> s.guard, fails |-> FALSE]
     ELSE [guard |-> fed.guard,
           fails |-> fed.fails \/ (s.raw + n >= f.len /\ g.crc # BytesFrom(f.start, f.len))]

\* The plaintext of the next n bytes: cipher.StreamReader with the counter
\* the stream was built at.
Decrypted(s, n) ==
  [i \in 1..n |->
     LET b == RawBytes(s, n)[i] IN
     IF b > 0 /\ Keystream(frags[s.frag], b) = <<s.nonce, s.ctr + i - 1>> THEN b ELSE Garbage]

\* A bug: the counter starts at the offset although the bytes before it are
\* discarded through the same stream.
SetupDiscardsAhead(i, l) ==
  LET f == frags[i]
      first == IF f.nonce # 0 THEN 0 ELSE f.start
      s == [frag |-> i, raw |-> l, nonce |-> f.nonce, ctr |-> first + l, guard |-> NewGuard(f, l)]
  IN IF rawSeeks \/ l = 0 THEN s ELSE [s EXCEPT !.ctr = @ + l]

\* setupFragmentAt, setupCurrentFragmentReader: the stream of fragment i
\* from local offset l.  Where the raw reader seeks, its counter is the
\* offset: in the fragment when that has a nonce, in the whole data else;
\* where it cannot seek, it starts at the fragment and discards.
Setup(i, l) ==
  LET f == frags[i]
      first == IF f.nonce # 0 THEN 0 ELSE f.start
      s == [frag |-> i, raw |-> 0, nonce |-> f.nonce, ctr |-> first, guard |-> NewGuard(f, l)]
  IN IF rawSeeks \/ l = 0
     THEN [s EXCEPT !.raw = l, !.ctr = first + l]
     ELSE [s EXCEPT !.raw = l, !.ctr = @ + l]

\* fragmentRangeIndex.find: the first fragment that ends after the offset.
TotalSize == IF frags = <<>> THEN 0 ELSE Last(frags).start + Last(frags).len
Find(o) ==
  IF o = TotalSize THEN Len(frags) + 1
  ELSE CHOOSE i \in DOMAIN frags :
         /\ frags[i].start + frags[i].len > o
         /\ \A j \in 1..(i - 1) : frags[j].start + frags[j].len <= o

\* A new reader: the manifest is read, one byte of the data may be damaged.
\* The virtual reader opens its first fragment at once and refuses an empty
\* one; GetFragmentReader may fail at any time.
Open(which, damaged) ==
  /\ rdr = "none"
  /\ format = "stream" \/ cur = NoPiece
  /\ which = "segment" => format = "stream"
  /\ Manifest # <<>>
  /\ frags' = Manifest /\ cur' = NoPiece
  /\ bad' = damaged /\ rdr' = which
  /\ rawSeeks' \in BOOLEAN
  /\ which = "virtual" => Manifest[1].len > 0
  /\ UNCHANGED <<format, written, idx, dec, off, last, passed, adrift>>

IsFragmentReader == rdr \in {"sequential", "virtual"}

\* Read without a stream: the current fragment is set up, the sequential
\* reader's from its start, the virtual one's from globalOffset.  Beyond
\* the last fragment it returns io.EOF, and where the set-up fails an error.
SetupInRead ==
  /\ IsFragmentReader /\ dec = NoStream /\ idx \in DOMAIN frags
  /\ LET l == IF rdr = "virtual" /\ off > frags[idx].start THEN off - frags[idx].start ELSE 0 IN
     /\ rdr = "virtual" => l < frags[idx].len
     /\ dec' = Setup(idx, l)
  /\ passed' = {}
  /\ UNCHANGED <<idx, off, last, adrift>>

\* Read with a stream: the raw reader gives n bytes; an error, its own or
\* the guard's, comes with the bytes.  Nothing left is its EOF: the next
\* fragment follows.
ReadStream(n) ==
  /\ IsFragmentReader /\ dec # NoStream
  /\ n <= frags[dec.frag].len - dec.raw /\ off + n <= MaxOffset
  /\ LET g == Guarded(dec, n) IN
     /\ last' = [at |-> off, bytes |-> Decrypted(dec, n), failed |-> g.fails]
     /\ off' = off + n
     /\ passed' = IF g.fails THEN passed
                  ELSE passed \cup {frags[dec.frag].start + dec.raw + i : i \in 1..n}
     /\ \/ /\ dec' = [dec EXCEPT !.raw = @ + n, !.ctr = @ + n, !.guard = g.guard]
           /\ UNCHANGED idx
        \/ /\ dec.raw + n = frags[dec.frag].len
           /\ ~g.fails
           /\ dec' = NoStream /\ idx' = idx + 1
  /\ UNCHANGED adrift

\* SequentialSeekableDecryptReader.Seek: the old stream is closed before the
\* new one is opened, and an opening that fails leaves the offset behind.
SeekSequential(o) ==
  /\ rdr = "sequential"
  /\ LET i == Find(o) IN
     \/ /\ i = Len(frags) + 1
        /\ idx' = i /\ dec' = NoStream /\ off' = o /\ adrift' = FALSE
     \/ /\ i \in DOMAIN frags
        /\ dec' = Setup(i, o - frags[i].start) /\ idx' = i /\ off' = o /\ adrift' = FALSE
     \/ /\ i \in DOMAIN frags
        /\ dec' = NoStream /\ UNCHANGED <<idx, off>>
        /\ adrift' = (idx \in DOMAIN frags /\ off # frags[idx].start)

\* VirtualSeekableDecryptReader.Seek: nothing at the same offset; the
\* offset moves first, so that a failed opening is repeated by Read.
SeekVirtual(o) ==
  /\ rdr = "virtual" /\ o # off
  /\ idx' = Find(o) /\ off' = o
  /\ \/ idx' \in DOMAIN frags /\ dec' = Setup(idx', o - frags[idx'].start)
     \/ dec' = NoStream
  /\ UNCHANGED adrift

Seek(o) ==
  /\ SeekSequential(o) \/ SeekVirtual(o)
  /\ passed' = {} /\ last' = NothingRead

-----------------------------------------------------------------------------
(* The reader of segments, each decrypted as a whole.                      *)

\* locateOffset: the segment that holds the offset.
LocateOffset(o) == Find(o)

\* decryptSegmentPayload: one keystream for all of it, from counter 0.
SegmentPlain(f) ==
  [k \in 1..f.len |-> IF Keystream(f, f.start + k) = <<f.nonce, k - 1>> THEN f.start + k ELSE Garbage]

\* ReadAt and Read, one segment of it: the segment is read and decrypted
\* again each time, and a wrong MAC gives no byte of it.
ReadSegment(n) ==
  /\ rdr = "segment" /\ off < TotalSize
  /\ LET i == LocateOffset(off) IN
     /\ n <= frags[i].start + frags[i].len - off
     /\ bad \notin PlacesOf(frags[i])
     /\ last' = [at |-> off,
                 bytes |-> [k \in 1..n |-> SegmentPlain(frags[i])[off - frags[i].start + k]],
                 failed |-> FALSE]
  /\ off' = off + n
  /\ UNCHANGED <<idx, dec, passed, adrift>>

\* SegmentSeekableReader.Seek only moves the offset.
SeekSegment(o) ==
  /\ rdr = "segment" /\ off' = o /\ last' = NothingRead
  /\ UNCHANGED <<idx, dec, passed, adrift>>

ReadContainer ==
  /\ \/ SetupInRead
     \/ \E n \in 0..MaxBytes : ReadStream(n) \/ ReadSegment(n)
     \/ \E o \in 0..TotalSize : Seek(o) \/ SeekSegment(o)
  /\ UNCHANGED <<writerVars, bad, rdr, rawSeeks>>

StreamInit ==
  /\ format \in {"stream", "single"}
  /\ frags = <<>> /\ cur = NoPiece /\ written = 0 /\ bad = 0
  /\ rdr = "none" /\ rawSeeks = TRUE /\ idx = 1 /\ dec = NoStream /\ off = 0
  /\ last = NothingRead /\ passed = {} /\ adrift = FALSE

StreamNext ==
  \/ WriteContainer
  \/ \E which \in ReaderNames, damaged \in 0..written : Open(which, damaged)
  \/ ReadContainer

StreamSpec == StreamInit /\ [][StreamNext]_streamVars

-----------------------------------------------------------------------------

\* What a reader returns for an offset is what was written there, whatever
\* the pieces it was written in, the reader, the seeks before, and the
\* failures it met: never the keystream of another place or fragment.  Only
\* the damaged byte itself comes out otherwise, and only the sequential
\* reader loses its place, after a Seek that failed, until the next one.
ReadsAreRight ==
  ~adrift => \A i \in DOMAIN last.bytes :
             last.bytes[i] = IF last.at + i = bad THEN Garbage ELSE last.at + i

\* A fragment read from its start never passes the end of a damaged block
\* without an error, nor its own end, and never fails undamaged: the blocks
\* of the writer and of the reader are the same ones, in whatever pieces
\* either saw the bytes (crcGuardReader, appendBlockCRC).
DamageIsReported ==
  dec.guard.on =>
    LET f == frags[dec.frag]
        BlockEnd == f.start + ((bad - f.start + BlockSize - 1) \div BlockSize) * BlockSize
    IN /\ bad \in passed =>
            \E b \in PlacesOf(f) \ passed : format = "single" => b <= BlockEnd
       /\ last.failed => bad \in PlacesOf(f)
=============================================================================
