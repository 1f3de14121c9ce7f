-------------------------------- MODULE Shards --------------------------------
(***************************************************************************)
(* verify_model_shards.py: a model file is read by several threads, its    *)
(* digest is taken in file order, and a local copy receives the same       *)
(* bytes.  An interrupted copy is resumed at a whole chunk; the copy and   *)
(* the downloaded file get their names when the digest is the published    *)
(* one.  A digest is modelled by the bytes it stands for, a chunk by its   *)
(* number, or by BAD if its bytes are not the published ones.              *)
(***************************************************************************)
EXTENDS Naturals, Sequences

CONSTANTS
  Chunks,          \* the number of chunks of the file
  Workers,         \* the threads of the pool
  MaxShardFaults   \* bound: interruptions and corrupted chunks, together

ASSUME ShardAssumption == {Chunks, Workers} \subseteq Nat \ {0} /\ MaxShardFaults \in Nat

BAD == 0
TORN == Chunks + 1    \* part of a chunk: what was written when the process died
PublishedFiles == [n \in 1..Chunks |-> n]

VARIABLES
  source,      \* the downloaded file
  sourceNamed,       \* whether it has its final name
  partial,     \* the local copy being made
  copied,      \* the local copy under its final name; <<>> if there is none
  shardPc,     \* "idle", "reading", "checking", "naming" or "failed"
  prefix,      \* the chunks of the partial copy that are kept
  pending,     \* the reads submitted, oldest first: [chunk, data]; TORN data is not there yet
  taken,       \* the chunks digested
  verified,    \* whether a record was written
  shardFaults  \* faults so far

shardVars == <<source, sourceNamed, partial, copied, shardPc, prefix, pending, taken, verified, shardFaults>>

Bytes == 0..(Chunks + 1)
Submitted(n) == [chunk |-> n, data |-> TORN]
AtMost(m, n) == IF m < n THEN m ELSE n

ShardTypeOK ==
  /\ source \in Seq(Bytes) /\ partial \in Seq(Bytes) /\ copied \in Seq(Bytes)
  /\ sourceNamed \in BOOLEAN /\ verified \in BOOLEAN
  /\ shardPc \in {"idle", "reading", "checking", "naming", "failed"}
  /\ prefix \in 0..Chunks /\ Len(pending) <= Workers
  /\ pending \in Seq([chunk : 1..Chunks, data : Bytes]) /\ taken \in Seq(Bytes)
  /\ shardFaults \in 0..MaxShardFaults

ShardInit ==
  /\ source \in {PublishedFiles} \union {[PublishedFiles EXCEPT ![n] = BAD] : n \in 1..Chunks}
  /\ sourceNamed = FALSE /\ partial = <<>> /\ copied = <<>> /\ shardPc = "idle" /\ prefix = 0
  /\ pending = <<>> /\ taken = <<>> /\ verified = FALSE /\ shardFaults = 0

ShardFault == shardFaults < MaxShardFaults /\ shardFaults' = shardFaults + 1

\* The whole chunks of an earlier copy are kept, the rest is cut off.
Resume ==
  LET whole == IF partial # <<>> /\ partial[Len(partial)] = TORN THEN Len(partial) - 1 ELSE Len(partial)
      first == AtMost(Workers, Chunks)
  IN /\ shardPc = "idle" /\ shardPc' = "reading"
     /\ prefix' = whole /\ partial' = SubSeq(partial, 1, whole)
     /\ taken' = <<>> /\ pending' = [n \in 1..first |-> Submitted(n)]
     /\ UNCHANGED <<source, sourceNamed, copied, verified, shardFaults>>

\* A thread finishes a read, in any order; the chunks of the prefix are read
\* from the local copy.
ReadChunk(i) ==
  /\ i \in DOMAIN pending /\ pending[i].data = TORN
  /\ LET n == pending[i].chunk
     IN pending' = [pending EXCEPT ![i].data = IF n <= prefix THEN partial[n] ELSE source[n]]
  /\ UNCHANGED <<source, sourceNamed, partial, copied, shardPc, prefix, taken, verified, shardFaults>>

\* The oldest read is digested and written; the next chunk is submitted.
\* What reaches the disk may differ.
TakeChunk ==
  LET data == pending[1].data
      following == Len(taken) + Len(pending) + 1
  IN /\ shardPc = "reading" /\ pending # <<>> /\ data # TORN
     /\ taken' = Append(taken, data)
     /\ pending' = IF following <= Chunks THEN Append(Tail(pending), Submitted(following)) ELSE Tail(pending)
     /\ shardPc' = IF pending' = <<>> THEN "checking" ELSE "reading"
     /\ IF Len(taken) < prefix THEN UNCHANGED <<partial, shardFaults>>
        ELSE \/ partial' = Append(partial, data) /\ UNCHANGED shardFaults
             \/ partial' = Append(partial, BAD) /\ ShardFault
     /\ UNCHANGED <<source, sourceNamed, copied, prefix, verified>>

\* Mutant: the copy is taken for the bytes that were digested.
TrustCopy ==
  /\ shardPc = "checking"
  /\ shardPc' = IF taken = PublishedFiles THEN "naming" ELSE "failed"
  /\ copied' = IF taken = PublishedFiles THEN partial ELSE copied
  /\ partial' = IF taken = PublishedFiles THEN <<>> ELSE partial
  /\ UNCHANGED <<source, sourceNamed, prefix, pending, taken, verified, shardFaults>>

\* The digest is compared, then that of the copy, read again from the disk.
CheckDigests ==
  /\ shardPc = "checking"
  /\ IF taken = PublishedFiles /\ partial = taken
     THEN shardPc' = "naming" /\ copied' = partial /\ partial' = <<>>
     ELSE shardPc' = "failed" /\ UNCHANGED <<copied, partial>>
  /\ UNCHANGED <<source, sourceNamed, prefix, pending, taken, verified, shardFaults>>

NameSource ==
  /\ shardPc = "naming" /\ shardPc' = "idle"
  /\ sourceNamed' = TRUE /\ verified' = TRUE
  /\ UNCHANGED <<source, partial, copied, prefix, pending, taken, shardFaults>>

\* The process is started again, after it failed or because it died; the last
\* write may be cut short.
Interrupted ==
  /\ (shardPc = "failed" /\ UNCHANGED shardFaults) \/ ShardFault
  /\ shardPc' = "idle" /\ pending' = <<>> /\ taken' = <<>> /\ prefix' = 0
  /\ \/ partial' = partial
     \/ partial # <<>> /\ partial' = [partial EXCEPT ![Len(partial)] = TORN]
  /\ UNCHANGED <<source, sourceNamed, copied, verified>>

ShardNext ==
  \/ Resume
  \/ \E i \in 1..Workers : ReadChunk(i)
  \/ TakeChunk
  \/ CheckDigests
  \/ NameSource
  \/ Interrupted

ShardSpec == ShardInit /\ [][ShardNext]_shardVars

-----------------------------------------------------------------------------
(* Properties. *)

\* What has its final name, and what is recorded as verified, is whole and is
\* what was published: through resumed copies, reads that finish in any
\* order, and a disk that does not keep what was written.
VerifiedIsWhole ==
  /\ copied \in {<<>>, PublishedFiles}
  /\ sourceNamed \/ verified => source = PublishedFiles /\ copied = PublishedFiles
=============================================================================
