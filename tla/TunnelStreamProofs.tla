------------------------ MODULE TunnelStreamProofs ------------------------
(***************************************************************************)
(* InOrder and MarkerEndsStream for every record size, stream length and   *)
(* number of disturbed frames.                                             *)
(*                                                                         *)
(* The history `starts` ties the two ends together: a whole frame carries  *)
(* what was sealed under its nonce, wherever it is on the wire (Genuine),  *)
(* and the reader has taken exactly the records below rSeq (Reader).       *)
(***************************************************************************)
EXTENDS TunnelStream, SequenceTheorems, TLAPS

\* One entry per nonce used, then the length of the stream; only the record that
\* ends the stream is empty.
Writer ==
  /\ Len(starts) = wSeq + 1
  /\ starts[wSeq + 1] = sent
  /\ \A i \in 1..wSeq : starts[i] <= starts[i + 1]
  /\ \A i \in 1..wSeq : starts[i] <= sent

GenuineFrame(f) ==
  f.whole =>
    /\ f.nonce < wSeq
    /\ f.at = starts[f.nonce + 1]
    /\ f.at + f.len = starts[f.nonce + 2]
    /\ f.len <= RecordSize
    /\ f.len = 0 => wClosed /\ f.nonce + 1 = wSeq

Genuine == \A i \in 1..Len(wire) : GenuineFrame(wire[i])

Reader ==
  /\ rSeq <= wSeq
  /\ received + buffer.len = starts[rSeq + 1]
  /\ buffer.len > 0 => buffer.at = received
  /\ rEOF => wClosed /\ rSeq = wSeq /\ buffer.len = 0

IInv == TypeOK /\ Writer /\ Genuine /\ Reader

LEMMA InitIInv == Init => IInv
<1> SUFFICES ASSUME Init PROVE IInv
  OBVIOUS
<1>1. starts = <<0>> /\ Len(starts) = 1 /\ starts[1] = 0 /\ starts \in Seq(Nat)
  BY DEF Init
<1>2. wire = <<>> /\ wire \in Seq(Frame) /\ buffer \in [at : Nat, len : 0..RecordSize]
  BY StreamAssumption DEF Init
<1>3. TypeOK
  <2>1. sent \in 0..MaxBytes /\ faults \in 0..MaxFaults /\ {wSeq, rSeq, received} \subseteq Nat
    BY StreamAssumption DEF Init
  <2>2. {wClosed, rEOF} \subseteq BOOLEAN
        /\ link \in {"up", "closed", "broken"} /\ result \in {"bytes", "eof", "error"}
    BY DEF Init
  <2> QED BY <1>1, <1>2, <2>1, <2>2 DEF TypeOK
<1>4. Writer /\ Reader
  BY <1>1 DEF Init, Writer, Reader
<1>5. Genuine
  BY <1>2 DEF Genuine
<1> QED BY <1>3, <1>4, <1>5 DEF IInv

-----------------------------------------------------------------------------

\* Both writes: a record of n bytes takes the next nonce, whether its frame gets
\* on the wire or not.
Seals(n) ==
  /\ ~wClosed /\ sent + n <= MaxBytes
  /\ sent' = sent + n
  /\ starts' = Append(starts, sent + n)
  /\ wSeq' = wSeq + 1
  /\ wire' = wire \/ wire' = Append(wire, Seal(n))
  /\ wClosed' \in BOOLEAN /\ (n = 0 => wClosed')
  /\ link' \in {"up", "closed", "broken"}
  /\ UNCHANGED <<reader, faults>>

LEMMA SealIInv ==
  ASSUME IInv, NEW n \in 0..RecordSize, Seals(n)
  PROVE  IInv'
<1>0. /\ wSeq \in Nat /\ wSeq' = wSeq + 1 /\ n \in Nat
      /\ sent \in Nat /\ sent' = sent + n /\ sent' \in 0..MaxBytes
      /\ starts \in Seq(Nat) /\ Len(starts) = wSeq + 1 /\ starts[wSeq + 1] = sent
  BY StreamAssumption DEF IInv, TypeOK, Writer, Seals
<1>1. /\ starts' \in Seq(Nat) /\ Len(starts') = wSeq + 2
      /\ starts'[wSeq + 2] = sent'
      /\ \A i \in 1..(wSeq + 1) : starts'[i] = starts[i]
  <2>1. starts' = Append(starts, sent') /\ sent' \in Nat
    BY <1>0 DEF Seals
  <2>2. /\ Append(starts, sent') \in Seq(Nat)
        /\ Len(Append(starts, sent')) = Len(starts) + 1
        /\ \A i \in 1..Len(starts) : Append(starts, sent')[i] = starts[i]
        /\ Append(starts, sent')[Len(starts) + 1] = sent'
    BY <1>0, <2>1, AppendProperties
  <2>3. Len(starts) + 1 = wSeq + 2
    BY <1>0
  <2> QED BY <1>0, <2>1, <2>2, <2>3
<1>2. /\ wire' \in Seq(Frame)
      /\ \A i \in 1..Len(wire') : (i \in 1..Len(wire) /\ wire'[i] = wire[i]) \/ wire'[i] = Seal(n)
  <2>1. Seal(n) \in Frame /\ wire \in Seq(Frame)
    BY <1>0 DEF Seal, Frame, IInv, TypeOK
  <2>2. CASE wire' = wire
    BY <2>1, <2>2
  <2>3. CASE wire' = Append(wire, Seal(n))
    BY <2>1, <2>3, AppendProperties
  <2> QED BY <2>2, <2>3 DEF Seals
<1>3. TypeOK'
  BY <1>0, <1>1, <1>2 DEF IInv, TypeOK, Seals, reader
<1>4. Writer'
  <2>1. ASSUME NEW i \in 1..(wSeq + 1)
        PROVE  starts'[i] <= starts'[i + 1] /\ starts'[i] <= sent'
    <3>1. CASE i \in 1..wSeq
      <4>1. starts'[i] = starts[i] /\ starts'[i + 1] = starts[i + 1]
        BY <1>0, <1>1, <3>1
      <4>2. starts[i] \in Nat /\ starts[i] <= starts[i + 1] /\ starts[i] <= sent
        BY <1>0, <3>1 DEF IInv, Writer
      <4> QED BY <1>0, <4>1, <4>2
    <3>2. CASE i = wSeq + 1
      <4>1. starts'[i] = sent /\ starts'[i + 1] = sent'
        BY <1>0, <1>1, <3>2
      <4> QED BY <1>0, <4>1
    <3> QED BY <1>0, <3>1, <3>2
  <2>2. Len(starts') = wSeq' + 1 /\ starts'[wSeq' + 1] = sent'
    BY <1>0, <1>1
  <2> QED BY <1>0, <2>1, <2>2 DEF Writer
<1>5. Genuine'
  <2> SUFFICES ASSUME NEW i \in 1..Len(wire')
               PROVE  GenuineFrame(wire[i])'
    BY DEF Genuine
  <2>1. CASE i \in 1..Len(wire) /\ wire'[i] = wire[i] /\ wire[i].whole
    <3>1. /\ wire[i].nonce \in Nat /\ wire[i].nonce < wSeq
          /\ wire[i].at = starts[wire[i].nonce + 1]
          /\ wire[i].at + wire[i].len = starts[wire[i].nonce + 2]
          /\ wire[i].len <= RecordSize /\ wire[i].len # 0
      <4>1. GenuineFrame(wire[i]) /\ ~wClosed
        BY <2>1 DEF IInv, Genuine, Seals
      <4>2. wire[i] \in Frame
        BY <2>1 DEF IInv, TypeOK
      <4> QED BY <2>1, <4>1, <4>2 DEF Frame, GenuineFrame
    <3>2. /\ starts'[wire[i].nonce + 1] = starts[wire[i].nonce + 1]
          /\ starts'[wire[i].nonce + 2] = starts[wire[i].nonce + 2]
      <4>1. \A k \in Nat : k < wSeq => k + 1 \in 1..(wSeq + 1) /\ k + 2 \in 1..(wSeq + 1)
        BY <1>0
      <4> QED BY <1>1, <3>1, <4>1
    <3>3. wire[i].nonce < wSeq'
      BY <1>0, <3>1
    <3> QED BY <2>1, <3>1, <3>2, <3>3 DEF GenuineFrame
  <2>2. CASE wire'[i] = Seal(n)
    <3>1. wire'[i].nonce = wSeq /\ wire'[i].at = sent /\ wire'[i].len = n
      BY <2>2 DEF Seal
    <3>2. starts'[wSeq + 1] = sent
      BY <1>0, <1>1
    <3>3. n <= RecordSize /\ (n = 0 => wClosed')
      BY StreamAssumption DEF Seals
    <3> QED BY <1>0, <1>1, <3>1, <3>2, <3>3 DEF GenuineFrame
  <2>3. CASE ~wire'[i].whole
    BY <2>3 DEF GenuineFrame
  <2> QED BY <1>2, <2>1, <2>2, <2>3
<1>6. Reader'
  <2>1. rSeq \in Nat /\ rSeq <= wSeq /\ ~rEOF
    BY DEF IInv, TypeOK, Reader, Seals
  <2>2. starts'[rSeq + 1] = starts[rSeq + 1]
    BY <1>0, <1>1, <2>1
  <2> QED BY <1>0, <2>1, <2>2 DEF IInv, Reader, Seals, reader
<1> QED BY <1>3, <1>4, <1>5, <1>6 DEF IInv

LEMMA WriterIInv ==
  ASSUME IInv, WriteRecord \/ CloseWrite \/ CloseWriteFails
  PROVE  IInv'
<1>0. sent \in 0..MaxBytes /\ sent + 0 = sent /\ 0 \in 0..RecordSize /\ MaxBytes \in Nat
  BY StreamAssumption DEF IInv, TypeOK
<1>1. CASE WriteRecord
  <2>1. PICK n \in 1..RecordSize :
          /\ sent + n <= MaxBytes /\ sent' = sent + n
          /\ starts' = Append(starts, sent + n) /\ wire' = Append(wire, Seal(n))
    BY <1>1 DEF WriteRecord
  <2>2. n \in 0..RecordSize /\ n # 0
    BY StreamAssumption
  <2>3. Seals(n)
    BY <1>1, <2>1, <2>2 DEF Seals, WriteRecord, IInv, TypeOK
  <2> QED BY <2>2, <2>3, SealIInv
<1>2. CASE CloseWrite
  <2>1. Seals(0)
    BY <1>0, <1>2 DEF Seals, CloseWrite, IInv, TypeOK
  <2> QED BY <1>0, <2>1, SealIInv
<1>3. CASE CloseWriteFails
  <2>1. Seals(0)
    BY <1>0, <1>3 DEF Seals, CloseWriteFails, IInv, TypeOK
  <2> QED BY <1>0, <2>1, SealIInv
<1> QED BY <1>1, <1>2, <1>3

-----------------------------------------------------------------------------

\* What the way makes of the frames: every whole one was there before.
LEMMA WholeFramesWereSent ==
  ASSUME wire \in Seq(Frame), Disturb
  PROVE  /\ wire' \in Seq(Frame)
         /\ \A i \in 1..Len(wire') :
              wire'[i].whole => \E j \in 1..Len(wire) : wire'[i] = wire[j]
<1>0. ASSUME NEW m \in 0..Len(wire), NEW n \in 1..(Len(wire) + 1),
             wire' = SubSeq(wire, 1, m) \o SubSeq(wire, n, Len(wire))
      PROVE  /\ wire' \in Seq(Frame)
             /\ \A i \in 1..Len(wire') : \E j \in 1..Len(wire) : wire'[i] = wire[j]
  <2> DEFINE first == SubSeq(wire, 1, m)
             rest == SubSeq(wire, n, Len(wire))
  <2>0. /\ m \in Int /\ n \in Int /\ Len(wire) \in Nat /\ 1 \in Int
        /\ \A i \in 1..Len(wire) : wire[i] \in Frame
    OBVIOUS
  <2>1. /\ first \in Seq(Frame) /\ Len(first) = m
        /\ \A i \in 1..m : first[i] = wire[i]
    OBVIOUS
  <2>2. /\ rest \in Seq(Frame) /\ Len(rest) = Len(wire) - n + 1
        /\ \A i \in 1..(Len(wire) - n + 1) : rest[i] = wire[n + i - 1]
    OBVIOUS
  <2> HIDE DEF first, rest
  <2>3. wire' = first \o rest
    BY <1>0 DEF first, rest
  <2>4. /\ wire' \in Seq(Frame) /\ Len(wire') = Len(first) + Len(rest)
        /\ \A i \in 1..(Len(first) + Len(rest)) :
             wire'[i] = IF i <= Len(first) THEN first[i] ELSE rest[i - Len(first)]
    BY <2>1, <2>2, <2>3, ConcatProperties
  <2>5. ASSUME NEW i \in 1..Len(wire')
        PROVE  \E j \in 1..Len(wire) : wire'[i] = wire[j]
    <3>1. CASE i <= m
      <4>1. wire'[i] = wire[i] /\ i \in 1..Len(wire)
        BY <2>0, <2>1, <2>2, <2>4, <3>1
      <4> QED BY <4>1
    <3>2. CASE i > m
      <4>1. wire'[i] = rest[i - m] /\ i - m \in 1..(Len(wire) - n + 1)
        BY <2>0, <2>1, <2>2, <2>4, <3>2
      <4>2. wire'[i] = wire[n + (i - m) - 1] /\ n + (i - m) - 1 \in 1..Len(wire)
        BY <2>0, <2>2, <4>1
      <4> QED BY <4>2
    <3> QED BY <2>0, <3>1, <3>2
  <2> QED BY <2>4, <2>5
<1>1. CASE wire' \in Lost
  <2>1. PICK k \in 1..Len(wire) : wire' = SubSeq(wire, 1, k - 1) \o SubSeq(wire, k + 1, Len(wire))
    BY <1>1 DEF Lost, Without
  <2>2. k - 1 \in 0..Len(wire) /\ k + 1 \in 1..(Len(wire) + 1)
    OBVIOUS
  <2> QED BY <1>0, <2>1, <2>2
<1>2. CASE wire' \in Repeated
  <2>1. PICK k \in 1..Len(wire) : wire' = SubSeq(wire, 1, k) \o SubSeq(wire, k, Len(wire))
    BY <1>2 DEF Repeated
  <2>2. k \in 0..Len(wire) /\ k \in 1..(Len(wire) + 1)
    OBVIOUS
  <2> QED BY <1>0, <2>1, <2>2
<1>3. CASE wire' \in Swapped
  <2>1. PICK k \in 1..(Len(wire) - 1) :
          wire' = [wire EXCEPT ![k] = wire[k + 1], ![k + 1] = wire[k]]
    BY <1>3 DEF Swapped
  <2>2. k \in 1..Len(wire) /\ k + 1 \in 1..Len(wire) /\ Len(wire') = Len(wire)
    BY <2>1
  <2> QED BY <2>1, <2>2
<1>4. CASE wire' \in Altered
  <2>1. PICK k \in 1..Len(wire) : wire' = [wire EXCEPT ![k].whole = FALSE]
    BY <1>4 DEF Altered
  <2>2. Len(wire') = Len(wire) /\ wire[k] \in Frame
    BY <2>1
  <2>3. [wire[k] EXCEPT !.whole = FALSE] \in Frame /\ ~[wire[k] EXCEPT !.whole = FALSE].whole
    BY <2>2 DEF Frame
  <2>4. wire' = [wire EXCEPT ![k] = [wire[k] EXCEPT !.whole = FALSE]]
    BY <2>1
  <2> QED BY <2>2, <2>3, <2>4
<1> QED BY <1>1, <1>2, <1>3, <1>4 DEF Disturb

LEMMA DisturbIInv == IInv /\ Disturb => IInv'
<1> SUFFICES ASSUME IInv, Disturb PROVE IInv'
  OBVIOUS
<1>0. /\ faults' \in 0..MaxFaults
      /\ UNCHANGED <<sent, starts, wSeq, wClosed, link, rSeq, rEOF, buffer, received, result>>
  BY StreamAssumption DEF Disturb, writer, reader, IInv, TypeOK
<1>1. wire' \in Seq(Frame)
      /\ \A i \in 1..Len(wire') : wire'[i].whole => \E j \in 1..Len(wire) : wire'[i] = wire[j]
  BY WholeFramesWereSent DEF IInv, TypeOK
<1>2. TypeOK' /\ Writer' /\ Reader'
  BY <1>0, <1>1 DEF IInv, TypeOK, Writer, Reader
<1>3. Genuine'
  <2> SUFFICES ASSUME NEW i \in 1..Len(wire'), wire'[i].whole
               PROVE  GenuineFrame(wire[i])'
    BY DEF Genuine, GenuineFrame
  <2>1. PICK j \in 1..Len(wire) : wire'[i] = wire[j]
    BY <1>1
  <2>2. GenuineFrame(wire[j]) /\ wire[j].whole
    BY <2>1 DEF IInv, Genuine
  <2> QED BY <1>0, <2>1, <2>2 DEF GenuineFrame
<1> QED BY <1>2, <1>3 DEF IInv

LEMMA ReadRecordIInv == IInv /\ ReadRecord => IInv'
<1> SUFFICES ASSUME IInv, ReadRecord PROVE IInv'
  OBVIOUS
<1> DEFINE f == Head(wire)
<1>0. /\ f \in Frame /\ f = wire[1] /\ 1 \in 1..Len(wire)
      /\ UNCHANGED <<sent, starts, wSeq, wClosed, link, received, faults>>
      /\ buffer.len = 0 /\ ~rEOF
  BY DEF IInv, TypeOK, ReadRecord, writer
<1>1. GenuineFrame(f)
  BY <1>0 DEF IInv, Genuine
<1>2. wire' \in Seq(Frame) /\ Len(wire') = Len(wire) - 1
      /\ \A i \in 1..Len(wire') : wire'[i] = wire[i + 1]
  BY <1>0, HeadTailProperties DEF IInv, TypeOK, ReadRecord
<1>3. Genuine'
  <2> SUFFICES ASSUME NEW i \in 1..Len(wire')
               PROVE  GenuineFrame(wire[i])'
    BY DEF Genuine
  <2>1. wire'[i] = wire[i + 1] /\ i + 1 \in 1..Len(wire)
    BY <1>2 DEF IInv, TypeOK
  <2>2. GenuineFrame(wire[i + 1])
    BY <2>1 DEF IInv, Genuine
  <2> QED BY <1>0, <2>1, <2>2 DEF GenuineFrame
<1>4. Writer'
  BY <1>0 DEF IInv, Writer
<1>5. received = starts[rSeq + 1] /\ rSeq \in Nat /\ received \in Nat
  BY <1>0 DEF IInv, TypeOK, Reader
<1>6. CASE Opens(f)
  <2>1. /\ f.nonce = rSeq /\ rSeq < wSeq /\ f.at = received
        /\ f.at + f.len = starts[rSeq + 2] /\ f.len <= RecordSize
        /\ (f.len = 0 => wClosed /\ rSeq + 1 = wSeq)
    BY <1>1, <1>5, <1>6 DEF Opens, GenuineFrame
  <2>2. /\ rSeq' = rSeq + 1 /\ buffer' = [at |-> f.at, len |-> f.len]
        /\ rEOF' = (f.len = 0) /\ result' \in {"bytes", "eof", "error"}
    BY <1>6 DEF ReadRecord, Advance
  <2>3. f.at \in Nat /\ f.len \in 0..RecordSize
    BY <1>0, <2>1, StreamAssumption DEF Frame
  <2>4. /\ buffer' \in [at : Nat, len : 0..RecordSize]
        /\ buffer'.at = received /\ buffer'.len = f.len
    BY <2>1, <2>2, <2>3
  <2>5. TypeOK'
    BY <1>0, <1>2, <1>5, <2>2, <2>4 DEF IInv, TypeOK
  <2>6. Reader'
    <3>1. rSeq' <= wSeq' /\ received' + buffer'.len = starts'[rSeq' + 1]
      BY <1>0, <1>5, <2>1, <2>2, <2>4 DEF IInv, TypeOK
    <3>2. rEOF' => wClosed' /\ rSeq' = wSeq' /\ buffer'.len = 0
      BY <1>0, <2>1, <2>2, <2>4
    <3> QED BY <1>0, <2>4, <3>1, <3>2 DEF Reader
  <2> QED BY <1>3, <1>4, <2>5, <2>6 DEF IInv
<1>7. CASE ~Opens(f)
  <2>1. rSeq' = rSeq /\ buffer' = buffer /\ rEOF' = FALSE /\ result' = "error"
    BY <1>7 DEF ReadRecord, Advance
  <2>2. TypeOK' /\ Reader'
    BY <1>0, <1>2, <2>1 DEF IInv, TypeOK, Reader
  <2> QED BY <1>3, <1>4, <2>2 DEF IInv
<1> QED BY <1>6, <1>7

LEMMA StepIInv == IInv /\ [Next]_vars => IInv'
<1> SUFFICES ASSUME IInv, [Next]_vars PROVE IInv'
  OBVIOUS
<1>1. CASE WriteRecord \/ CloseWrite \/ CloseWriteFails
  BY <1>1, WriterIInv
<1>2. CASE WriteFails \/ Close \/ SenderDies
  <2>1. link' \in {"up", "closed", "broken"} /\ faults' \in 0..MaxFaults
        /\ UNCHANGED <<sent, starts, wSeq, wClosed, wire, rSeq, rEOF, buffer, received, result>>
    BY <1>2, StreamAssumption DEF WriteFails, Close, SenderDies, writer, reader, IInv, TypeOK
  <2>2. TypeOK' /\ Writer' /\ Reader'
    BY <2>1 DEF IInv, TypeOK, Writer, Reader
  <2>3. Genuine'
    BY <2>1 DEF IInv, Genuine, GenuineFrame
  <2> QED BY <2>2, <2>3 DEF IInv
<1>3. CASE ReadRecord
  BY <1>3, ReadRecordIInv
<1>4. CASE ReadEnd
  <2>1. result' \in {"bytes", "eof", "error"}
        /\ UNCHANGED <<sent, starts, wSeq, wClosed, wire, link, rSeq, rEOF, buffer, received, faults>>
    BY <1>4 DEF ReadEnd, writer
  <2>2. TypeOK' /\ Writer' /\ Reader'
    BY <2>1 DEF IInv, TypeOK, Writer, Reader
  <2>3. Genuine'
    BY <2>1 DEF IInv, Genuine, GenuineFrame
  <2> QED BY <2>2, <2>3 DEF IInv
<1>5. CASE ReadBuffered
  <2>1. PICK n \in 1..buffer.len :
          received' = received + n /\ buffer' = [at |-> buffer.at + n, len |-> buffer.len - n]
    BY <1>5 DEF ReadBuffered
  <2>2. TypeOK'
    BY <1>5, <2>1, StreamAssumption DEF ReadBuffered, IInv, TypeOK, writer
  <2>3. Reader'
    <3>1. /\ buffer'.at = buffer.at + n /\ buffer'.len = buffer.len - n
          /\ buffer.at \in Nat /\ buffer.len \in Nat /\ received \in Nat
      BY <2>1, StreamAssumption DEF IInv, TypeOK
    <3>2. buffer.len > 0 /\ buffer.at = received /\ ~rEOF
      BY <3>1 DEF IInv, Reader
    <3>3. received' + buffer'.len = received + buffer.len
          /\ (buffer'.len > 0 => buffer'.at = received')
      BY <2>1, <3>1, <3>2
    <3> QED BY <1>5, <3>2, <3>3 DEF ReadBuffered, IInv, Reader, writer
  <2>4. Writer' /\ Genuine'
    BY <1>5 DEF ReadBuffered, IInv, Writer, Genuine, GenuineFrame, writer
  <2> QED BY <2>2, <2>3, <2>4 DEF IInv
<1>6. CASE Disturb
  BY <1>6, DisturbIInv
<1>7. CASE UNCHANGED vars
  BY <1>7 DEF IInv, TypeOK, Writer, Genuine, GenuineFrame, Reader, vars, writer, reader
<1> QED BY <1>1, <1>2, <1>3, <1>4, <1>5, <1>6, <1>7 DEF Next, Read

LEMMA Inductive == Spec => []IInv
  BY InitIInv, StepIInv, PTL DEF Spec

LEMMA Ends == IInv => InOrder /\ MarkerEndsStream
<1> SUFFICES ASSUME IInv PROVE InOrder /\ MarkerEndsStream
  OBVIOUS
<1>1. starts[rSeq + 1] <= sent
  BY DEF IInv, TypeOK, Writer, Reader
<1>2. InOrder
  BY <1>1 DEF IInv, TypeOK, Reader, InOrder
<1>3. MarkerEndsStream
  BY DEF IInv, TypeOK, Writer, Reader, MarkerEndsStream
<1> QED BY <1>2, <1>3

-----------------------------------------------------------------------------

\* The state of both ends stays well formed, and no record outgrows RecordSize.
THEOREM TypeCorrect == Spec => []TypeOK
  BY Inductive, PTL DEF IInv

\* The bytes Read returns are the bytes given to Write, in order and without a gap,
\* whatever is lost, repeated, swapped or altered on the way.
THEOREM ReadsInOrder == Spec => []InOrder
  BY Inductive, Ends, PTL

\* Whoever has read the end-of-stream record has read the whole stream.
THEOREM MarkerIsLast == Spec => []MarkerEndsStream
  BY Inductive, Ends, PTL

-----------------------------------------------------------------------------

LEMMA InitPromise == Init => Promise!Init
  BY DEF Init, Promise!Init

LEMMA StepPromise ==
  IInv /\ IInv' /\ [Next]_vars
    => [Promise!Send \/ Promise!Deliver \/ Promise!CloseWrite \/ Promise!End]_(Promise!vars)
<1> SUFFICES ASSUME IInv, IInv', [Next]_vars
             PROVE  [Promise!Send \/ Promise!Deliver \/ Promise!CloseWrite \/ Promise!End]_(Promise!vars)
  OBVIOUS
<1>0. sent \in Nat /\ received \in Nat /\ sent' \in Nat /\ received' \in Nat
  BY StreamAssumption DEF IInv, TypeOK
<1>00. InOrder' /\ MarkerEndsStream'
  BY Ends, PTL
<1>1. CASE WriteRecord
  <2>1. PICK n \in 1..RecordSize : sent' = sent + n
    BY <1>1 DEF WriteRecord
  <2>2. sent' > sent
    BY <1>0, <2>1, StreamAssumption
  <2>3. Promise!Send
    BY <1>0, <1>1, <2>2 DEF WriteRecord, Promise!Send, reader
  <2> QED BY <2>3
<1>2. CASE CloseWrite \/ CloseWriteFails
  <2>1. Promise!CloseWrite
    BY <1>2 DEF CloseWrite, CloseWriteFails, Promise!CloseWrite, reader
  <2> QED BY <2>1
<1>3. CASE ReadRecord
  <2>1. UNCHANGED <<sent, wClosed, received>> /\ ~rEOF /\ rEOF' \in BOOLEAN
    BY <1>3 DEF ReadRecord, writer
  <2>2. CASE rEOF'
    <3>1. wClosed' /\ received' = sent'
      BY <1>00, <2>2 DEF MarkerEndsStream
    <3>2. Promise!End
      BY <2>1, <2>2, <3>1 DEF Promise!End
    <3> QED BY <3>2
  <2>3. CASE ~rEOF'
    <3>1. rEOF \in BOOLEAN
      BY DEF IInv, TypeOK
    <3>2. rEOF' = rEOF
      BY <2>1, <2>3, <3>1
    <3> QED BY <2>1, <3>2 DEF Promise!vars
  <2> QED BY <2>2, <2>3
<1>4. CASE ReadBuffered
  <2>1. PICK n \in 1..buffer.len :
          received' = received + n /\ buffer' = [at |-> buffer.at + n, len |-> buffer.len - n]
    BY <1>4 DEF ReadBuffered
  <2>2. UNCHANGED <<sent, wClosed, rEOF>> /\ buffer.len \in Nat
    BY <1>4, StreamAssumption DEF ReadBuffered, writer, IInv, TypeOK
  <2>3. ~rEOF
    BY <2>1, <2>2 DEF IInv, Reader
  <2>4. received' \in (received + 1)..sent
    <3>1. received' + buffer'.len <= sent' /\ buffer'.len \in Nat
      BY <1>00, StreamAssumption DEF IInv, TypeOK, InOrder
    <3> QED BY <1>0, <2>1, <2>2, <3>1
  <2>5. Promise!Deliver
    BY <2>2, <2>3, <2>4 DEF Promise!Deliver
  <2> QED BY <2>5
<1>5. CASE WriteFails \/ Close \/ ReadEnd \/ Disturb \/ SenderDies \/ UNCHANGED vars
  <2>1. UNCHANGED <<sent, wClosed, received, rEOF>>
    BY <1>5 DEF WriteFails, Close, ReadEnd, Disturb, SenderDies, vars, writer, reader
  <2> QED BY <2>1 DEF Promise!vars
<1> QED BY <1>1, <1>2, <1>3, <1>4, <1>5 DEF Next, Read

\* A direction of the tunnel is a stream with a half-close, for every record size and
\* any number of disturbed frames.
THEOREM Implements == Spec => ImplementsStream
<1>1. Spec => [][Next]_vars /\ Init
  BY PTL DEF Spec
<1> QED
  BY <1>1, Inductive, InitPromise, StepPromise, PTL DEF ImplementsStream, Promise!Spec

=============================================================================
