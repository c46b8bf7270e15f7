--------------------------- MODULE TunnelStream ---------------------------
(***************************************************************************)
(* One direction of a pqtunnel.Conn after the handshake: Write and         *)
(* CloseWrite at one end, Read at the other, and the TCP stream of frames  *)
(* between them, which anything on the way may disturb.                    *)
(*                                                                         *)
(* The bytes of the stream are known by their position in it, so a record  *)
(* is its nonce and the range of positions it carries.  AES-GCM is what it *)
(* promises: Open returns the plaintext sealed under the expected nonce or *)
(* fails.  A frame that was altered in any way is not whole.               *)
(*                                                                         *)
(* wmu and rmu make Write, CloseWrite and Read exclusive at their ends; a  *)
(* Write of several records is several steps, as the reader may run        *)
(* between them, and no CloseWrite can come before the last of them.       *)
(***************************************************************************)
EXTENDS Naturals, Sequences

CONSTANTS
  RecordSize,   \* most plaintext bytes in a record
  MaxBytes,     \* bound on the length of the stream
  MaxFaults     \* bound on what happens to frames on the way

ASSUME StreamAssumption ==
  RecordSize \in Nat \ {0} /\ MaxBytes \in Nat /\ MaxFaults \in Nat

VARIABLES
  sent,      \* bytes that Write has reported as written
  starts,    \* history: where the record of each nonce starts, then `sent`
  wSeq,      \* Conn.wSeq
  wClosed,   \* Conn.wClosed
  wire,      \* frames on their way
  link,      \* what the sender's end of the TCP connection did last
  rSeq,      \* Conn.rSeq
  rEOF,      \* Conn.rEOF
  buffer,    \* Conn.buffer: the positions left of the record being read
  received,  \* bytes that Read has returned
  result,    \* what the latest Read returned: bytes, io.EOF or an error
  faults

writer == <<sent, starts, wSeq, wClosed>>
reader == <<rSeq, rEOF, buffer, received, result>>
vars == <<writer, wire, link, reader, faults>>

Frame == [nonce : Nat, at : Nat, len : Nat, whole : BOOLEAN]

\* The state is well formed, and no record is longer than RecordSize.
TypeOK ==
  /\ sent \in 0..MaxBytes
  /\ starts \in Seq(Nat)
  /\ wSeq \in Nat /\ wClosed \in BOOLEAN
  /\ wire \in Seq(Frame)
  /\ link \in {"up", "closed", "broken"}
  /\ rSeq \in Nat /\ rEOF \in BOOLEAN
  /\ buffer \in [at : Nat, len : 0..RecordSize]
  /\ received \in Nat
  /\ result \in {"bytes", "eof", "error"}
  /\ faults \in 0..MaxFaults

Init ==
  /\ sent = 0 /\ starts = <<0>> /\ wSeq = 0 /\ wClosed = FALSE
  /\ wire = <<>> /\ link = "up"
  /\ rSeq = 0 /\ rEOF = FALSE /\ buffer = [at |-> 0, len |-> 0]
  /\ received = 0 /\ result = "bytes"
  /\ faults = 0

-----------------------------------------------------------------------------
(* The writing end *)

\* The record of the next nonce, as writeFrame puts it on the wire.
Seal(len) == [nonce |-> wSeq, at |-> sent, len |-> len, whole |-> TRUE]

\* Mutants: the chunk is not cut to RecordSize; the counter is not advanced.
WriteUncut ==
  /\ ~wClosed /\ link = "up" /\ sent < MaxBytes
  /\ sent' = MaxBytes
  /\ starts' = Append(starts, MaxBytes)
  /\ wire' = Append(wire, Seal(MaxBytes - sent))
  /\ wSeq' = wSeq + 1
  /\ UNCHANGED <<wClosed, link, reader, faults>>
WriteSameNonce ==
  /\ ~wClosed /\ link = "up"
  /\ \E n \in 1..RecordSize :
       /\ sent + n <= MaxBytes
       /\ sent' = sent + n
       /\ starts' = Append(starts, sent + n)
       /\ wire' = Append(wire, Seal(n))
  /\ UNCHANGED <<wSeq, wClosed, link, reader, faults>>

\* One turn of the loop in Write.
WriteRecord ==
  /\ ~wClosed /\ link = "up"
  /\ \E n \in 1..RecordSize :
       /\ sent + n <= MaxBytes
       /\ sent' = sent + n
       /\ starts' = Append(starts, sent + n)
       /\ wire' = Append(wire, Seal(n))
  /\ wSeq' = wSeq + 1
  /\ UNCHANGED <<wClosed, link, reader, faults>>

\* writeFrame fails: wSeq stays, the frame may be there in part, and every later
\* write on the connection fails too.
WriteFails ==
  /\ ~wClosed /\ link = "up" /\ sent < MaxBytes
  /\ link' = "broken"
  /\ UNCHANGED <<writer, wire, reader, faults>>

\* Mutant: the end-of-stream record does not end the stream for the writer.
CloseWriteOpen ==
  /\ ~wClosed /\ Len(starts) < MaxBytes + 3
  /\ wire' = IF link = "up" THEN Append(wire, Seal(0)) ELSE wire
  /\ wSeq' = wSeq + 1
  /\ starts' = Append(starts, sent)
  /\ UNCHANGED <<wClosed, sent, link, reader, faults>>

\* The empty record that stands for the end of the stream.  The relay calls this
\* after a failed Write too; nothing reaches the wire then.
CloseWrite ==
  /\ ~wClosed /\ link # "closed"
  /\ wClosed' = TRUE
  /\ wire' = IF link = "up" THEN Append(wire, Seal(0)) ELSE wire
  /\ wSeq' = wSeq + 1
  /\ starts' = Append(starts, sent)
  /\ UNCHANGED <<sent, link, reader, faults>>

\* The end-of-stream record cannot be written, or only in part.
CloseWriteFails ==
  /\ ~wClosed /\ link = "up"
  /\ wClosed' = TRUE
  /\ link' = "broken"
  /\ wSeq' = wSeq + 1
  /\ starts' = Append(starts, sent)
  /\ UNCHANGED <<sent, wire, reader, faults>>

\* The relay is done with both directions and closes the connection.
Close ==
  /\ wClosed /\ link = "up"
  /\ link' = "closed"
  /\ UNCHANGED <<writer, wire, reader, faults>>

-----------------------------------------------------------------------------
(* The reading end *)

\* Mutant: the nonce in the record is used, whatever it is.
OpensAny(f) == f.whole

\* readRecord: the nonce is the expected one and the ciphertext authentic.
Opens(f) == f.whole /\ f.nonce = rSeq

Advance(f) == IF Opens(f) THEN rSeq + 1 ELSE rSeq

\* Read with an empty buffer.  After an error nothing stops the caller from
\* reading on.
ReadRecord ==
  /\ buffer.len = 0 /\ ~rEOF /\ wire # <<>>
  /\ LET f == Head(wire)
     IN  /\ rSeq' = Advance(f)
         /\ buffer' = IF Opens(f) THEN [at |-> f.at, len |-> f.len] ELSE buffer
         /\ rEOF' = (Opens(f) /\ f.len = 0)
         /\ result' = IF ~Opens(f) THEN "error" ELSE IF f.len = 0 THEN "eof" ELSE "bytes"
  /\ wire' = Tail(wire)
  /\ UNCHANGED <<writer, link, received, faults>>

\* The frames are used up and no more will come: between two frames io.ReadFull
\* returns io.EOF, in the middle of one io.ErrUnexpectedEOF or the reset.
ReadEnd ==
  /\ buffer.len = 0 /\ ~rEOF /\ wire = <<>>
  /\ \/ link = "closed" /\ result' = "eof"
     \/ link = "broken" /\ result' = "error"
  /\ UNCHANGED <<writer, wire, link, rSeq, rEOF, buffer, received, faults>>

\* Read copies what fits the caller's slice.
ReadBuffered ==
  /\ \E n \in 1..buffer.len :
       /\ received' = received + n
       /\ buffer' = [at |-> buffer.at + n, len |-> buffer.len - n]
  /\ result' = "bytes"
  /\ UNCHANGED <<writer, wire, link, rSeq, rEOF, faults>>

-----------------------------------------------------------------------------
(* On the way *)

Without(i) == SubSeq(wire, 1, i - 1) \o SubSeq(wire, i + 1, Len(wire))

Lost == {Without(i) : i \in 1..Len(wire)}
Repeated == {SubSeq(wire, 1, i) \o SubSeq(wire, i, Len(wire)) : i \in 1..Len(wire)}
Swapped == {[wire EXCEPT ![i] = wire[i + 1], ![i + 1] = wire[i]] : i \in 1..(Len(wire) - 1)}
Altered == {[wire EXCEPT ![i].whole = FALSE] : i \in 1..Len(wire)}

Disturb ==
  /\ faults < MaxFaults /\ faults' = faults + 1
  /\ wire' \in Lost \cup Repeated \cup Swapped \cup Altered
  /\ UNCHANGED <<writer, link, reader>>

\* The sending process dies: what the kernel has is sent, then a FIN.
SenderDies ==
  /\ faults < MaxFaults /\ faults' = faults + 1
  /\ link = "up" /\ link' = "closed"
  /\ UNCHANGED <<writer, wire, reader>>

-----------------------------------------------------------------------------

Read == ReadRecord \/ ReadEnd \/ ReadBuffered

Next ==
  \/ WriteRecord \/ WriteFails \/ CloseWrite \/ CloseWriteFails \/ Close
  \/ Read \/ Disturb \/ SenderDies

\* The relay's io.Copy keeps reading.  Nothing makes the writer write.
Spec == Init /\ [][Next]_vars /\ WF_vars(Read)

-----------------------------------------------------------------------------
(***************************************************************************)
(* Properties                                                              *)
(***************************************************************************)

\* What conn.go says of its counters: a reordered, duplicated, dropped or altered
\* record is never accepted in place of another.  The bytes Read returns are those
\* Write was given, in order and without a gap, even by a caller that reads on
\* after errors.
InOrder ==
  /\ buffer.len > 0 => buffer.at = received
  /\ received + buffer.len <= sent

\* The end-of-stream record cannot be lost or come early: whoever has read it has
\* read the whole stream, and the other end has said it is over.
MarkerEndsStream == rEOF => wClosed /\ received = sent

\* A half-close reaches the peer application: undisturbed, the reader gets the whole
\* stream and its end after a CloseWrite, even if the connection is closed after it.
HalfCloseArrives ==
  wClosed ~> (rEOF /\ received = sent) \/ faults > 0 \/ link = "broken"

Promise == INSTANCE HalfCloseStream WITH
  sent <- sent, delivered <- received, closed <- wClosed, ended <- rEOF

\* Records, counters and the empty record make a stream with a half-close of the
\* frames, whatever happens to them: this is what io.Copy and CloseWrite in relay need.
ImplementsStream == Promise!Spec

\* What conn.go says of the end of the stream: io.EOF is the authenticated empty
\* record that CloseWrite wrote.
EofIsMarker == result = "eof" => rEOF

=============================================================================
