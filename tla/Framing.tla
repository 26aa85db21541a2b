------------------------------ MODULE Framing ------------------------------
(***************************************************************************)
(* The log file as bytes (internal/wal/record.go, replay.go), in units     *)
(* coarser than a byte.  A record is a header of two units and a payload.  *)
(* The first unit of the header is what the header checksum covers, length *)
(* and type, with that checksum; the second is the record checksum, which  *)
(* covers the whole record.  A unit is damaged or not, and a checksum      *)
(* always notices.  A record of unknown type or over MaxRecordSize is      *)
(* never written and is left out.                                          *)
(***************************************************************************)
EXTENDS Integers, Sequences

HeaderSize == 2

\* A message's record is a number; these are the queue's configuration and the
\* record the corruption lab begins to write.
Meta == 0
Fragment == -1

\* Payload units.  The lab's record has as many as it takes for the fifth
\* fragment in a row to complete the first, as it does with 64 payload bytes
\* and fragments of HeaderSize + 3.
PayloadLen(r) == CASE r = Meta -> 2 [] r = Fragment -> 12 [] OTHER -> 1

\* wal.Encode.
Encode(r) == [i \in 1 .. HeaderSize + PayloadLen(r) |->
                 [rec |-> r, part |-> i, bad |-> FALSE]]

Clean(valid) == [corrupt |-> FALSE, torn |-> FALSE, valid |-> valid, recs |-> <<>>]
Torn(valid) == [Clean(valid) EXCEPT !.torn = TRUE]
Corrupt(off) == [Clean(off) EXCEPT !.corrupt = TRUE]

\* Faulty: the length is believed before the header checksum is looked at.
HeaderOKUnchecked(u) == u.part = 1

HeaderOK(u) == u.part = 1 /\ ~u.bad

\* The length field: damaged, it is taken to run past the end of any file.
Length(u) == IF u.bad THEN 1000 ELSE PayloadLen(u.rec)

\* Replay, from each offset on: what it hands over and how it ends.  `valid` is
\* the verified length, or the offset a CorruptionError names.
Replay(f) ==
    LET walk[off \in 0 .. Len(f)] ==
          LET remaining == Len(f) - off
              r == f[off + 1].rec
              end == off + HeaderSize + Length(f[off + 1])
              rest == walk[end]
          IN CASE remaining = 0 -> Clean(off)
               [] remaining \in 1 .. HeaderSize - 1 -> Torn(off)
               [] remaining >= HeaderSize /\ ~HeaderOK(f[off + 1]) -> Corrupt(off)
               [] remaining >= HeaderSize /\ HeaderOK(f[off + 1]) ->
                    IF end > Len(f) THEN Torn(off)
                    ELSE IF SubSeq(f, off + 1, end) # Encode(r) THEN Corrupt(off)
                    ELSE [rest EXCEPT !.recs = <<r>> \o @]
    IN walk[0]

\* The records Replay hands over.
Records(f) == {Replay(f).recs[i] : i \in 1 .. Len(Replay(f).recs)}
=============================================================================
