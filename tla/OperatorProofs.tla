--------------------------- MODULE OperatorProofs ---------------------------
(***************************************************************************)
(* Proofs about a server and its operator: what Replay makes of a log that *)
(* was cut or damaged, what a server that starts has in its queues, the    *)
(* explanations of the corruption lab, and that the lab and repair never   *)
(* change a log under a live server or without a copy.                     *)
(***************************************************************************)
EXTENDS Operator, WellFoundedInduction, TLAPS

(***************************************************************************)
(* Replay, unfolded.                                                       *)
(***************************************************************************)
LEMMA Least ==
    ASSUME NEW T, T \subseteq Nat, T # {}
    PROVE  \E m \in T : \A x \in T : m <= x
  <1>1. PICK R : R = OpToRel(<, Nat)
      OBVIOUS
  <1>2. IsWellFoundedOn(R, Nat)
      BY <1>1, NatLessThanWellFounded
  <1>3. PICK m \in T : \A x \in T : ~(<<x, m>> \in R)
      BY <1>2, WFMin
  <1>4. \A x, y \in Nat : x < y => <<x, y>> \in R
      BY <1>1 DEF OpToRel
  <1>5. ASSUME NEW x \in T
        PROVE  m <= x
    <2>1. x \in Nat /\ m \in Nat
        OBVIOUS
    <2>2. ~(x < m)
        BY <1>3, <1>4, <2>1, Zenon
    <2>3. QED
        BY <2>1, <2>2
  <1>6. QED
      BY <1>5, Zenon

\* The least name of a set of names.
LEMMA MinFacts ==
    ASSUME NEW T, T \subseteq Nat, T # {}
    PROVE  Min(T) \in T /\ \A x \in T : Min(T) <= x
  BY Least DEF Min

\* The units of a record.
Size(r) == HeaderSize + PayloadLen(r)

LEMMA SizeFacts ==
    ASSUME NEW r
    PROVE  /\ PayloadLen(r) \in Nat \ {0} /\ Size(r) = HeaderSize + PayloadLen(r)
           /\ Size(r) \in Nat /\ Size(r) >= 3 /\ Size(Meta) = 4 /\ Size(Fragment) = 14
  BY DEF Size, HeaderSize, PayloadLen, Meta, Fragment

\* A result with one more record before it.
Prepend(r, res) == [res EXCEPT !.recs = <<r>> \o @]

\* One step of Replay at an offset, where w has its results further on.
WalkAt(f, w, off) ==
    LET remaining == Len(f) - off
        r == f[off + 1].rec
        end == off + HeaderSize + Length(f[off + 1])
        rest == w[end]
    IN CASE remaining = 0 -> Clean(off)
         [] remaining \in 1 .. HeaderSize - 1 -> Torn(off)
         [] remaining >= HeaderSize /\ ~HeaderOK(f[off + 1]) -> Corrupt(off)
         [] remaining >= HeaderSize /\ HeaderOK(f[off + 1]) ->
              IF end > Len(f) THEN Torn(off)
              ELSE IF SubSeq(f, off + 1, end) # Encode(r) THEN Corrupt(off)
              ELSE Prepend(r, rest)

\* Its four outcomes.
LEMMA WalkCases ==
    ASSUME NEW f \in Seq(Unit), NEW w, NEW off \in 0 .. Len(f)
    PROVE  /\ off = Len(f) => WalkAt(f, w, off) = Clean(off)
           /\ off + 1 = Len(f) => WalkAt(f, w, off) = Torn(off)
           /\ off + 2 <= Len(f) =>
                LET r == f[off + 1].rec
                    end == off + Size(r)
                IN IF ~(f[off + 1].part = 1 /\ ~f[off + 1].bad) THEN WalkAt(f, w, off) = Corrupt(off)
                   ELSE IF end > Len(f) THEN WalkAt(f, w, off) = Torn(off)
                   ELSE IF SubSeq(f, off + 1, end) # Encode(r) THEN WalkAt(f, w, off) = Corrupt(off)
                   ELSE WalkAt(f, w, off) = Prepend(r, w[end])
  <1>0. Len(f) \in Nat /\ off \in Nat
      OBVIOUS
  <1>1. CASE off = Len(f)
    <2>1. Len(f) - off = 0
        BY <1>0, <1>1
    <2>2. QED
        BY <1>0, <1>1, <2>1 DEF WalkAt, HeaderSize
  <1>2. CASE off + 1 = Len(f)
    <2>1. Len(f) - off = 1
        BY <1>0, <1>2
    <2>2. QED
        BY <1>0, <1>2, <2>1 DEF WalkAt, HeaderSize
  <1>3. CASE off + 2 <= Len(f)
    <2>1. /\ Len(f) - off >= HeaderSize /\ Len(f) - off # 0
          /\ Len(f) - off \notin 1 .. HeaderSize - 1
        BY <1>0, <1>3 DEF HeaderSize
    <2>2. PICK u, r : u = f[off + 1] /\ r = u.rec
        OBVIOUS
    <2>3. CASE ~HeaderOK(u)
      <3>1. WalkAt(f, w, off) = Corrupt(off)
          BY <2>1, <2>2, <2>3 DEF WalkAt
      <3>2. QED
          BY <1>0, <1>3, <2>2, <2>3, <3>1 DEF HeaderOK
    <2>4. CASE HeaderOK(u)
      <3>1. Length(u) = PayloadLen(r) /\ u.part = 1 /\ ~u.bad
          BY <2>2, <2>4 DEF HeaderOK, Length
      <3>2. PICK end : end = off + Size(r)
          OBVIOUS
      <3>3. end = off + HeaderSize + Length(u)
          BY <1>0, <3>1, <3>2, SizeFacts DEF HeaderSize
      <3>4. WalkAt(f, w, off) = IF end > Len(f) THEN Torn(off)
                                ELSE IF SubSeq(f, off + 1, end) # Encode(r) THEN Corrupt(off)
                                ELSE Prepend(r, w[end])
          BY <2>1, <2>2, <2>4, <3>3 DEF WalkAt
      <3>5. QED
          BY <1>0, <1>3, <2>2, <3>1, <3>2, <3>4
    <2>5. QED
        BY <2>3, <2>4
  <1>4. QED
      BY <1>0, <1>1, <1>2, <1>3

\* A step looks only at results further on.
LEMMA WalkLocal ==
    ASSUME NEW f \in Seq(Unit), NEW off \in 0 .. Len(f), NEW v, NEW w,
           \A e \in off + 1 .. Len(f) : v[e] = w[e]
    PROVE  WalkAt(f, v, off) = WalkAt(f, w, off)
  <1>0. Len(f) \in Nat /\ off \in Nat
      OBVIOUS
  <1>1. CASE off + 2 <= Len(f)
    <2>1. PICK r, end : r = f[off + 1].rec /\ end = off + Size(r)
        OBVIOUS
    <2>2. end \in Nat /\ end >= off + 1
        BY <1>0, <2>1, SizeFacts
    <2>3. end <= Len(f) => v[end] = w[end]
        BY <1>0, <2>2
    <2>4. ASSUME NEW x
          PROVE  \/ ~(f[off + 1].part = 1 /\ ~f[off + 1].bad) /\ WalkAt(f, x, off) = Corrupt(off)
                 \/ /\ f[off + 1].part = 1 /\ ~f[off + 1].bad
                    /\ end > Len(f) /\ WalkAt(f, x, off) = Torn(off)
                 \/ /\ f[off + 1].part = 1 /\ ~f[off + 1].bad /\ end <= Len(f)
                    /\ SubSeq(f, off + 1, end) # Encode(r) /\ WalkAt(f, x, off) = Corrupt(off)
                 \/ /\ f[off + 1].part = 1 /\ ~f[off + 1].bad /\ end <= Len(f)
                    /\ SubSeq(f, off + 1, end) = Encode(r)
                    /\ WalkAt(f, x, off) = Prepend(r, x[end])
        BY <1>0, <1>1, <2>1, <2>2, WalkCases
    <2>5. QED
        BY <1>0, <2>2, <2>3, <2>4
  <1>2. CASE ~(off + 2 <= Len(f))
    <2>1. off = Len(f) \/ off + 1 = Len(f)
        BY <1>0, <1>2
    <2>2. QED
        BY <2>1, WalkCases
  <1>3. QED
      BY <1>1, <1>2

Walked(f, n, w) == w = [off \in n .. Len(f) |-> WalkAt(f, w, off)]

\* A log can be walked from any offset on: least counterexample, from the end.
LEMMA WalkExists ==
    ASSUME NEW f \in Seq(Unit), NEW n \in 0 .. Len(f)
    PROVE  \E w : Walked(f, n, w)
  <1> DEFINE T == {m \in 0 .. Len(f) : ~ \E w : Walked(f, Len(f) - m, w)}
  <1>0. Len(f) \in Nat
      OBVIOUS
  <1>1. T = {}
    <2> SUFFICES ASSUME T # {} PROVE FALSE
        OBVIOUS
    <2>1. PICK m \in T : \A x \in T : m <= x
      <3>1. T \subseteq Nat
          OBVIOUS
      <3>2. QED
          BY <3>1, Least
    <2>2. PICK a : a = Len(f) - m
        OBVIOUS
    <2>3. m \in 0 .. Len(f) /\ (\A w : ~Walked(f, a, w)) /\ a \in 0 .. Len(f)
        BY <1>0, <2>1, <2>2
    <2>4. PICK g : \A off \in a + 1 .. Len(f) : g[off] = WalkAt(f, g, off)
      <3>1. CASE m = 0
        <4>1. \A off \in a + 1 .. Len(f) : FALSE
            BY <1>0, <2>2, <3>1
        <4>2. QED
            BY <4>1
      <3>2. CASE m # 0
        <4>1. m - 1 \in 0 .. Len(f) /\ m - 1 < m /\ Len(f) - (m - 1) = a + 1
            BY <1>0, <2>2, <2>3, <3>2
        <4>2. m - 1 \notin T
            BY <2>1, <2>3, <4>1
        <4>3. PICK g : Walked(f, a + 1, g)
            BY <4>1, <4>2
        <4>4. \A off \in a + 1 .. Len(f) : g[off] = WalkAt(f, g, off)
            BY <4>3, Zenon DEF Walked
        <4>5. QED
            BY <4>4
      <3>3. QED
          BY <3>1, <3>2
    <2> DEFINE w == [off \in a .. Len(f) |-> IF off = a THEN WalkAt(f, g, a) ELSE g[off]]
    <2>5. \A off \in a + 1 .. Len(f) : w[off] = g[off]
        BY <2>3
    <2>6. ASSUME NEW off \in a .. Len(f)
          PROVE  w[off] = WalkAt(f, w, off)
      <3>1. off \in 0 .. Len(f) /\ \A e \in off + 1 .. Len(f) : w[e] = g[e]
        <4> HIDE DEF w
        <4>1. QED
            BY <1>0, <2>3, <2>5
      <3>2. WalkAt(f, w, off) = WalkAt(f, g, off)
        <4> HIDE DEF w
        <4>1. QED
            BY <3>1, WalkLocal
      <3>3. CASE off = a
          BY <3>2, <3>3
      <3>4. CASE off # a
        <4>1. off \in a + 1 .. Len(f)
            BY <1>0, <2>3, <3>4
        <4>2. QED
            BY <2>4, <2>5, <3>2, <4>1
      <3>5. QED
          BY <3>3, <3>4
    <2>7. w = [off \in a .. Len(f) |-> w[off]]
        OBVIOUS
    <2> HIDE DEF w
    <2>8. Walked(f, a, w)
        BY <2>6, <2>7 DEF Walked
    <2>9. QED
        BY <2>3, <2>8
  <1>2. Len(f) - n \in 0 .. Len(f) /\ Len(f) - (Len(f) - n) = n
      BY <1>0
  <1>3. QED
      BY <1>1, <1>2

LEMMA ReplayDef ==
    ASSUME NEW f \in Seq(Unit)
    PROVE  \E w : (\A off \in 0 .. Len(f) : w[off] = WalkAt(f, w, off)) /\ Replay(f) = w[0]
  <1> DEFINE Body(w) == [off \in 0 .. Len(f) |->
               LET remaining == Len(f) - off
                   r == f[off + 1].rec
                   end == off + HeaderSize + Length(f[off + 1])
                   rest == w[end]
               IN CASE remaining = 0 -> Clean(off)
                    [] remaining \in 1 .. HeaderSize - 1 -> Torn(off)
                    [] remaining >= HeaderSize /\ ~HeaderOK(f[off + 1]) -> Corrupt(off)
                    [] remaining >= HeaderSize /\ HeaderOK(f[off + 1]) ->
                         IF end > Len(f) THEN Torn(off)
                         ELSE IF SubSeq(f, off + 1, end) # Encode(r) THEN Corrupt(off)
                         ELSE [rest EXCEPT !.recs = <<r>> \o @]]
             walk == CHOOSE w : w = Body(w)
  <1>1. PICK g : Walked(f, 0, g)
    <2>1. 0 \in 0 .. Len(f)
        OBVIOUS
    <2>2. QED
        BY <2>1, WalkExists
  <1>2. \A w : w = Body(w) <=> Walked(f, 0, w)
      BY Zenon DEF Walked, WalkAt, Prepend
  <1>3. Walked(f, 0, walk)
      BY <1>1, <1>2, Zenon
  <1>4. Replay(f) = walk[0]
      BY Zenon DEF Replay
  <1> HIDE DEF walk
  <1>5. \A off \in 0 .. Len(f) : walk[off] = WalkAt(f, walk, off)
      BY <1>3, Zenon DEF Walked
  <1>6. QED
      BY <1>4, <1>5

-----------------------------------------------------------------------------
(***************************************************************************)
(* The shape of a log: whole records up to an offset, and after it units   *)
(* that complete no record.                                                *)
(***************************************************************************)
\* Every unit up to offset b belongs to a record that is all there by b.
Whole(f, b) ==
    /\ b \in 0 .. Len(f)
    /\ \A i \in 1 .. b :
         /\ f[i].part \in 1 .. i /\ f[i].part <= Size(f[i].rec)
         /\ i - f[i].part + Size(f[i].rec) <= b
         /\ \A j \in 1 .. Size(f[i].rec) :
              /\ f[i - f[i].part + j].rec = f[i].rec
              /\ f[i - f[i].part + j].part = j

\* No unit past b is the last one of a record.
Loose(f, b) == \A i \in b + 1 .. Len(f) : f[i].part < Size(f[i].rec)

\* The units past b are the beginning of one record.
Simple(f, b) ==
    \A i \in b + 1 .. Len(f) :
        f[i].rec = f[b + 1].rec /\ f[i].part = i - b /\ i - b < Size(f[b + 1].rec)

\* Unit i of f is the last one of a record x.
EndsAt(f, i, x) == f[i].rec = x /\ f[i].part = Size(x)

Boundary(f, off) == off = 0 \/ f[off].part = Size(f[off].rec)

LEMMA SimpleLoose ==
    ASSUME NEW f, NEW b, Simple(f, b)
    PROVE  Loose(f, b)
  BY DEF Simple, Loose

LEMMA UnitFacts ==
    ASSUME NEW u \in Unit
    PROVE  /\ u.rec \in {Meta, Fragment} \cup 1 .. MaxRecs /\ u.rec \in Int /\ u.part \in Nat
           /\ u.bad \in BOOLEAN /\ u = [rec |-> u.rec, part |-> u.part, bad |-> u.bad]
  BY ManagerAssumption DEF Unit, Meta, Fragment

LEMMA EncodeUnits ==
    ASSUME NEW r \in {Meta, Fragment} \cup 1 .. MaxRecs
    PROVE  /\ Encode(r) \in Seq(Unit) /\ Len(Encode(r)) = Size(r)
           /\ \A j \in 1 .. Size(r) : Encode(r)[j] = [rec |-> r, part |-> j, bad |-> FALSE]
  <1>1. Size(r) \in Nat /\ Size(r) = HeaderSize + PayloadLen(r)
      BY SizeFacts
  <1>2. Encode(r) = [j \in 1 .. Size(r) |-> [rec |-> r, part |-> j, bad |-> FALSE]]
      BY <1>1 DEF Encode
  <1>3. \A j \in 1 .. Size(r) : [rec |-> r, part |-> j, bad |-> FALSE] \in Unit
      BY <1>1 DEF Unit
  <1>4. QED
      BY <1>1, <1>2, <1>3

LEMMA SubSeqFacts ==
    ASSUME NEW S, NEW f \in Seq(S), NEW m \in Nat, NEW n \in Nat, m + n <= Len(f)
    PROVE  /\ SubSeq(f, m + 1, m + n) \in Seq(S) /\ Len(SubSeq(f, m + 1, m + n)) = n
           /\ \A j \in 1 .. n : SubSeq(f, m + 1, m + n)[j] = f[m + j]
  <1>0. Len(f) \in Nat
      OBVIOUS
  <1>1. PICK s : s = SubSeq(f, m + 1, m + n)
      OBVIOUS
  <1>2. Len(s) = n
      BY <1>0, <1>1
  <1>3. ASSUME NEW j \in 1 .. n
        PROVE  s[j] = f[m + j]
    <2>1. s[j] = f[(m + 1) + j - 1]
        BY <1>0, <1>1
    <2>2. (m + 1) + j - 1 = m + j
        OBVIOUS
    <2>3. QED
        BY <2>1, <2>2
  <1>4. s \in Seq(S)
      BY <1>0, <1>1
  <1>5. QED
      BY <1>1, <1>2, <1>3, <1>4

\* What Whole says of one unit.
WholeUnit(f, b, i) ==
    /\ f[i].part \in 1 .. i /\ f[i].part <= Size(f[i].rec)
    /\ i - f[i].part + Size(f[i].rec) <= b
    /\ \A j \in 1 .. Size(f[i].rec) :
         /\ f[i - f[i].part + j].rec = f[i].rec
         /\ f[i - f[i].part + j].part = j

LEMMA WholeAt ==
    ASSUME NEW f, NEW b, Whole(f, b), NEW i \in 1 .. b, NEW p, NEW r, p = f[i].part, r = f[i].rec
    PROVE  /\ p \in 1 .. i /\ p <= Size(r) /\ i - p + Size(r) <= b
           /\ \A j \in 1 .. Size(r) : f[i - p + j].rec = r /\ f[i - p + j].part = j
  <1>1. WholeUnit(f, b, i)
      BY Zenon DEF Whole, WholeUnit
  <1>2. QED
      BY <1>1, Zenon DEF WholeUnit

\* The record at the boundary off, whole.
LEMMA RecordAt ==
    ASSUME NEW f \in Seq(Unit), NEW b, Whole(f, b), NEW off \in 0 .. b, off # b, Boundary(f, off)
    PROVE  LET r == f[off + 1].rec
           IN /\ f[off + 1].part = 1 /\ off + Size(r) <= b
              /\ \A j \in 1 .. Size(r) : f[off + j].rec = r /\ f[off + j].part = j
              /\ Boundary(f, off + Size(r))
  <1>0. Len(f) \in Nat /\ b \in 0 .. Len(f) /\ off \in Nat /\ b \in Nat /\ off + 1 \in 1 .. b
      BY DEF Whole
  <1>1. PICK p, r : p = f[off + 1].part /\ r = f[off + 1].rec
      OBVIOUS
  <1>2. /\ p \in 1 .. off + 1 /\ p <= Size(r) /\ off + 1 - p + Size(r) <= b
        /\ \A j \in 1 .. Size(r) : f[off + 1 - p + j].rec = r /\ f[off + 1 - p + j].part = j
    <2>1. PICK i \in 1 .. b : i = off + 1
        BY <1>0
    <2>2. p = f[i].part /\ r = f[i].rec
        BY <1>1, <2>1
    <2>3. /\ p \in 1 .. i /\ p <= Size(r) /\ i - p + Size(r) <= b
          /\ \A j \in 1 .. Size(r) : f[i - p + j].rec = r /\ f[i - p + j].part = j
        BY <2>2, WholeAt
    <2>4. QED
        BY <2>1, <2>3
  <1>a. p \in 1 .. off + 1 /\ p <= Size(r)
      BY <1>2
  <1>3. Size(r) \in Nat /\ Size(r) >= 3
      BY SizeFacts
  <1>4. p = 1
    <2> SUFFICES ASSUME p # 1 PROVE FALSE
        OBVIOUS
    <2>1. p - 1 \in 1 .. Size(r) /\ off + 1 - p + (p - 1) = off /\ off # 0
        BY <1>0, <1>a, <1>3
    <2>2. f[off].rec = r /\ f[off].part = p - 1
        BY <1>2, <2>1
    <2>3. f[off].part = Size(r)
        BY <2>1, <2>2 DEF Boundary
    <2>4. QED
        BY <1>0, <1>a, <1>3, <2>2, <2>3
  <1>5. off + 1 - p = off
      BY <1>0, <1>4
  <1>6. off + Size(r) <= b /\ \A j \in 1 .. Size(r) : f[off + j].rec = r /\ f[off + j].part = j
      BY <1>2, <1>5
  <1>7. Boundary(f, off + Size(r))
    <2>1. Size(r) \in 1 .. Size(r)
        BY <1>3
    <2>2. QED
        BY <1>6, <2>1 DEF Boundary
  <1>8. QED
      BY <1>1, <1>4, <1>6, <1>7

\* When a stretch of units is the encoding of a record.
LEMMA EncodeMatch ==
    ASSUME NEW f \in Seq(Unit), NEW off \in Nat, NEW r \in {Meta, Fragment} \cup 1 .. MaxRecs,
           off + Size(r) <= Len(f)
    PROVE  SubSeq(f, off + 1, off + Size(r)) = Encode(r)
             <=> \A j \in 1 .. Size(r) : /\ f[off + j].rec = r /\ f[off + j].part = j
                                         /\ ~f[off + j].bad
  <1>0. Len(f) \in Nat /\ Size(r) \in Nat /\ Size(r) >= 3
      BY SizeFacts
  <1>1. PICK s : s = SubSeq(f, off + 1, off + Size(r))
      OBVIOUS
  <1>2. s \in Seq(Unit) /\ Len(s) = Size(r) /\ \A j \in 1 .. Size(r) : s[j] = f[off + j]
    <2>1. /\ SubSeq(f, off + 1, off + Size(r)) \in Seq(Unit)
          /\ Len(SubSeq(f, off + 1, off + Size(r))) = Size(r)
          /\ \A j \in 1 .. Size(r) : SubSeq(f, off + 1, off + Size(r))[j] = f[off + j]
      <3>1. PICK n \in Nat : n = Size(r) /\ off + n <= Len(f)
          BY <1>0
      <3>2. /\ SubSeq(f, off + 1, off + n) \in Seq(Unit) /\ Len(SubSeq(f, off + 1, off + n)) = n
            /\ \A j \in 1 .. n : SubSeq(f, off + 1, off + n)[j] = f[off + j]
          BY <3>1, SubSeqFacts, SMTT(30)
      <3>3. QED
          BY <3>1, <3>2, Zenon
    <2>2. QED
        BY <1>1, <2>1, Zenon
  <1>3. /\ Encode(r) \in Seq(Unit) /\ Len(Encode(r)) = Size(r)
        /\ \A j \in 1 .. Size(r) : Encode(r)[j] = [rec |-> r, part |-> j, bad |-> FALSE]
      BY EncodeUnits
  <1>4. ASSUME s = Encode(r), NEW j \in 1 .. Size(r)
        PROVE  f[off + j].rec = r /\ f[off + j].part = j /\ ~f[off + j].bad
    <2>1. f[off + j] = [rec |-> r, part |-> j, bad |-> FALSE]
        BY <1>2, <1>3, <1>4
    <2>2. QED
        BY <2>1
  <1>5. ASSUME \A j \in 1 .. Size(r) : /\ f[off + j].rec = r /\ f[off + j].part = j
                                       /\ ~f[off + j].bad
        PROVE  s = Encode(r)
    <2>1. ASSUME NEW j \in 1 .. Size(r)
          PROVE  s[j] = Encode(r)[j]
      <3>1. f[off + j] \in Unit
          BY <1>0
      <3>2. PICK u : u = f[off + j]
          OBVIOUS
      <3>3. u = [rec |-> u.rec, part |-> u.part, bad |-> u.bad] /\ u.bad \in BOOLEAN
          BY <3>1, <3>2, UnitFacts
      <3>4. u = [rec |-> r, part |-> j, bad |-> FALSE]
          BY <1>5, <3>2, <3>3
      <3>5. QED
          BY <1>2, <1>3, <3>2, <3>4
    <2>2. QED
        BY <1>2, <1>3, <2>1
  <1>6. QED
      BY <1>1, <1>4, <1>5

-----------------------------------------------------------------------------
Result == [corrupt : BOOLEAN, torn : BOOLEAN, valid : Nat, recs : Seq(Int)]

\* Every record from offset off on that no damage precedes is handed over.
Reaches(f, b, off, res) ==
    \A e \in off + 1 .. b :
        f[e].part = Size(f[e].rec) /\ (\A i \in off + 1 .. e : ~f[i].bad)
          => \E k \in 1 .. Len(res.recs) : res.recs[k] = f[e].rec

\* What Replay finds from offset off on, in a log that is whole up to b: it
\* stops at b, with every record before it handed over, or at damage.
Finds(f, b, off, res) ==
    /\ res \in Result /\ res.valid \in off .. b
    /\ \A k \in 1 .. Len(res.recs) : \E i \in off + 1 .. b : f[i].rec = res.recs[k]
    /\ ~res.corrupt =>
         /\ res.valid = b /\ (res.torn <=> b < Len(f))
         /\ \A i \in off + 1 .. b :
              ~f[i].bad /\ \E k \in 1 .. Len(res.recs) : res.recs[k] = f[i].rec
    /\ res.corrupt /\ Simple(f, b) => \E i \in off + 1 .. Len(f) : f[i].bad
    /\ Reaches(f, b, off, res)

LEMMA EndingIs ==
    ASSUME NEW off \in Nat
    PROVE  /\ Clean(off) = [corrupt |-> FALSE, torn |-> FALSE, valid |-> off, recs |-> <<>>]
           /\ Torn(off) = [corrupt |-> FALSE, torn |-> TRUE, valid |-> off, recs |-> <<>>]
           /\ Corrupt(off) = [corrupt |-> TRUE, torn |-> FALSE, valid |-> off, recs |-> <<>>]
  <1>1. Clean(off) = [corrupt |-> FALSE, torn |-> FALSE, valid |-> off, recs |-> <<>>]
      BY DEF Clean
  <1>4. <<>> \in Seq(Int)
      OBVIOUS
  <1>2. Torn(off) = [corrupt |-> FALSE, torn |-> TRUE, valid |-> off, recs |-> <<>>]
    <2>1. PICK c \in Result : c = Clean(off)
        BY <1>1, <1>4 DEF Result
    <2>2. PICK t \in Result : t = [c EXCEPT !.torn = TRUE]
        BY DEF Result
    <2>a. c.corrupt = FALSE /\ c.valid = off /\ c.recs = <<>>
        BY <1>1, <2>1
    <2>b. t.torn = TRUE /\ t.corrupt = c.corrupt /\ t.valid = c.valid /\ t.recs = c.recs
        BY <2>2 DEF Result
    <2>c. t = [corrupt |-> t.corrupt, torn |-> t.torn, valid |-> t.valid, recs |-> t.recs]
        BY DEF Result
    <2>3. t = [corrupt |-> FALSE, torn |-> TRUE, valid |-> off, recs |-> <<>>]
        BY <2>a, <2>b, <2>c, Zenon
    <2>4. QED
        BY <2>1, <2>2, <2>3, Zenon DEF Torn
  <1>3. Corrupt(off) = [corrupt |-> TRUE, torn |-> FALSE, valid |-> off, recs |-> <<>>]
    <2>1. PICK c \in Result : c = Clean(off)
        BY <1>1, <1>4 DEF Result
    <2>2. PICK t \in Result : t = [c EXCEPT !.corrupt = TRUE]
        BY DEF Result
    <2>a. c.torn = FALSE /\ c.valid = off /\ c.recs = <<>>
        BY <1>1, <2>1
    <2>b. t.corrupt = TRUE /\ t.torn = c.torn /\ t.valid = c.valid /\ t.recs = c.recs
        BY <2>2 DEF Result
    <2>c. t = [corrupt |-> t.corrupt, torn |-> t.torn, valid |-> t.valid, recs |-> t.recs]
        BY DEF Result
    <2>3. t = [corrupt |-> TRUE, torn |-> FALSE, valid |-> off, recs |-> <<>>]
        BY <2>a, <2>b, <2>c, Zenon
    <2>4. QED
        BY <2>1, <2>2, <2>3, Zenon DEF Corrupt
  <1>5. QED
      BY <1>1, <1>2, <1>3

LEMMA EndingFacts ==
    ASSUME NEW off \in Nat
    PROVE  /\ Clean(off) \in Result /\ ~Clean(off).corrupt /\ ~Clean(off).torn
           /\ Torn(off) \in Result /\ ~Torn(off).corrupt /\ Torn(off).torn
           /\ Corrupt(off) \in Result /\ Corrupt(off).corrupt
           /\ Clean(off).valid = off /\ Torn(off).valid = off /\ Corrupt(off).valid = off
           /\ Clean(off).recs = <<>> /\ Torn(off).recs = <<>> /\ Corrupt(off).recs = <<>>
  <1>1. Clean(off) = [corrupt |-> FALSE, torn |-> FALSE, valid |-> off, recs |-> <<>>]
      BY EndingIs
  <1>2. Torn(off) = [corrupt |-> FALSE, torn |-> TRUE, valid |-> off, recs |-> <<>>]
      BY EndingIs
  <1>3. Corrupt(off) = [corrupt |-> TRUE, torn |-> FALSE, valid |-> off, recs |-> <<>>]
      BY EndingIs
  <1>4. <<>> \in Seq(Int)
      OBVIOUS
  <1>5. Clean(off) \in Result /\ Torn(off) \in Result /\ Corrupt(off) \in Result
      BY <1>1, <1>2, <1>3, <1>4 DEF Result
  <1>6. QED
      BY <1>1, <1>2, <1>3, <1>5

LEMMA PrependFacts ==
    ASSUME NEW r \in Int, NEW res \in Result, NEW p, p = Prepend(r, res)
    PROVE  /\ p \in Result /\ p.corrupt = res.corrupt /\ p.torn = res.torn
           /\ p.valid = res.valid /\ Len(p.recs) = Len(res.recs) + 1 /\ p.recs[1] = r
           /\ \A k \in 1 .. Len(res.recs) : p.recs[k + 1] = res.recs[k]
           /\ \A k \in 2 .. Len(res.recs) + 1 : p.recs[k] = res.recs[k - 1]
  <1>1. res.recs \in Seq(Int) /\ Len(res.recs) \in Nat
      BY DEF Result
  <1>2. PICK q : q = <<r>> \o res.recs
      OBVIOUS
  <1>3. /\ q \in Seq(Int) /\ Len(q) = Len(res.recs) + 1 /\ q[1] = r
        /\ \A k \in 1 .. Len(res.recs) : q[k + 1] = res.recs[k]
        /\ \A k \in 2 .. Len(res.recs) + 1 : q[k] = res.recs[k - 1]
      BY <1>1, <1>2
  <1>4. Prepend(r, res) = [res EXCEPT !.recs = q]
      BY <1>2 DEF Prepend
  <1>5. QED
      BY <1>3, <1>4 DEF Result

\* Replay at the end of the whole records.
LEMMA FindsEnd ==
    ASSUME NEW f \in Seq(Unit), NEW b, Whole(f, b), Loose(f, b), NEW w
    PROVE  Finds(f, b, b, WalkAt(f, w, b))
  <1>0. Len(f) \in Nat /\ b \in 0 .. Len(f) /\ b \in Nat
      BY DEF Whole
  <1>1. \A i \in b + 1 .. b : FALSE
      BY <1>0
  <1>r. \A res : Reaches(f, b, b, res)
      BY <1>1 DEF Reaches
  <1>2. ASSUME b = Len(f) PROVE Finds(f, b, b, WalkAt(f, w, b))
    <2>1. WalkAt(f, w, b) = Clean(b)
        BY <1>0, <1>2, WalkCases
    <2>2. QED
        BY <1>0, <1>1, <1>2, <1>r, <2>1, EndingFacts DEF Finds
  <1>3. ASSUME b < Len(f), WalkAt(f, w, b) = Torn(b) PROVE Finds(f, b, b, WalkAt(f, w, b))
      BY <1>0, <1>1, <1>3, <1>r, EndingFacts DEF Finds
  <1>4. ASSUME WalkAt(f, w, b) = Corrupt(b), b + 2 <= Len(f),
               Simple(f, b) => f[b + 1].bad
        PROVE  Finds(f, b, b, WalkAt(f, w, b))
    <2>1. Simple(f, b) => \E i \in b + 1 .. Len(f) : f[i].bad
        BY <1>0, <1>4
    <2>2. QED
        BY <1>0, <1>1, <1>4, <1>r, <2>1, EndingFacts DEF Finds
  <1>5. CASE b + 1 = Len(f)
      BY <1>0, <1>3, <1>5, WalkCases
  <1>6. CASE b + 2 <= Len(f)
    <2>1. PICK r, end : r = f[b + 1].rec /\ end = b + Size(r)
        OBVIOUS
    <2>2. Size(r) \in Nat /\ Size(r) >= 3 /\ f[b + 1] \in Unit
        BY <1>0, <1>6, SizeFacts
    <2>3. r \in {Meta, Fragment} \cup 1 .. MaxRecs
        BY <2>1, <2>2, UnitFacts
    <2>a. \A n \in Nat : end <= n => end \in b + 1 .. n
        BY <1>0, <2>1, <2>2
    <2>4. end <= Len(f) => SubSeq(f, b + 1, end) # Encode(r)
      <3> SUFFICES ASSUME end <= Len(f), SubSeq(f, b + 1, end) = Encode(r) PROVE FALSE
          OBVIOUS
      <3>1. b + Size(r) <= Len(f) /\ SubSeq(f, b + 1, b + Size(r)) = Encode(r)
          BY <2>1
      <3>2. \A j \in 1 .. Size(r) : f[b + j].rec = r /\ f[b + j].part = j /\ ~f[b + j].bad
          BY <1>0, <2>3, <3>1, EncodeMatch
      <3>a. Size(r) \in 1 .. Size(r)
          BY <2>2
      <3>b. f[end].rec = r /\ f[end].part = Size(r)
          BY <2>1, <3>2, <3>a
      <3>d. end \in b + 1 .. Len(f)
          BY <1>0, <2>a
      <3>e. f[end].part < Size(f[end].rec)
          BY <3>d, Zenon DEF Loose
      <3>3. f[end].part < Size(r) /\ f[end].part = Size(r)
          BY <3>b, <3>e
      <3>4. QED
          BY <2>2, <3>3
    <2>5. CASE ~(f[b + 1].part = 1 /\ ~f[b + 1].bad)
      <3>1. WalkAt(f, w, b) = Corrupt(b)
          BY <1>0, <1>6, <2>5, WalkCases
      <3>2. Simple(f, b) => f[b + 1].part = 1
          BY <1>0, <1>6 DEF Simple
      <3>3. QED
          BY <1>4, <1>6, <2>5, <3>1, <3>2
    <2>6. CASE f[b + 1].part = 1 /\ ~f[b + 1].bad /\ end > Len(f)
      <3>1. WalkAt(f, w, b) = Torn(b)
          BY <1>0, <1>6, <2>1, <2>6, WalkCases
      <3>2. QED
          BY <1>0, <1>3, <1>6, <3>1
    <2>7. CASE f[b + 1].part = 1 /\ ~f[b + 1].bad /\ end <= Len(f)
      <3>1. WalkAt(f, w, b) = Corrupt(b)
          BY <1>0, <1>6, <2>1, <2>2, <2>4, <2>7, WalkCases
      <3>2. ~Simple(f, b)
        <4> SUFFICES ASSUME Simple(f, b) PROVE FALSE
            OBVIOUS
        <4>1. Len(f) \in b + 1 .. Len(f)
            BY <1>0, <1>6
        <4>2. Len(f) - b < Size(r)
            BY <2>1, <4>1 DEF Simple
        <4>3. QED
            BY <1>0, <2>1, <2>2, <2>7, <4>2
      <3>3. QED
          BY <1>4, <1>6, <3>1, <3>2
    <2>8. QED
        BY <1>0, <2>1, <2>2, <2>5, <2>6, <2>7
  <1>7. QED
      BY <1>0, <1>2, <1>5, <1>6

\* Replay at the header of a record that is all there.
LEMMA WalkRecord ==
    ASSUME NEW f \in Seq(Unit), NEW off \in 0 .. Len(f), NEW w, NEW r, NEW end,
           off + 2 <= Len(f), r = f[off + 1].rec, end = off + Size(r), end <= Len(f),
           f[off + 1].part = 1, ~f[off + 1].bad
    PROVE  /\ SubSeq(f, off + 1, end) # Encode(r) => WalkAt(f, w, off) = Corrupt(off)
           /\ SubSeq(f, off + 1, end) = Encode(r) => WalkAt(f, w, off) = Prepend(r, w[end])
  <1>1. Len(f) \in Nat /\ end \in Nat
      BY SizeFacts
  <1>2. ~(end > Len(f))
      BY <1>1
  <1>3. WalkAt(f, w, off) = IF SubSeq(f, off + 1, end) # Encode(r) THEN Corrupt(off)
                            ELSE Prepend(r, w[end])
      BY <1>2, WalkCases
  <1>4. QED
      BY <1>3, Zenon

\* Replay at a record before that.
LEMMA FindsNext ==
    ASSUME NEW f \in Seq(Unit), NEW b, Whole(f, b), NEW off \in 0 .. b, off # b,
           Boundary(f, off), NEW w,
           Finds(f, b, off + Size(f[off + 1].rec), w[off + Size(f[off + 1].rec)])
    PROVE  Finds(f, b, off, WalkAt(f, w, off))
  <1>0. Len(f) \in Nat /\ b \in 0 .. Len(f) /\ b \in Nat /\ off \in Nat /\ off \in 0 .. Len(f)
      BY DEF Whole
  <1>1. PICK r, end : r = f[off + 1].rec /\ end = off + Size(r)
      OBVIOUS
  <1>2. /\ f[off + 1].part = 1 /\ end <= b
        /\ \A j \in 1 .. Size(r) : f[off + j].rec = r /\ f[off + j].part = j
      BY <1>1, RecordAt
  <1>3. /\ Size(r) \in Nat /\ Size(r) >= 3 /\ end \in Nat /\ end <= Len(f) /\ off + 2 <= Len(f)
        /\ f[off + 1] \in Unit
      BY <1>0, <1>1, <1>2, SizeFacts, SMTT(30)
  <1>4. r \in {Meta, Fragment} \cup 1 .. MaxRecs /\ r \in Int
      BY <1>1, <1>3, UnitFacts
  <1>5. PICK res : res = WalkAt(f, w, off)
      OBVIOUS
  <1>a. ~f[off + 1].bad =>
          /\ SubSeq(f, off + 1, end) # Encode(r) => WalkAt(f, w, off) = Corrupt(off)
          /\ SubSeq(f, off + 1, end) = Encode(r) => WalkAt(f, w, off) = Prepend(r, w[end])
    <2>1. f[off + 1].part = 1
        BY <1>2
    <2> SUFFICES ASSUME ~f[off + 1].bad
                 PROVE  /\ SubSeq(f, off + 1, end) # Encode(r) => WalkAt(f, w, off) = Corrupt(off)
                        /\ SubSeq(f, off + 1, end) = Encode(r)
                             => WalkAt(f, w, off) = Prepend(r, w[end])
        OBVIOUS
    <2>2. off + 2 <= Len(f) /\ end <= Len(f)
        BY <1>3
    <2>3. QED
        BY <1>0, <1>1, <2>1, <2>2, WalkRecord
  <1>b. SubSeq(f, off + 1, end) = Encode(r)
          <=> \A j \in 1 .. Size(r) : f[off + j].rec = r /\ f[off + j].part = j /\ ~f[off + j].bad
    <2>1. off + Size(r) <= Len(f)
        BY <1>1, <1>3
    <2>2. SubSeq(f, off + 1, off + Size(r)) = Encode(r)
            <=> \A j \in 1 .. Size(r) : /\ f[off + j].rec = r /\ f[off + j].part = j
                                         /\ ~f[off + j].bad
        BY <1>0, <1>4, <2>1, EncodeMatch
    <2>3. QED
        BY <1>1, <2>2, Zenon
  <1>6. ASSUME res = Corrupt(off), \E j \in 1 .. Size(r) : f[off + j].bad
        PROVE  Finds(f, b, off, res)
    <2>1. \E i \in off + 1 .. Len(f) : f[i].bad
        BY <1>0, <1>1, <1>3, <1>6
    <2>3. Reaches(f, b, off, res)
      <3> SUFFICES ASSUME NEW e \in off + 1 .. b, f[e].part = Size(f[e].rec),
                          \A i \in off + 1 .. e : ~f[i].bad
                   PROVE  FALSE
          BY DEF Reaches
      <3>1. PICK j \in 1 .. Size(r) : f[off + j].bad
          BY <1>6
      <3>2. e < off + j
          BY <1>0, <1>3, <3>1
      <3>3. e - off \in 1 .. Size(r) /\ off + (e - off) = e /\ e - off < Size(r)
          BY <1>0, <1>3, <3>2
      <3>4. f[e].rec = r /\ f[e].part = e - off
          BY <1>2, <3>3
      <3>5. QED
          BY <1>3, <3>3, <3>4
    <2>2. QED
        BY <1>0, <1>6, <2>1, <2>3, EndingFacts, SMTT(30) DEF Finds
  <1>7. CASE f[off + 1].bad
    <2>1. res = Corrupt(off)
        BY <1>0, <1>3, <1>5, <1>7, WalkCases
    <2>2. 1 \in 1 .. Size(r)
        BY <1>3
    <2>3. QED
        BY <1>5, <1>6, <1>7, <2>1, <2>2
  <1>8. CASE ~f[off + 1].bad /\ SubSeq(f, off + 1, end) # Encode(r)
    <2>1. res = Corrupt(off)
        BY <1>5, <1>8, <1>a, Zenon
    <2>2. \E j \in 1 .. Size(r) : f[off + j].bad
        BY <1>2, <1>8, <1>b, Zenon
    <2>3. QED
        BY <1>5, <1>6, <2>1, <2>2
  <1>9. CASE ~f[off + 1].bad /\ SubSeq(f, off + 1, end) = Encode(r)
    <2>1. PICK z : z = w[end]
        OBVIOUS
    <2>2. Finds(f, b, end, z) /\ z \in Result /\ z.recs \in Seq(Int) /\ Len(z.recs) \in Nat
        BY <1>1, <2>1 DEF Finds, Result
    <2>3. res = Prepend(r, z)
        BY <1>5, <1>9, <1>a, <2>1, Zenon
    <2>4. /\ res \in Result /\ res.corrupt = z.corrupt /\ res.torn = z.torn
          /\ res.valid = z.valid /\ Len(res.recs) = Len(z.recs) + 1 /\ res.recs[1] = r
          /\ \A k \in 1 .. Len(z.recs) : res.recs[k + 1] = z.recs[k]
          /\ \A k \in 2 .. Len(z.recs) + 1 : res.recs[k] = z.recs[k - 1]
      <3>1. PICK p : p = Prepend(r, z)
          OBVIOUS
      <3>2. res = p
          BY <2>3, <3>1
      <3>3. /\ p \in Result /\ p.corrupt = z.corrupt /\ p.torn = z.torn
            /\ p.valid = z.valid /\ Len(p.recs) = Len(z.recs) + 1 /\ p.recs[1] = r
            /\ \A k \in 1 .. Len(z.recs) : p.recs[k + 1] = z.recs[k]
            /\ \A k \in 2 .. Len(z.recs) + 1 : p.recs[k] = z.recs[k - 1]
        <4>1. r \in Int /\ z \in Result
            BY <1>4, <2>2
        <4>2. QED
            BY <3>1, <4>1, PrependFacts, SMTT(30)
      <3>4. QED
          BY <3>2, <3>3, Zenon
    <2>5. res.valid \in off .. b
        BY <1>0, <1>1, <1>3, <2>2, <2>4 DEF Finds
    <2>6. ASSUME NEW k \in 1 .. Len(res.recs)
          PROVE  \E i \in off + 1 .. b : f[i].rec = res.recs[k]
      <3>1. CASE k = 1
          BY <1>0, <1>1, <2>4, <3>1
      <3>2. CASE k # 1
        <4>1. k - 1 \in 1 .. Len(z.recs) /\ k \in 2 .. Len(z.recs) + 1
            BY <2>2, <2>4, <3>2, SMTT(30)
        <4>2. PICK i \in end + 1 .. b : f[i].rec = z.recs[k - 1]
            BY <2>2, <4>1 DEF Finds
        <4>3. i \in off + 1 .. b
            BY <1>0, <1>1, <1>3
        <4>4. QED
            BY <2>4, <4>1, <4>2, <4>3
      <3>3. QED
          BY <3>1, <3>2
    <2>7. ASSUME ~res.corrupt
          PROVE  /\ res.valid = b /\ (res.torn <=> b < Len(f))
                 /\ \A i \in off + 1 .. b :
                      ~f[i].bad /\ \E k \in 1 .. Len(res.recs) : res.recs[k] = f[i].rec
      <3>1. /\ z.valid = b /\ (z.torn <=> b < Len(f))
            /\ \A i \in end + 1 .. b :
                 ~f[i].bad /\ \E k \in 1 .. Len(z.recs) : z.recs[k] = f[i].rec
          BY <2>2, <2>4, <2>7 DEF Finds
      <3>2. ASSUME NEW i \in off + 1 .. b
            PROVE  ~f[i].bad /\ \E k \in 1 .. Len(res.recs) : res.recs[k] = f[i].rec
        <4>1. CASE i \in end + 1 .. b
          <5>1. PICK k \in 1 .. Len(z.recs) : z.recs[k] = f[i].rec
              BY <3>1, <4>1
          <5>2. k + 1 \in 1 .. Len(res.recs) /\ res.recs[k + 1] = f[i].rec
              BY <2>2, <2>4, <5>1
          <5>3. QED
              BY <3>1, <4>1, <5>2
        <4>2. CASE i \notin end + 1 .. b
          <5>1. i - off \in 1 .. Size(r) /\ off + (i - off) = i
              BY <1>0, <1>1, <1>3, <4>2
          <5>2. \A j \in 1 .. Size(r) : ~f[off + j].bad
              BY <1>9, <1>b, Zenon
          <5>3. f[i].rec = r /\ ~f[i].bad
              BY <1>2, <5>1, <5>2
          <5>4. 1 \in 1 .. Len(res.recs)
              BY <2>2, <2>4
          <5>5. QED
              BY <2>4, <5>3, <5>4
        <4>3. QED
            BY <4>1, <4>2
      <3>3. QED
          BY <2>4, <3>1, <3>2
    <2>8. ASSUME res.corrupt, Simple(f, b)
          PROVE  \E i \in off + 1 .. Len(f) : f[i].bad
      <3>1. PICK i \in end + 1 .. Len(f) : f[i].bad
          BY <2>2, <2>4, <2>8 DEF Finds
      <3>2. i \in off + 1 .. Len(f)
          BY <1>0, <1>1, <1>3
      <3>3. QED
          BY <3>1, <3>2
    <2>11. ASSUME NEW e \in off + 1 .. b, f[e].part = Size(f[e].rec),
                  \A i \in off + 1 .. e : ~f[i].bad
           PROVE  \E k \in 1 .. Len(res.recs) : res.recs[k] = f[e].rec
      <3>1. CASE e \in end + 1 .. b
        <4>1. \A i \in end + 1 .. e : ~f[i].bad
            BY <1>0, <1>1, <1>3, <2>11
        <4>2. Reaches(f, b, end, z)
            BY <2>2, Zenon DEF Finds
        <4>3. PICK k \in 1 .. Len(z.recs) : z.recs[k] = f[e].rec
            BY <2>11, <3>1, <4>1, <4>2, Zenon DEF Reaches
        <4>4. k + 1 \in 1 .. Len(res.recs) /\ res.recs[k + 1] = f[e].rec
            BY <2>2, <2>4, <4>3
        <4>5. QED
            BY <4>4
      <3>2. CASE e \notin end + 1 .. b
        <4>1. e - off \in 1 .. Size(r) /\ off + (e - off) = e
            BY <1>0, <1>1, <1>3, <3>2
        <4>2. f[e].rec = r
            BY <1>2, <4>1
        <4>3. 1 \in 1 .. Len(res.recs)
            BY <2>2, <2>4
        <4>4. QED
            BY <2>4, <4>2, <4>3
      <3>3. QED
          BY <3>1, <3>2
    <2>12. Reaches(f, b, off, res)
        BY <2>11, Zenon DEF Reaches
    <2>9. Finds(f, b, off, res)
        BY <2>4, <2>5, <2>6, <2>7, <2>8, <2>12 DEF Finds
    <2>10. QED
        BY <1>5, <2>9
  <1>10. QED
      BY <1>5, <1>7, <1>8, <1>9

LEMMA ReplayFinds ==
    ASSUME NEW f \in Seq(Unit), NEW b, Whole(f, b), Loose(f, b)
    PROVE  Finds(f, b, 0, Replay(f))
  <1>0. Len(f) \in Nat /\ b \in 0 .. Len(f) /\ b \in Nat
      BY DEF Whole
  <1>1. PICK w : (\A off \in 0 .. Len(f) : w[off] = WalkAt(f, w, off)) /\ Replay(f) = w[0]
      BY ReplayDef
  <1> DEFINE T == {m \in 0 .. b : Boundary(f, b - m) /\ ~Finds(f, b, b - m, w[b - m])}
  <1>2. T = {}
    <2> SUFFICES ASSUME T # {} PROVE FALSE
        OBVIOUS
    <2>1. PICK m \in T : \A x \in T : m <= x
      <3>1. T \subseteq Nat
          OBVIOUS
      <3>2. QED
          BY <3>1, Least
    <2>2. PICK off : off = b - m
        OBVIOUS
    <2>3. /\ m \in 0 .. b /\ off \in 0 .. b /\ off \in 0 .. Len(f)
          /\ Boundary(f, off) /\ ~Finds(f, b, off, w[off])
        BY <1>0, <2>1, <2>2
    <2>4. w[off] = WalkAt(f, w, off)
        BY <1>1, <2>3
    <2>5. CASE off = b
        BY <2>3, <2>4, <2>5, FindsEnd
    <2>6. CASE off # b
      <3>1. PICK r, end : r = f[off + 1].rec /\ end = off + Size(r)
          OBVIOUS
      <3>2. end <= b /\ Boundary(f, end)
          BY <2>3, <2>6, <3>1, RecordAt
      <3>3. b - end \in 0 .. b /\ b - end < m /\ b - (b - end) = end
        <4>1. Size(r) \in Nat /\ Size(r) >= 3
            BY SizeFacts
        <4>2. QED
            BY <1>0, <2>2, <2>3, <3>1, <3>2, <4>1
      <3>4. b - end \notin T
          BY <2>1, <2>3, <3>3
      <3>5. Finds(f, b, end, w[end])
          BY <3>2, <3>3, <3>4
      <3>6. QED
          BY <2>3, <2>4, <2>6, <3>1, <3>5, FindsNext
    <2>7. QED
        BY <2>5, <2>6
  <1>3. b \in 0 .. b /\ b - b = 0 /\ Boundary(f, 0)
      BY <1>0 DEF Boundary
  <1>4. Finds(f, b, 0, w[0])
      BY <1>2, <1>3
  <1>5. QED
      BY <1>1, <1>4


-----------------------------------------------------------------------------
(***************************************************************************)
(* What a write, a cut and damage make of the shape of a log.              *)
(***************************************************************************)
\* Two logs with the same records up to n, damaged or not.
Agrees(f, g, n) == \A i \in 1 .. n : g[i].rec = f[i].rec /\ g[i].part = f[i].part

\* A log that was written by appends of whole records and then cut anywhere.
Straight(f) == \E b : Whole(f, b) /\ Simple(f, b)

\* A log to which the lab has added beginnings of records besides.
Shaped(f) == \E b : Whole(f, b) /\ Loose(f, b)

Unhurt(f) == \A i \in 1 .. Len(f) : ~f[i].bad

\* A log of whole, undamaged records, which is what a queue that is served has.
Sound(f) == Whole(f, Len(f)) /\ Unhurt(f)

LEMMA StraightShaped ==
    ASSUME NEW f, Straight(f)
    PROVE  Shaped(f)
  BY SimpleLoose DEF Straight, Shaped

LEMMA WholeUnitIs ==
    ASSUME NEW f, NEW b, NEW i, NEW p, NEW r, f[i].part = p, f[i].rec = r,
           p \in 1 .. i, p <= Size(r), i - p + Size(r) <= b,
           \A j \in 1 .. Size(r) : f[i - p + j].rec = r /\ f[i - p + j].part = j
    PROVE  WholeUnit(f, b, i)
  BY DEF WholeUnit

LEMMA WholeAgrees ==
    ASSUME NEW f \in Seq(Unit), NEW g \in Seq(Unit), NEW b, Whole(f, b), b <= Len(g),
           Agrees(f, g, b)
    PROVE  Whole(g, b)
  <1>0. b \in 0 .. Len(f) /\ Len(f) \in Nat /\ Len(g) \in Nat /\ b \in 0 .. Len(g) /\ b \in Nat
      BY DEF Whole
  <1>1. ASSUME NEW i \in 1 .. b
        PROVE  WholeUnit(g, b, i)
    <2>1. PICK p, r : p = f[i].part /\ r = f[i].rec
        OBVIOUS
    <2>2. g[i].part = p /\ g[i].rec = r
        BY <2>1 DEF Agrees
    <2>3. /\ p \in 1 .. i /\ p <= Size(r) /\ i - p + Size(r) <= b
          /\ \A j \in 1 .. Size(r) : f[i - p + j].rec = r /\ f[i - p + j].part = j
        BY <2>1, WholeAt, SMTT(30)
    <2>a. p \in 1 .. i /\ p <= Size(r) /\ i - p + Size(r) <= b /\ Size(r) \in Nat
        BY <2>3, SizeFacts
    <2>4. ASSUME NEW j \in 1 .. Size(r)
          PROVE  g[i - p + j].rec = r /\ g[i - p + j].part = j
      <3>1. i - p + j \in 1 .. b
          BY <1>0, <2>a
      <3>2. QED
          BY <2>3, <3>1 DEF Agrees
    <2>5. QED
        BY <2>2, <2>a, <2>4 DEF WholeUnit
  <1>2. QED
      BY <1>0, <1>1, Zenon DEF Whole, WholeUnit

LEMMA RestAgrees ==
    ASSUME NEW f \in Seq(Unit), NEW g \in Seq(Unit), NEW b \in Nat,
           b <= Len(g), Len(g) <= Len(f), Agrees(f, g, Len(g))
    PROVE  (Loose(f, b) => Loose(g, b)) /\ (Simple(f, b) => Simple(g, b))
  <1>0. Len(f) \in Nat /\ Len(g) \in Nat
      OBVIOUS
  <1>1. ASSUME NEW i \in b + 1 .. Len(g)
        PROVE  /\ i \in b + 1 .. Len(f) /\ i \in 1 .. Len(g) /\ b + 1 \in 1 .. Len(g)
               /\ g[i].rec = f[i].rec /\ g[i].part = f[i].part
               /\ g[b + 1].rec = f[b + 1].rec
    <2>1. i \in b + 1 .. Len(f) /\ i \in 1 .. Len(g) /\ b + 1 \in 1 .. Len(g)
        BY <1>0
    <2>2. QED
        BY <2>1, Zenon DEF Agrees
  <1>2. ASSUME Loose(f, b), NEW i \in b + 1 .. Len(g)
        PROVE  g[i].part < Size(g[i].rec)
    <2>1. i \in b + 1 .. Len(f) /\ g[i].rec = f[i].rec /\ g[i].part = f[i].part
        BY <1>1
    <2>2. f[i].part < Size(f[i].rec)
        BY <1>2, <2>1, Zenon DEF Loose
    <2>3. QED
        BY <2>1, <2>2
  <1>3. ASSUME Simple(f, b), NEW i \in b + 1 .. Len(g)
        PROVE  g[i].rec = g[b + 1].rec /\ g[i].part = i - b /\ i - b < Size(g[b + 1].rec)
    <2>1. /\ i \in b + 1 .. Len(f) /\ g[i].rec = f[i].rec /\ g[i].part = f[i].part
          /\ g[b + 1].rec = f[b + 1].rec
        BY <1>1
    <2>2. f[i].rec = f[b + 1].rec /\ f[i].part = i - b /\ i - b < Size(f[b + 1].rec)
        BY <1>3, <2>1, Zenon DEF Simple
    <2>3. QED
        BY <2>1, <2>2
  <1>4. QED
      BY <1>2, <1>3, Zenon DEF Loose, Simple

\* A record ends where the next one begins: nothing whole runs past the first
\* unit of a whole record.
LEMMA WholeBefore ==
    ASSUME NEW f \in Seq(Unit), NEW b, Whole(f, b), NEW s \in Nat, s + 1 \in 1 .. b,
           f[s + 1].part = 1
    PROVE  Whole(f, s)
  <1>0. b \in 0 .. Len(f) /\ Len(f) \in Nat /\ b \in Nat /\ s \in 0 .. Len(f)
      BY DEF Whole
  <1>1. ASSUME NEW i \in 1 .. s
        PROVE  WholeUnit(f, s, i)
    <2>1. PICK p, r : p = f[i].part /\ r = f[i].rec
        OBVIOUS
    <2>2. i \in 1 .. b
        BY <1>0
    <2>3. /\ p \in 1 .. i /\ p <= Size(r) /\ i - p + Size(r) <= b
          /\ \A j \in 1 .. Size(r) : f[i - p + j].rec = r /\ f[i - p + j].part = j
        BY <2>1, <2>2, WholeAt
    <2>a. p \in 1 .. i /\ p <= Size(r) /\ i - p + Size(r) <= b /\ Size(r) \in Nat
        BY <2>3, SizeFacts
    <2>4. i - p + Size(r) <= s
      <3> SUFFICES ASSUME i - p + Size(r) > s PROVE FALSE
          BY <1>0, <2>a
      <3>1. PICK j : j = s + 1 - (i - p)
          OBVIOUS
      <3>2. j \in 1 .. Size(r) /\ i - p + j = s + 1 /\ j >= 2
          BY <1>0, <2>a, <3>1
      <3>3. f[s + 1].part = j
          BY <2>3, <3>2
      <3>4. QED
          BY <3>2, <3>3
    <2>5. QED
        BY <2>1, <2>3, <2>a, <2>4, Zenon DEF WholeUnit
  <1>2. QED
      BY <1>0, <1>1, Zenon DEF Whole, WholeUnit

\* A cut inside the whole records leaves whole records and the beginning of one.
LEMMA CutInside ==
    ASSUME NEW f \in Seq(Unit), NEW g \in Seq(Unit), NEW b, Whole(f, b),
           Len(g) < b, Agrees(f, g, Len(g))
    PROVE  Straight(g)
  <1>0. b \in 0 .. Len(f) /\ Len(f) \in Nat /\ b \in Nat /\ Len(g) \in Nat
      BY DEF Whole
  <1>1. PICK n : n = Len(g)
      OBVIOUS
  <1>2. PICK i \in 1 .. b : i = n + 1
      BY <1>0, <1>1
  <1>3. PICK p, r : p = f[i].part /\ r = f[i].rec
      OBVIOUS
  <1>4. /\ p \in 1 .. i /\ p <= Size(r) /\ i - p + Size(r) <= b
        /\ \A j \in 1 .. Size(r) : f[i - p + j].rec = r /\ f[i - p + j].part = j
      BY <1>3, WholeAt
  <1>a. p \in 1 .. i /\ p <= Size(r) /\ i - p + Size(r) <= b /\ Size(r) \in Nat /\ Size(r) >= 3
      BY <1>4, SizeFacts
  <1>5. PICK s : s = i - p
      OBVIOUS
  <1>6. /\ s \in Nat /\ s <= n /\ n \in Nat /\ s + 1 \in 1 .. b /\ i - p + 1 = s + 1 /\ 1 \in 1 .. Size(r)
        /\ n - s < Size(r) /\ s + Size(r) <= b
      BY <1>0, <1>1, <1>2, <1>a, <1>5
  <1>7. f[s + 1].part = 1
      BY <1>4, <1>6
  <1>8. Whole(f, s)
      BY <1>6, <1>7, WholeBefore
  <1>9. Agrees(f, g, s)
    <2>1. \A k \in 1 .. s : k \in 1 .. n
        BY <1>6
    <2>2. QED
        BY <1>1, <2>1 DEF Agrees
  <1>10. Whole(g, s)
      BY <1>1, <1>6, <1>8, <1>9, WholeAgrees
  <1>11. ASSUME NEW k \in s + 1 .. n
         PROVE  g[k].rec = r /\ g[k].part = k - s /\ k - s < Size(r)
    <2>1. k - s \in 1 .. Size(r) /\ i - p + (k - s) = k /\ k - s < Size(r) /\ k \in 1 .. n
        BY <1>0, <1>2, <1>a, <1>5, <1>6
    <2>2. f[k].rec = r /\ f[k].part = k - s
        BY <1>4, <2>1
    <2>3. g[k].rec = f[k].rec /\ g[k].part = f[k].part
        BY <1>1, <2>1 DEF Agrees
    <2>4. QED
        BY <2>1, <2>2, <2>3
  <1>12. Simple(g, s)
    <2>1. ASSUME NEW k \in s + 1 .. Len(g)
          PROVE  g[k].rec = g[s + 1].rec /\ g[k].part = k - s /\ k - s < Size(g[s + 1].rec)
      <3>1. s + 1 \in s + 1 .. n /\ k \in s + 1 .. n
          BY <1>1, <1>6
      <3>2. g[s + 1].rec = r /\ g[k].rec = r /\ g[k].part = k - s /\ k - s < Size(r)
          BY <1>11, <3>1
      <3>3. QED
          BY <3>2
    <2>2. QED
        BY <2>1, Zenon DEF Simple
  <1>13. QED
      BY <1>10, <1>12 DEF Straight

\* A log keeps its shape when it is cut, and when units of it are damaged.
LEMMA CutShape ==
    ASSUME NEW f \in Seq(Unit), NEW g \in Seq(Unit), Len(g) <= Len(f), Agrees(f, g, Len(g))
    PROVE  (Straight(f) => Straight(g)) /\ (Shaped(f) => Shaped(g))
  <1>0. Len(f) \in Nat /\ Len(g) \in Nat
      OBVIOUS
  <1>1. ASSUME NEW b, Whole(f, b)
        PROVE  /\ b \in Nat
               /\ Len(g) < b => Straight(g)
               /\ ~(Len(g) < b) => /\ Whole(g, b) /\ (Loose(f, b) => Loose(g, b))
                                   /\ (Simple(f, b) => Simple(g, b))
    <2>1. b \in Nat
        BY <1>0, <1>1 DEF Whole
    <2>2. Len(g) < b => Straight(g)
        BY <1>1, CutInside
    <2>3. ASSUME ~(Len(g) < b)
          PROVE  Whole(g, b) /\ (Loose(f, b) => Loose(g, b)) /\ (Simple(f, b) => Simple(g, b))
      <3>1. b <= Len(g) /\ \A k \in 1 .. b : k \in 1 .. Len(g)
          BY <1>0, <2>1, <2>3
      <3>2. Agrees(f, g, b)
          BY <3>1, Zenon DEF Agrees
      <3>3. Whole(g, b)
          BY <1>1, <3>1, <3>2, WholeAgrees
      <3>4. QED
          BY <2>1, <3>1, <3>3, RestAgrees
    <2>4. QED
        BY <2>1, <2>2, <2>3
  <1>2. ASSUME Straight(f) PROVE Straight(g)
    <2>1. PICK b : Whole(f, b) /\ Simple(f, b)
        BY <1>2 DEF Straight
    <2>2. QED
        BY <1>1, <2>1, Zenon DEF Straight
  <1>3. ASSUME Shaped(f) PROVE Shaped(g)
    <2>1. PICK b : Whole(f, b) /\ Loose(f, b)
        BY <1>3 DEF Shaped
    <2>2. CASE Len(g) < b
        BY <1>1, <2>1, <2>2, StraightShaped, Zenon
    <2>3. CASE ~(Len(g) < b)
        BY <1>1, <2>1, <2>3, Zenon DEF Shaped
    <2>4. QED
        BY <2>2, <2>3
  <1>4. QED
      BY <1>2, <1>3

LEMMA WholeStraight ==
    ASSUME NEW f \in Seq(Unit), Whole(f, Len(f))
    PROVE  Straight(f) /\ Loose(f, Len(f)) /\ Simple(f, Len(f))
  <1>1. \A i \in Len(f) + 1 .. Len(f) : FALSE
      OBVIOUS
  <1>2. Loose(f, Len(f)) /\ Simple(f, Len(f))
      BY <1>1, Zenon DEF Loose, Simple
  <1>3. QED
      BY <1>2, Zenon DEF Straight

LEMMA EmptyLog == /\ <<>> \in Seq(Unit) /\ Len(<<>>) = 0 /\ Whole(<<>>, 0) /\ Sound(<<>>)
                  /\ Straight(<<>>)
  <1>1. <<>> \in Seq(Unit) /\ Len(<<>>) = 0 /\ (\A i \in 1 .. 0 : FALSE) /\ 0 \in 0 .. 0
      OBVIOUS
  <1>2. Whole(<<>>, 0)
      BY <1>1 DEF Whole
  <1>3. Sound(<<>>)
      BY <1>1, <1>2 DEF Sound, Unhurt
  <1>4. QED
      BY <1>1, <1>2, <1>3, WholeStraight

\* An append of a whole record.
LEMMA AppendWhole ==
    ASSUME NEW f \in Seq(Unit), NEW r \in {Meta, Fragment} \cup 1 .. MaxRecs, Whole(f, Len(f)),
           NEW g, g = f \o Encode(r)
    PROVE  /\ g \in Seq(Unit) /\ Len(g) = Len(f) + Size(r) /\ Whole(g, Len(g))
           /\ \A i \in 1 .. Len(f) : g[i] = f[i]
           /\ EndsAt(g, Len(g), r) /\ (Unhurt(f) => Unhurt(g))
  <1>0. Len(f) \in Nat /\ Size(r) \in Nat /\ Size(r) >= 3
      BY SizeFacts
  <1>1. /\ Encode(r) \in Seq(Unit) /\ Len(Encode(r)) = Size(r)
        /\ \A j \in 1 .. Size(r) : Encode(r)[j] = [rec |-> r, part |-> j, bad |-> FALSE]
      BY EncodeUnits
  <1>2. PICK e \in Seq(Unit) : e = Encode(r)
      BY <1>1
  <1>3. /\ g = f \o e /\ Len(e) = Size(r)
        /\ \A j \in 1 .. Size(r) : e[j] = [rec |-> r, part |-> j, bad |-> FALSE]
      BY <1>1, <1>2
  <1>4. g \in Seq(Unit) /\ Len(g) = Len(f) + Size(r)
    <2>1. g = f \o e /\ Len(e) = Size(r)
        BY <1>3
    <2>2. \A x, y \in Seq(Unit) : x \o y \in Seq(Unit) /\ Len(x \o y) = Len(x) + Len(y)
        OBVIOUS
    <2>3. QED
        BY <2>1, <2>2, Zenon
  <1>5. ASSUME NEW i \in 1 .. Len(f)
        PROVE  g[i] = f[i]
      BY <1>0, <1>3
  <1>6. ASSUME NEW j \in 1 .. Size(r)
        PROVE  g[Len(f) + j] = [rec |-> r, part |-> j, bad |-> FALSE]
    <2>1. Len(f) + j \in 1 .. Len(f) + Size(r) /\ Len(f) + j > Len(f) /\ Len(f) + j - Len(f) = j
        BY <1>0
    <2>2. g[Len(f) + j] = e[Len(f) + j - Len(f)]
        BY <1>0, <1>3, <2>1
    <2>3. QED
        BY <1>3, <2>1, <2>2
  <1>7. PICK n \in Nat : n = Len(f)
      BY <1>0
  <1>8. ASSUME NEW i \in 1 .. Len(g)
        PROVE  WholeUnit(g, Len(g), i)
    <2>1. CASE i <= n
      <3>1. PICK p, x : p = f[i].part /\ x = f[i].rec
          OBVIOUS
      <3>2. i \in 1 .. Len(f)
          BY <1>4, <1>7, <2>1
      <3>3. /\ p \in 1 .. i /\ p <= Size(x) /\ i - p + Size(x) <= Len(f)
            /\ \A j \in 1 .. Size(x) : f[i - p + j].rec = x /\ f[i - p + j].part = j
        <4>1. WholeUnit(f, Len(f), i)
            BY <3>2, Zenon DEF Whole, WholeUnit
        <4>2. QED
            BY <3>1, <4>1, Zenon DEF WholeUnit
      <3>a. p \in 1 .. i /\ p <= Size(x) /\ i - p + Size(x) <= Len(f) /\ Size(x) \in Nat
          BY <3>3, SizeFacts
      <3>4. ASSUME NEW j \in 1 .. Size(x)
            PROVE  g[i - p + j].rec = x /\ g[i - p + j].part = j
        <4>1. i - p + j \in 1 .. Len(f)
            BY <1>0, <3>a
        <4>2. QED
            BY <1>5, <3>3, <4>1
      <3>5. g[i].part = p /\ g[i].rec = x /\ i - p + Size(x) <= Len(g)
          BY <1>0, <1>4, <1>5, <3>1, <3>2, <3>a
      <3>6. QED
          BY <3>a, <3>4, <3>5 DEF WholeUnit
    <2>2. CASE ~(i <= n)
      <3>1. PICK k : k = i - n
          OBVIOUS
      <3>2. k \in 1 .. Size(r) /\ i = n + k /\ i - k = n /\ k \in 1 .. i
          BY <1>0, <1>4, <1>7, <2>2, <3>1
      <3>3. g[i] = [rec |-> r, part |-> k, bad |-> FALSE]
          BY <1>6, <1>7, <3>2
      <3>4. g[i].part = k /\ g[i].rec = r
          BY <3>3
      <3>a. ASSUME NEW j \in 1 .. Size(r)
            PROVE  g[n + j].rec = r /\ g[n + j].part = j
        <4>1. g[n + j] = [rec |-> r, part |-> j, bad |-> FALSE]
            BY <1>6, <1>7
        <4>2. QED
            BY <4>1
      <3>5. \A j \in 1 .. Size(r) : g[i - k + j].rec = r /\ g[i - k + j].part = j
          BY <3>2, <3>a, Zenon
      <3>6. i - k + Size(r) <= Len(g) /\ k <= Size(r)
          BY <1>0, <1>4, <1>7, <3>2
      <3>7. QED
          BY <3>2, <3>4, <3>5, <3>6, WholeUnitIs, Zenon
    <2>3. QED
        BY <2>1, <2>2
  <1>9. Whole(g, Len(g))
    <2>1. Len(g) \in 0 .. Len(g)
        BY <1>0, <1>4
    <2>2. QED
        BY <1>8, <2>1, Zenon DEF Whole, WholeUnit
  <1>10. EndsAt(g, Len(g), r)
    <2>1. Size(r) \in 1 .. Size(r)
        BY <1>0
    <2>2. g[Len(g)] = [rec |-> r, part |-> Size(r), bad |-> FALSE]
        BY <1>4, <1>6, <2>1
    <2>3. QED
        BY <2>2 DEF EndsAt
  <1>11. ASSUME Unhurt(f), NEW i \in 1 .. Len(g)
         PROVE  ~g[i].bad
    <2>1. CASE i <= n
      <3>1. i \in 1 .. Len(f)
          BY <1>4, <1>7, <2>1
      <3>2. QED
          BY <1>5, <1>11, <3>1 DEF Unhurt
    <2>2. CASE ~(i <= n)
      <3>1. PICK k \in 1 .. Size(r) : i = n + k
        <4>1. i - n \in 1 .. Size(r) /\ i = n + (i - n)
            BY <1>0, <1>4, <1>7, <2>2
        <4>2. QED
            BY <4>1
      <3>2. g[i] = [rec |-> r, part |-> k, bad |-> FALSE]
          BY <1>6, <1>7, <3>1
      <3>3. QED
          BY <3>2
    <2>3. QED
        BY <2>1, <2>2
  <1>12. QED
      BY <1>4, <1>5, <1>9, <1>10, <1>11, Zenon DEF Unhurt

LEMMA MetaLog ==
    /\ Encode(Meta) \in Seq(Unit) /\ Len(Encode(Meta)) = 4 /\ Sound(Encode(Meta))
    /\ EndsAt(Encode(Meta), 4, Meta)
  <1>1. PICK f, g \in Seq(Unit) : f = <<>> /\ g = Encode(Meta)
    <2>1. Encode(Meta) \in Seq(Unit) /\ <<>> \in Seq(Unit)
        BY EncodeUnits, EmptyLog
    <2>2. QED
        BY <2>1
  <1>2. Whole(f, Len(f)) /\ Unhurt(f) /\ Len(f) = 0
      BY <1>1, EmptyLog DEF Sound
  <1>3. g = f \o Encode(Meta)
      BY <1>1
  <1>4. /\ Len(g) = Len(f) + Size(Meta) /\ Whole(g, Len(g)) /\ EndsAt(g, Len(g), Meta) /\ Unhurt(g)
      BY <1>2, <1>3, AppendWhole
  <1>5. Len(g) = 4
      BY <1>2, <1>4, SizeFacts
  <1>6. QED
      BY <1>1, <1>4, <1>5 DEF Sound

\* The ways a server writes a log, or a dying one leaves it.
Edit(f, g) ==
    \/ g = f \/ g = <<>> \/ g = Encode(Meta)
    \/ \E n \in 0 .. Len(f) : g = SubSeq(f, 1, n)
    \/ Whole(f, Len(f)) /\ \E r \in 1 .. MaxRecs : g = f \o Encode(r)

LEMMA CutFacts ==
    ASSUME NEW f \in Seq(Unit), NEW n \in 0 .. Len(f), NEW g, g = SubSeq(f, 1, n)
    PROVE  /\ g \in Seq(Unit) /\ Len(g) = n /\ \A i \in 1 .. n : g[i] = f[i]
           /\ Len(g) <= Len(f) /\ Agrees(f, g, Len(g)) /\ (Unhurt(f) => Unhurt(g))
  <1>0. Len(f) \in Nat /\ n \in Nat /\ 0 + n <= Len(f) /\ 0 + 1 = 1 /\ 0 + n = n
      OBVIOUS
  <1>1. /\ SubSeq(f, 0 + 1, 0 + n) \in Seq(Unit) /\ Len(SubSeq(f, 0 + 1, 0 + n)) = n
        /\ \A j \in 1 .. n : SubSeq(f, 0 + 1, 0 + n)[j] = f[0 + j]
      BY <1>0, SubSeqFacts
  <1>2. g \in Seq(Unit) /\ Len(g) = n
      BY <1>0, <1>1, Zenon
  <1>3. ASSUME NEW i \in 1 .. n PROVE g[i] = f[i]
    <2>1. 0 + i = i
        OBVIOUS
    <2>2. QED
        BY <1>0, <1>1, <2>1, Zenon
  <1>4. Agrees(f, g, Len(g))
      BY <1>2, <1>3 DEF Agrees
  <1>5. \A i \in 1 .. n : i \in 1 .. Len(f)
      BY <1>0
  <1>6. Unhurt(f) => Unhurt(g)
      BY <1>2, <1>3, <1>5, Zenon DEF Unhurt
  <1>7. QED
      BY <1>0, <1>2, <1>3, <1>4, <1>6

LEMMA EditShape ==
    ASSUME NEW f \in Seq(Unit), NEW g, Edit(f, g)
    PROVE  /\ g \in Seq(Unit) /\ (Straight(f) => Straight(g)) /\ (Shaped(f) => Shaped(g))
           /\ (Unhurt(f) => Unhurt(g))
  <1>1. CASE g = f
      BY <1>1
  <1>2. ASSUME g \in Seq(Unit), Sound(g)
        PROVE  g \in Seq(Unit) /\ Straight(g) /\ Shaped(g) /\ Unhurt(g)
      BY <1>2, WholeStraight, StraightShaped DEF Sound
  <1>3. CASE g = <<>>
      BY <1>2, <1>3, EmptyLog
  <1>4. CASE g = Encode(Meta)
      BY <1>2, <1>4, MetaLog
  <1>5. ASSUME NEW n \in 0 .. Len(f), g = SubSeq(f, 1, n)
        PROVE  /\ g \in Seq(Unit) /\ (Straight(f) => Straight(g)) /\ (Shaped(f) => Shaped(g))
               /\ (Unhurt(f) => Unhurt(g))
    <2>1. g \in Seq(Unit) /\ Len(g) <= Len(f) /\ Agrees(f, g, Len(g)) /\ (Unhurt(f) => Unhurt(g))
        BY <1>5, CutFacts
    <2>2. QED
        BY <2>1, CutShape
  <1>6. ASSUME Whole(f, Len(f)), NEW r \in 1 .. MaxRecs, g = f \o Encode(r)
        PROVE  /\ g \in Seq(Unit) /\ Straight(g) /\ Shaped(g) /\ (Unhurt(f) => Unhurt(g))
    <2>1. r \in {Meta, Fragment} \cup 1 .. MaxRecs
        OBVIOUS
    <2>2. g \in Seq(Unit) /\ Whole(g, Len(g)) /\ (Unhurt(f) => Unhurt(g))
        BY <1>6, <2>1, AppendWhole, Zenon
    <2>3. QED
        BY <2>2, WholeStraight, StraightShaped
  <1>7. QED
      BY <1>1, <1>3, <1>4, <1>5, <1>6, Zenon DEF Edit

\* A unit that is damaged, or restored.
SetUnit(f, k, u) == [f EXCEPT ![k] = u]

LEMMA FlipShape ==
    ASSUME NEW f \in Seq(Unit), NEW k \in 1 .. Len(f), NEW u \in Unit,
           u.rec = f[k].rec, u.part = f[k].part, NEW g, g = SetUnit(f, k, u)
    PROVE  /\ g \in Seq(Unit) /\ Len(g) = Len(f) /\ Agrees(f, g, Len(f)) /\ g[k] = u
           /\ (Straight(f) => Straight(g)) /\ (Shaped(f) => Shaped(g))
  <1>0. Len(f) \in Nat
      OBVIOUS
  <1>4. g \in Seq(Unit) /\ Len(g) = Len(f) /\ g[k] = u /\ \A i \in 1 .. Len(f) : i # k => g[i] = f[i]
      BY DEF SetUnit
  <1>5. Agrees(f, g, Len(f))
      BY <1>4 DEF Agrees
  <1>6. Len(g) <= Len(f) /\ Agrees(f, g, Len(g))
      BY <1>0, <1>4, <1>5
  <1>7. (Straight(f) => Straight(g)) /\ (Shaped(f) => Shaped(g))
      BY <1>4, <1>6, CutShape
  <1>8. QED
      BY <1>4, <1>5, <1>7

\* One unit, damaged.
LEMMA BadUnit ==
    ASSUME NEW c \in Unit
    PROVE  LET u == [c EXCEPT !.bad = TRUE]
           IN u \in Unit /\ u.rec = c.rec /\ u.part = c.part /\ u.bad
  BY DEF Unit

\* One unit, damaged or restored.
LEMMA FlippedUnit ==
    ASSUME NEW c \in Unit, NEW u, u = [c EXCEPT !.bad = ~@]
    PROVE  u \in Unit /\ u.rec = c.rec /\ u.part = c.part /\ (~c.bad => u.bad)
  BY DEF Unit

\* The last unit of a record stays that when the record is not touched.
LEMMA EndsAgrees ==
    ASSUME NEW f, NEW g, NEW n, NEW i \in 1 .. n, NEW x, Agrees(f, g, n), EndsAt(f, i, x)
    PROVE  EndsAt(g, i, x)
  BY Zenon DEF Agrees, EndsAt

-----------------------------------------------------------------------------
(***************************************************************************)
(* What Replay makes of such logs.                                         *)
(***************************************************************************)
LEMMA SoundReplay ==
    ASSUME NEW f \in Seq(Unit), Sound(f)
    PROVE  ~Replay(f).corrupt /\ \A i \in 1 .. Len(f) : f[i].rec \in Records(f)
  <1>1. Whole(f, Len(f)) /\ Loose(f, Len(f)) /\ Simple(f, Len(f)) /\ Len(f) \in Nat
      BY WholeStraight DEF Sound
  <1>2. PICK res : res = Replay(f)
      OBVIOUS
  <1>3. Finds(f, Len(f), 0, res)
      BY <1>1, <1>2, ReplayFinds
  <1>4. 0 + 1 = 1
      OBVIOUS
  <1>5. \A i \in 0 + 1 .. Len(f) : ~f[i].bad
      BY <1>4, Zenon DEF Sound, Unhurt
  <1>6. ~res.corrupt
      BY <1>1, <1>3, <1>5, Zenon DEF Finds
  <1>7. ASSUME NEW i \in 1 .. Len(f)
        PROVE  f[i].rec \in Records(f)
    <2>1. PICK k \in 1 .. Len(res.recs) : res.recs[k] = f[i].rec
        BY <1>3, <1>4, <1>6, Zenon DEF Finds
    <2>2. QED
        BY <1>2, <2>1, Zenon DEF Records
  <1>8. QED
      BY <1>2, <1>6, <1>7

Opened(f, res, g) ==
    /\ res.valid \in 0 .. Len(f) /\ g \in Seq(Unit) /\ Len(g) = res.valid /\ Sound(g)
    /\ Edit(f, g) /\ res.torn \in BOOLEAN /\ (res.torn \/ Len(g) = Len(f))
    /\ \A i \in 1 .. Len(f) : \A x : EndsAt(f, i, x) => i \in 1 .. Len(g) /\ EndsAt(g, i, x)

\* A log that Replay accepts, truncated to its verified length.
LEMMA OpenedLog ==
    ASSUME NEW f \in Seq(Unit), Shaped(f), NEW res, res = Replay(f), ~res.corrupt,
           NEW g, g = SubSeq(f, 1, res.valid)
    PROVE  Opened(f, res, g)
  <1>1. PICK b : Whole(f, b) /\ Loose(f, b)
      BY DEF Shaped
  <1>2. Finds(f, b, 0, res)
      BY <1>1, ReplayFinds
  <1>3. b \in 0 .. Len(f) /\ Len(f) \in Nat /\ b \in Nat
      BY <1>1 DEF Whole
  <1>4. res.valid = b /\ (res.torn <=> b < Len(f)) /\ res \in Result
      BY <1>2, Zenon DEF Finds
  <1>a. 0 + 1 = 1
      OBVIOUS
  <1>b. \A i \in 1 .. b : ~f[i].bad
      BY <1>2, <1>a, Zenon DEF Finds
  <1>5. /\ g \in Seq(Unit) /\ Len(g) = b /\ (\A i \in 1 .. b : g[i] = f[i])
        /\ Len(g) <= Len(f) /\ Agrees(f, g, Len(g))
    <2>1. g = SubSeq(f, 1, b)
        BY <1>4
    <2>2. QED
        BY <1>3, <2>1, CutFacts, Zenon
  <1>6. Whole(g, b)
    <2>1. Agrees(f, g, b) /\ b <= Len(g)
        BY <1>3, <1>5
    <2>2. QED
        BY <1>1, <1>5, <2>1, WholeAgrees
  <1>7. Sound(g)
      BY <1>5, <1>6, <1>b, Zenon DEF Sound, Unhurt
  <1>8. ASSUME NEW i \in 1 .. Len(f), NEW x, EndsAt(f, i, x)
        PROVE  i \in 1 .. Len(g) /\ EndsAt(g, i, x)
    <2>1. i \in 1 .. b
      <3>1. f[i].rec = x /\ f[i].part = Size(x) /\ Size(x) \in Nat
          BY <1>8, SizeFacts DEF EndsAt
      <3>2. ~(f[i].part < Size(f[i].rec))
          BY <3>1
      <3>3. i \notin b + 1 .. Len(f)
          BY <1>1, <3>2, Zenon DEF Loose
      <3>4. QED
          BY <1>3, <3>3
    <2>2. QED
        BY <1>5, <1>8, <2>1, EndsAgrees
  <1>9. Edit(f, g)
      BY <1>3, <1>4 DEF Edit
  <1>10. res.torn \in BOOLEAN
      BY <1>4 DEF Result
  <1>11. res.torn \/ Len(g) = Len(f)
      BY <1>3, <1>4, <1>5
  <1>12. QED
      BY <1>3, <1>4, <1>5, <1>7, <1>8, <1>9, <1>10, <1>11 DEF Opened

LEMMA NoRecords ==
    ASSUME NEW f \in Seq(Unit), Shaped(f), NEW res, res = Replay(f), ~res.corrupt, res.recs = <<>>
    PROVE  res \in {Clean(0), Torn(0)} /\ \A i \in 1 .. Len(f) : \A x : ~EndsAt(f, i, x)
  <1>1. PICK b : Whole(f, b) /\ Loose(f, b)
      BY DEF Shaped
  <1>2. Finds(f, b, 0, res)
      BY <1>1, ReplayFinds
  <1>3. b \in 0 .. Len(f) /\ Len(f) \in Nat /\ b \in Nat
      BY <1>1 DEF Whole
  <1>4. res.valid = b /\ res \in Result
      BY <1>2, Zenon DEF Finds
  <1>5. b = 0
    <2>1. Len(res.recs) = 0 /\ \A k \in 1 .. 0 : FALSE
        OBVIOUS
    <2>2. \A i \in 0 + 1 .. b : FALSE
        BY <1>2, <2>1, Zenon DEF Finds
    <2>3. QED
        BY <1>3, <2>2
  <1>6. res = [corrupt |-> FALSE, torn |-> res.torn, valid |-> 0, recs |-> <<>>] /\ res.torn \in BOOLEAN
      BY <1>4, <1>5 DEF Result
  <1>7. res \in {Clean(0), Torn(0)}
    <2>1. /\ Clean(0) = [corrupt |-> FALSE, torn |-> FALSE, valid |-> 0, recs |-> <<>>]
          /\ Torn(0) = [corrupt |-> FALSE, torn |-> TRUE, valid |-> 0, recs |-> <<>>]
        BY EndingIs
    <2>2. QED
        BY <1>6, <2>1
  <1>8. ASSUME NEW i \in 1 .. Len(f), NEW x, EndsAt(f, i, x)
        PROVE  FALSE
    <2>1. f[i].rec = x /\ f[i].part = Size(x) /\ Size(x) \in Nat
        BY <1>8, SizeFacts DEF EndsAt
    <2>2. ~(f[i].part < Size(f[i].rec))
        BY <2>1
    <2>3. b + 1 = 1
        BY <1>5
    <2>4. QED
        BY <1>1, <2>2, <2>3, Zenon DEF Loose
  <1>9. QED
      BY <1>7, <1>8

LEMMA ReplayEmpty == Replay(<<>>) = Clean(0)
  <1>1. PICK f \in Seq(Unit) : f = <<>>
      BY EmptyLog
  <1>2. Sound(f) /\ Len(f) = 0 /\ Shaped(f) /\ Whole(f, 0) /\ Loose(f, 0)
      BY <1>1, EmptyLog, StraightShaped, WholeStraight
  <1>3. PICK res : res = Replay(f)
      OBVIOUS
  <1>4. ~res.corrupt
      BY <1>2, <1>3, SoundReplay
  <1>5. Finds(f, 0, 0, res)
      BY <1>2, <1>3, ReplayFinds
  <1>6. res.recs \in Seq(Int) /\ res.torn \in BOOLEAN
      BY <1>5 DEF Finds, Result
  <1>7. ~res.torn
      BY <1>2, <1>4, <1>5 DEF Finds
  <1>8. res.recs = <<>>
    <2>1. \A i \in 0 + 1 .. 0 : FALSE
        OBVIOUS
    <2>2. \A k \in 1 .. Len(res.recs) : FALSE
        BY <1>5, <2>1, Zenon DEF Finds
    <2>3. Len(res.recs) = 0
        BY <1>6, <2>2
    <2>4. QED
        BY <1>6, <2>3
  <1>9. res \in {Clean(0), Torn(0)}
      BY <1>2, <1>3, <1>4, <1>8, NoRecords
  <1>10. Torn(0).torn
      BY EndingFacts
  <1>11. QED
      BY <1>1, <1>3, <1>7, <1>9, <1>10

LEMMA RefusedLog ==
    ASSUME NEW f \in Seq(Unit), Straight(f), Replay(f).corrupt
    PROVE  \E i \in 1 .. Len(f) : f[i].bad
  <1>1. PICK b : Whole(f, b) /\ Simple(f, b)
      BY DEF Straight
  <1>2. Finds(f, b, 0, Replay(f))
      BY <1>1, SimpleLoose, ReplayFinds
  <1>3. 0 + 1 = 1
      OBVIOUS
  <1>4. QED
      BY <1>1, <1>2, <1>3, Zenon DEF Finds

\* A log that Replay accepts in full.
LEMMA CleanLog ==
    ASSUME NEW f \in Seq(Unit), Shaped(f), ~Replay(f).corrupt, ~Replay(f).torn
    PROVE  Sound(f)
  <1>1. PICK b : Whole(f, b) /\ Loose(f, b)
      BY DEF Shaped
  <1>2. PICK res : res = Replay(f)
      OBVIOUS
  <1>3. Finds(f, b, 0, res)
      BY <1>1, <1>2, ReplayFinds
  <1>4. b \in 0 .. Len(f) /\ Len(f) \in Nat /\ b \in Nat
      BY <1>1 DEF Whole
  <1>5. ~(b < Len(f))
      BY <1>2, <1>3, Zenon DEF Finds
  <1>6. b = Len(f)
      BY <1>4, <1>5
  <1>7. 0 + 1 = 1
      OBVIOUS
  <1>8. \A i \in 1 .. b : ~f[i].bad
      BY <1>2, <1>3, <1>7, Zenon DEF Finds
  <1>9. QED
      BY <1>1, <1>6, <1>8, Zenon DEF Sound, Unhurt

\* A whole log with a damaged unit is refused.
LEMMA HurtLog ==
    ASSUME NEW f \in Seq(Unit), Whole(f, Len(f)), NEW k \in 1 .. Len(f), f[k].bad
    PROVE  Replay(f).corrupt
  <1>1. Loose(f, Len(f))
      BY WholeStraight
  <1>2. Finds(f, Len(f), 0, Replay(f))
      BY <1>1, ReplayFinds
  <1>3. 0 + 1 = 1
      OBVIOUS
  <1>4. QED
      BY <1>2, <1>3, Zenon DEF Finds

\* The first n units of a log are undamaged.
Clear(f, n) == \A i \in 1 .. n : ~f[i].bad

\* A record in front of all damage is handed over, whatever comes after it.
LEMMA FrontRecords ==
    ASSUME NEW f \in Seq(Unit), Shaped(f), NEW e \in 1 .. Len(f), NEW x, EndsAt(f, e, x),
           Clear(f, e)
    PROVE  x \in Records(f)
  <1>1. PICK b : Whole(f, b) /\ Loose(f, b)
      BY DEF Shaped
  <1>2. PICK res : res = Replay(f)
      OBVIOUS
  <1>3. Finds(f, b, 0, res)
      BY <1>1, <1>2, ReplayFinds
  <1>4. b \in 0 .. Len(f) /\ Len(f) \in Nat /\ b \in Nat
      BY <1>1 DEF Whole
  <1>5. f[e].part = Size(f[e].rec) /\ f[e].rec = x /\ f[e].part \in Nat
      BY UnitFacts DEF EndsAt
  <1>6. e \in 1 .. b
    <2> SUFFICES ASSUME e \notin 1 .. b PROVE FALSE
        OBVIOUS
    <2>1. e \in b + 1 .. Len(f)
        BY <1>4
    <2>2. f[e].part < Size(f[e].rec)
        BY <1>1, <2>1, Zenon DEF Loose
    <2>3. QED
        BY <1>5, <2>2
  <1>7. 0 + 1 = 1
      OBVIOUS
  <1>8. Reaches(f, b, 0, res)
      BY <1>3, Zenon DEF Finds
  <1>9. PICK k \in 1 .. Len(res.recs) : res.recs[k] = x
      BY <1>5, <1>6, <1>7, <1>8, Zenon DEF Reaches, Clear
  <1>10. QED
      BY <1>2, <1>9, Zenon DEF Records

-----------------------------------------------------------------------------
(***************************************************************************)
(* The server.  What each queue's log, directory entry and clients are     *)
(* owed at every moment; D has, of each queue, the records that somebody   *)
(* other than the server has taken away.                                   *)
(***************************************************************************)
Owed(q) == confirmed[q] \cup (IF q \in created THEN {Meta} ELSE {})

StepOf(q) == IF creating.q = q THEN creating.step ELSE "none"

\* A name that a server which has got past it does not serve.
PassedOver(q) == Alive /\ q \notin queues /\ q \notin todo

DiskType ==
    /\ file \in [Name -> Seq(Unit)] /\ synced \in [Name -> Nat]
    /\ \A q \in Name : synced[q] <= Len(file[q])
    /\ dirent \in [Name -> {"none", "cached", "stable"}]

ServerType ==
    /\ proc \in {"down", "refused", "booting", "up", "closing"}
    /\ todo \subseteq Name /\ queues \subseteq Name /\ waiting \subseteq queues
    /\ creating \in [q : Name \cup {0}, step : {"none", "open", "dirsync", "write", "sync"}]

ToldType ==
    /\ last \in [Name -> 0 .. MaxRecs]
    /\ created \subseteq Name /\ confirmed \in [Name -> SUBSET (1 .. MaxRecs)]

ModesInv ==
    /\ ~Alive => todo = {} /\ queues = {} /\ creating = NoCreate /\ waiting = {}
    /\ proc = "booting" => creating = NoCreate /\ waiting = {}
    /\ proc \in {"up", "closing"} => todo = {}
    /\ creating.step = "none" => creating = NoCreate
    /\ creating.step # "none" => creating.q \in Name /\ creating.q \notin queues

\* What is owed is in the log as far as it was fsynced, and nothing is owed of
\* a log that may vanish or be started over.
Owing(D, q) ==
    /\ \A x \in Owed(q) : x \in D[q] \/ \E i \in 1 .. synced[q] : EndsAt(file[q], i, x)
    /\ PassedOver(q) => Owed(q) \subseteq D[q]
    /\ ParentsFollow /\ dirent[q] = "cached" => Owed(q) \subseteq D[q]

Kept(q) ==
    /\ Shaped(file[q])
    /\ dirent[q] = "none" => file[q] = <<>>
    /\ q \in queues => /\ Sound(file[q]) /\ dirent[q] # "none"
                       /\ ParentsFollow => dirent[q] = "stable"
    /\ q \in waiting => /\ Len(file[q]) \in Nat \ {0} /\ EndsAt(file[q], Len(file[q]), last[q])
                        /\ last[q] \in 1 .. MaxRecs

Made(q) ==
    /\ StepOf(q) \in {"dirsync", "write"} => file[q] = <<>>
    /\ StepOf(q) = "sync" => file[q] = Encode(Meta)
    /\ StepOf(q) \in {"dirsync", "write", "sync"} => dirent[q] # "none"
    /\ StepOf(q) \in {"write", "sync"} /\ ParentsFollow => dirent[q] = "stable"

Usable(q) ==
    PassedOver(q) /\ q \notin botched /\ StepOf(q) = "none"
      => Replay(file[q]) \in {Clean(0), Torn(0)}

QueueInv(D, q) == Owing(D, q) /\ Kept(q) /\ Made(q) /\ Usable(q)

Types == DiskType /\ ServerType /\ ToldType

Base(D) == Types /\ ModesInv /\ \A q \in Name : QueueInv(D, q)

\* A queue that a step leaves alone.
LEMMA SameQueue ==
    ASSUME NEW D, NEW q, QueueInv(D, q),
           file'[q] = file[q], synced'[q] = synced[q], dirent'[q] = dirent[q],
           last'[q] = last[q], Owed(q)' = Owed(q),
           q \in queues' => q \in queues, q \in waiting' => q \in waiting,
           StepOf(q)' \in {"none", "open"} \/ StepOf(q)' = StepOf(q),
           PassedOver(q)' => Owed(q) \subseteq D[q],
           PassedOver(q)' /\ q \notin botched' /\ StepOf(q)' = "none"
             => Replay(file[q]) \in {Clean(0), Torn(0)}
    PROVE  QueueInv(D, q)'
  <1>1. Owing(D, q)'
      BY Zenon DEF Owing, QueueInv
  <1>2. Kept(q)'
      BY Zenon DEF Kept, QueueInv
  <1>3. Made(q)'
    <2>1. CASE StepOf(q)' \in {"none", "open"}
        BY <2>1 DEF Made
    <2>2. CASE StepOf(q)' = StepOf(q)
        BY <2>2, Zenon DEF Made, QueueInv
    <2>3. QED
        BY <2>1, <2>2
  <1>4. Usable(q)'
      BY Zenon DEF Usable
  <1>5. QED
      BY <1>1, <1>2, <1>3, <1>4 DEF QueueInv

LEMMA ExceptFacts ==
    ASSUME NEW S, NEW T, NEW F \in [S -> T], NEW a \in S, NEW v \in T, NEW G,
           G = [F EXCEPT ![a] = v]
    PROVE  G \in [S -> T] /\ G[a] = v /\ \A z \in S : z # a => G[z] = F[z]
  OBVIOUS

\* What a queue was owed stays owed while the clients are told nothing.
LEMMA OwedSame ==
    ASSUME UNCHANGED told
    PROVE  \A q : Owed(q)' = Owed(q)
  BY Zenon DEF told, Owed

LEMMA OwedFacts ==
    ASSUME NEW q \in Name, ToldType
    PROVE  Owed(q) \subseteq {Meta} \cup 1 .. MaxRecs
  BY DEF Owed, ToldType

\* The end of a process, however it comes about.
LEMMA DiesBase ==
    ASSUME NEW D, Base(D), Dies, proc' \in {"down", "refused"}, UNCHANGED told, DiskType',
           \A q \in Name :
             /\ Shaped(file'[q]) /\ (dirent'[q] = "none" => file'[q] = <<>>)
             /\ dirent'[q] = "cached" => dirent[q] = "cached"
             /\ \A x \in Owed(q) : x \in D[q] \/ \E i \in 1 .. synced'[q] : EndsAt(file'[q], i, x)
    PROVE  Base(D)'
  <1>1. Types /\ ModesInv /\ \A q \in Name : QueueInv(D, q)
      BY DEF Base
  <1>2. ~Alive'
      BY DEF Alive
  <1>3. todo' = {} /\ queues' = {} /\ creating' = NoCreate /\ waiting' = {}
      BY Zenon DEF Dies
  <1>4. ServerType'
      BY <1>3 DEF ServerType, NoCreate
  <1>5. ToldType'
      BY <1>1 DEF ToldType, Types, told
  <1>6. ModesInv'
      BY <1>2, <1>3 DEF ModesInv, NoCreate, Alive
  <1>7. ASSUME NEW q \in Name
        PROVE  QueueInv(D, q)'
    <2>1. Owed(q)' = Owed(q)
        BY OwedSame
    <2>2. StepOf(q)' = "none" /\ q \notin queues' /\ q \notin waiting' /\ ~PassedOver(q)'
      <3>1. q # 0
          BY ManagerAssumption DEF Name
      <3>2. QED
          BY <1>2, <1>3, <3>1 DEF StepOf, NoCreate, PassedOver
    <2>3. Owing(D, q)
        BY <1>1, Zenon DEF QueueInv
    <2>4. Owing(D, q)'
        BY <2>1, <2>2, <2>3, Zenon DEF Owing
    <2>5. Kept(q)'
        BY <2>2, Zenon DEF Kept
    <2>6. Made(q)'
        BY <2>2 DEF Made
    <2>7. Usable(q)'
        BY <2>2, Zenon DEF Usable
    <2>8. QED
        BY <2>4, <2>5, <2>6, <2>7, Zenon DEF QueueInv
  <1>8. QED
      BY <1>4, <1>5, <1>6, <1>7, Zenon DEF Base, Types

LEMMA CutOf ==
    ASSUME NEW q \in Name, DiskType, NEW f \in Cut(q)
    PROVE  /\ f \in Seq(Unit) /\ synced[q] <= Len(f) /\ Edit(file[q], f)
           /\ \A i \in 1 .. synced[q] : \A x : EndsAt(file[q], i, x) => EndsAt(f, i, x)
  <1>1. PICK g, s : g = file[q] /\ s = synced[q]
      OBVIOUS
  <1>2. g \in Seq(Unit) /\ s \in Nat /\ s <= Len(g) /\ Len(g) \in Nat
      BY <1>1 DEF DiskType
  <1>3. PICK n \in s .. Len(g) : f = SubSeq(g, 1, n)
      BY <1>1, Zenon DEF Cut
  <1>4. n \in 0 .. Len(g) /\ s <= n /\ n \in Nat
      BY <1>2
  <1>5. f \in Seq(Unit) /\ Len(f) = n /\ Agrees(g, f, Len(f))
      BY <1>2, <1>3, <1>4, CutFacts
  <1>6. ASSUME NEW i \in 1 .. s, NEW x, EndsAt(g, i, x)
        PROVE  EndsAt(f, i, x)
    <2>1. i \in 1 .. Len(f)
        BY <1>2, <1>4, <1>5
    <2>2. QED
        BY <1>5, <1>6, <2>1, EndsAgrees
  <1>7. Edit(g, f)
      BY <1>3, <1>4, Zenon DEF Edit
  <1>8. QED
      BY <1>1, <1>4, <1>5, <1>6, <1>7

LEMMA KilledBase ==
    ASSUME NEW D, Base(D), Killed
    PROVE  Base(D)' /\ \A q \in Name : Edit(file[q], file'[q])
  <1>1. DiskType /\ \A q \in Name : QueueInv(D, q)
      BY Zenon DEF Base, Types
  <1>2. Dies /\ proc' = "down" /\ UNCHANGED told /\ synced' = synced /\ dirent' = dirent
      BY Zenon DEF Killed
  <1>3. PICK S : file' \in [Name -> S] /\ \A q \in Name : file'[q] \in Cut(q)
      BY Zenon DEF Killed
  <1>4. ASSUME NEW q \in Name
        PROVE  /\ file'[q] \in Seq(Unit) /\ synced'[q] <= Len(file'[q]) /\ Edit(file[q], file'[q])
               /\ Shaped(file'[q]) /\ (dirent'[q] = "none" => file'[q] = <<>>)
               /\ \A x \in Owed(q) : x \in D[q] \/ \E i \in 1 .. synced'[q] : EndsAt(file'[q], i, x)
    <2>1. PICK f : f = file'[q]
        OBVIOUS
    <2>2. f \in Cut(q)
        BY <1>3, <2>1
    <2>3. /\ f \in Seq(Unit) /\ synced[q] <= Len(f) /\ Edit(file[q], f)
          /\ \A i \in 1 .. synced[q] : \A x : EndsAt(file[q], i, x) => EndsAt(f, i, x)
        BY <1>1, <2>2, CutOf
    <2>4. file[q] \in Seq(Unit) /\ Shaped(file[q]) /\ (dirent[q] = "none" => file[q] = <<>>)
        BY <1>1 DEF DiskType, QueueInv, Kept
    <2>5. Shaped(f)
        BY <2>3, <2>4, EditShape
    <2>6. \A x \in Owed(q) : x \in D[q] \/ \E i \in 1 .. synced[q] : EndsAt(f, i, x)
        BY <1>1, <2>3, Zenon DEF QueueInv, Owing
    <2>7. ASSUME dirent[q] = "none" PROVE f = <<>>
      <3>1. PICK n \in synced[q] .. Len(file[q]) : f = SubSeq(file[q], 1, n)
          BY <2>2, Zenon DEF Cut
      <3>2. file[q] = <<>> /\ Len(file[q]) = 0 /\ synced[q] \in Nat
          BY <1>1, <2>4, <2>7 DEF DiskType
      <3>3. n = 0
          BY <3>1, <3>2
      <3>4. QED
          BY <3>1, <3>2, <3>3
    <2>8. QED
        BY <1>2, <2>1, <2>3, <2>5, <2>6, <2>7, Zenon
  <1>5. DiskType'
    <2>1. file' \in [Name -> Seq(Unit)]
        BY <1>3, <1>4
    <2>2. QED
        BY <1>1, <1>2, <1>4, <2>1 DEF DiskType
  <1>6. Base(D)'
    <2>1. \A q \in Name :
             /\ Shaped(file'[q]) /\ (dirent'[q] = "none" => file'[q] = <<>>)
             /\ dirent'[q] = "cached" => dirent[q] = "cached"
             /\ \A x \in Owed(q) : x \in D[q] \/ \E i \in 1 .. synced'[q] : EndsAt(file'[q], i, x)
        BY <1>2, <1>4, Zenon
    <2>2. QED
        BY <1>2, <1>5, <2>1, DiesBase
  <1>7. QED
      BY <1>4, <1>6

LEMMA NameFacts == Name \subseteq Nat \ {0}
  BY ManagerAssumption DEF Name

LEMMA BaseFacts ==
    ASSUME NEW D, Base(D)
    PROVE  /\ DiskType /\ ServerType /\ ToldType /\ ModesInv
           /\ \A q \in Name : QueueInv(D, q) /\ Owing(D, q) /\ Kept(q) /\ Made(q) /\ Usable(q)
  BY Zenon DEF Base, Types, QueueInv

LEMMA EditSame == \A f : Edit(f, f)
  BY Zenon DEF Edit

Flipped(f, i) == [f EXCEPT ![i].bad = TRUE]

LEMMA FlippedShape ==
    ASSUME NEW f \in Seq(Unit), NEW k \in 1 .. Len(f), NEW g, g = Flipped(f, k)
    PROVE  /\ g \in Seq(Unit) /\ Len(g) = Len(f) /\ Agrees(f, g, Len(f))
           /\ (Straight(f) => Straight(g)) /\ (Shaped(f) => Shaped(g))
  <1>1. f[k] \in Unit
      OBVIOUS
  <1>2. PICK u : u = [f[k] EXCEPT !.bad = TRUE]
      OBVIOUS
  <1>3. u \in Unit /\ u.rec = f[k].rec /\ u.part = f[k].part
      BY <1>1, <1>2, BadUnit
  <1>4. g = SetUnit(f, k, u)
      BY <1>2, Zenon DEF Flipped, SetUnit
  <1>5. QED
      BY <1>3, <1>4, FlipShape

LEMMA HoledOf ==
    ASSUME NEW q, NEW f \in Holed(q), f \notin Cut(q)
    PROVE  \E k \in synced[q] + 1 .. Len(file[q]) : f = Flipped(file[q], k)
  <1>1. Holed(q) = Cut(q) \cup {Flipped(h, i) : h \in {file[q]}, i \in synced[q] + 1 .. Len(file[q])}
      BY DEF Holed, Flipped
  <1>2. f \in {Flipped(h, i) : h \in {file[q]}, i \in synced[q] + 1 .. Len(file[q])}
      BY <1>1
  <1>3. QED
      BY <1>2

LEMMA PowerCutBase ==
    ASSUME NEW D, Base(D), PowerCut, ParentsFollow \/ \A q \in Name : Owed(q) \subseteq D[q]
    PROVE  Base(D)' /\ \A q \in Name : Straight(file[q]) => Straight(file'[q])
  <1>1. DiskType /\ \A q \in Name : Owing(D, q) /\ Kept(q)
      BY BaseFacts
  <1>2. Dies /\ proc' = "down" /\ UNCHANGED told
      BY Zenon DEF PowerCut
  <1>a. PICK lost \in SUBSET {q \in Name : dirent[q] = "cached"} :
          /\ dirent' = [q \in Name |->
                          IF dirent[q] = "none" \/ q \in lost THEN "none" ELSE "stable"]
          /\ \E f \in [Name -> {<<>>} \cup UNION {Holed(q) : q \in Name}] :
               /\ \A q \in Name : IF q \in lost THEN f[q] = <<>> ELSE f[q] \in Holed(q)
               /\ file' = f
               /\ synced' = [q \in Name |-> Len(f[q])]
      BY Zenon DEF PowerCut
  <1>b. PICK S : S = {<<>>} \cup UNION {Holed(q) : q \in Name}
      OBVIOUS
  <1>3. /\ dirent' = [q \in Name |->
                         IF dirent[q] = "none" \/ q \in lost THEN "none" ELSE "stable"]
        /\ file' \in [Name -> S]
        /\ \A q \in Name : IF q \in lost THEN file'[q] = <<>> ELSE file'[q] \in Holed(q)
        /\ synced' = [q \in Name |-> Len(file'[q])]
      BY <1>a, <1>b, Zenon
  <1>4. ASSUME NEW q \in Name
        PROVE  /\ file'[q] \in Seq(Unit) /\ (Straight(file[q]) => Straight(file'[q]))
               /\ Shaped(file'[q]) /\ (dirent'[q] = "none" => file'[q] = <<>>)
               /\ dirent'[q] \in {"none", "stable"} /\ synced'[q] = Len(file'[q])
               /\ \A x \in Owed(q) : x \in D[q] \/ \E i \in 1 .. synced'[q] : EndsAt(file'[q], i, x)
    <2>1. PICK g, f : g = file[q] /\ f = file'[q]
        OBVIOUS
    <2>2. /\ g \in Seq(Unit) /\ Shaped(g) /\ synced[q] \in Nat /\ synced[q] <= Len(g)
          /\ Len(g) \in Nat /\ (dirent[q] = "none" => g = <<>>)
        BY <1>1, <2>1 DEF DiskType, Kept
    <2>3. synced'[q] = Len(f) /\ dirent'[q] \in {"none", "stable"}
        BY <1>3, <2>1
    <2>4. CASE q \in lost
      <3>1. f = <<>> /\ dirent[q] = "cached"
          BY <1>3, <2>1, <2>4
      <3>2. Owed(q) \subseteq D[q]
          BY <1>1, <3>1, Zenon DEF Owing
      <3>3. f \in Seq(Unit) /\ Straight(f) /\ Shaped(f)
          BY <3>1, EmptyLog, StraightShaped
      <3>4. QED
          BY <2>1, <2>3, <3>1, <3>2, <3>3
    <2>5. CASE q \notin lost
      <3>1. f \in Holed(q)
          BY <1>3, <2>1, <2>5
      <3>2. dirent'[q] = "none" => dirent[q] = "none"
          BY <1>3, <2>5
      <3>3. CASE f \in Cut(q)
        <4>1. /\ f \in Seq(Unit) /\ synced[q] <= Len(f) /\ Edit(g, f)
              /\ \A i \in 1 .. synced[q] : \A x : EndsAt(g, i, x) => EndsAt(f, i, x)
            BY <1>1, <2>1, <3>3, CutOf
        <4>2. Shaped(f) /\ (Straight(g) => Straight(f))
            BY <2>2, <4>1, EditShape
        <4>3. ASSUME NEW x \in Owed(q)
              PROVE  x \in D[q] \/ \E i \in 1 .. Len(f) : EndsAt(f, i, x)
          <5>1. CASE x \in D[q]
              BY <5>1
          <5>2. CASE x \notin D[q]
            <6>1. PICK i \in 1 .. synced[q] : EndsAt(g, i, x)
                BY <1>1, <2>1, <5>2, Zenon DEF Owing
            <6>2. EndsAt(f, i, x)
                BY <4>1, <6>1
            <6>3. i \in 1 .. Len(f)
              <7>1. synced[q] <= Len(f) /\ Len(f) \in Nat
                  BY <4>1
              <7>2. QED
                  BY <2>2, <7>1
            <6>4. QED
                BY <6>2, <6>3
          <5>3. QED
              BY <5>1, <5>2
        <4>4. dirent'[q] = "none" => f = <<>>
          <5> SUFFICES ASSUME dirent'[q] = "none" PROVE f = <<>>
              OBVIOUS
          <5>1. PICK n \in synced[q] .. Len(g) : f = SubSeq(g, 1, n)
              BY <2>1, <3>3, Zenon DEF Cut
          <5>2. g = <<>> /\ Len(g) = 0
              BY <2>2, <3>2
          <5>3. n = 0
              BY <2>2, <5>1, <5>2
          <5>4. QED
              BY <5>1, <5>2, <5>3
        <4>5. QED
            BY <2>1, <2>3, <4>1, <4>2, <4>3, <4>4
      <3>4. CASE f \notin Cut(q)
        <4>a. PICK k \in synced[q] + 1 .. Len(file[q]) : f = Flipped(file[q], k)
            BY <3>1, <3>4, HoledOf
        <4>b. k \in synced[q] + 1 .. Len(g)
            BY <2>1, <4>a
        <4>1. f = Flipped(g, k)
            BY <2>1, <4>a
        <4>2. k \in 1 .. Len(g) /\ Len(g) # 0
            BY <2>2, <4>b
        <4>3. /\ f \in Seq(Unit) /\ Len(f) = Len(g) /\ Agrees(g, f, Len(g))
              /\ (Straight(g) => Straight(f)) /\ (Shaped(g) => Shaped(f))
            BY <2>2, <4>1, <4>2, FlippedShape, Zenon
        <4>4. ASSUME NEW x \in Owed(q)
              PROVE  x \in D[q] \/ \E i \in 1 .. Len(f) : EndsAt(f, i, x)
          <5>1. CASE x \in D[q]
              BY <5>1
          <5>2. CASE x \notin D[q]
            <6>1. PICK i \in 1 .. synced[q] : EndsAt(g, i, x)
                BY <1>1, <2>1, <5>2, Zenon DEF Owing
            <6>2. i \in 1 .. Len(g)
                BY <2>2
            <6>3. EndsAt(f, i, x)
                BY <4>3, <6>1, <6>2, EndsAgrees
            <6>4. QED
                BY <4>3, <6>2, <6>3
          <5>3. QED
              BY <5>1, <5>2
        <4>5. dirent'[q] # "none"
            BY <2>2, <3>2, <4>2
        <4>6. QED
            BY <2>1, <2>2, <2>3, <4>3, <4>4, <4>5
      <3>5. QED
          BY <3>3, <3>4
    <2>6. QED
        BY <2>4, <2>5
  <1>5. DiskType'
    <2>1. file' \in [Name -> Seq(Unit)]
        BY <1>3, <1>4
    <2>2. synced' \in [Name -> Nat] /\ \A q \in Name : synced'[q] <= Len(file'[q])
        BY <1>3, <1>4
    <2>3. dirent' \in [Name -> {"none", "cached", "stable"}]
        BY <1>3
    <2>4. QED
        BY <2>1, <2>2, <2>3 DEF DiskType
  <1>6. \A q \in Name :
          /\ Shaped(file'[q]) /\ (dirent'[q] = "none" => file'[q] = <<>>)
          /\ dirent'[q] = "cached" => dirent[q] = "cached"
          /\ \A x \in Owed(q) : x \in D[q] \/ \E i \in 1 .. synced'[q] : EndsAt(file'[q], i, x)
    <2>1. "cached" \notin {"none", "stable"}
        OBVIOUS
    <2>2. QED
        BY <1>4, <2>1, Zenon
  <1>7. Base(D)'
      BY <1>2, <1>5, <1>6, DiesBase
  <1>8. QED
      BY <1>4, <1>7

LEMMA QuietDies ==
    ASSUME NEW D, Base(D), Dies, proc' \in {"down", "refused"}, UNCHANGED <<disk, told>>
    PROVE  Base(D)' /\ \A q \in Name : Edit(file[q], file'[q])
  <1>1. DiskType /\ \A q \in Name : Owing(D, q) /\ Kept(q)
      BY BaseFacts
  <1>2. file' = file /\ synced' = synced /\ dirent' = dirent /\ UNCHANGED told
      BY Zenon DEF disk
  <1>3. DiskType'
      BY <1>1, <1>2 DEF DiskType
  <1>4. \A q \in Name :
          /\ Shaped(file'[q]) /\ (dirent'[q] = "none" => file'[q] = <<>>)
          /\ dirent'[q] = "cached" => dirent[q] = "cached"
          /\ \A x \in Owed(q) : x \in D[q] \/ \E i \in 1 .. synced'[q] : EndsAt(file'[q], i, x)
      BY <1>1, <1>2, Zenon DEF Owing, Kept
  <1>5. QED
      BY <1>2, <1>3, <1>4, DiesBase, EditSame

LEMMA CloseBase ==
    ASSUME NEW D, Base(D), CloseManager
    PROVE  Base(D)' /\ \A q \in Name : Edit(file[q], file'[q])
  <1>1. DiskType /\ \A q \in Name : Owing(D, q) /\ Kept(q)
      BY BaseFacts
  <1>2. /\ Dies /\ proc' = "down" /\ UNCHANGED told /\ file' = file /\ dirent' = dirent
        /\ synced' = [q \in Name |-> IF q \in queues THEN Len(file[q]) ELSE synced[q]]
      BY Zenon DEF CloseManager
  <1>3. ASSUME NEW q \in Name
        PROVE  /\ synced'[q] \in Nat /\ synced'[q] <= Len(file[q]) /\ synced[q] <= synced'[q]
               /\ synced[q] \in Nat
      BY <1>1, <1>2 DEF DiskType
  <1>4. DiskType'
      BY <1>1, <1>2, <1>3 DEF DiskType
  <1>5. ASSUME NEW q \in Name, NEW x \in Owed(q)
        PROVE  x \in D[q] \/ \E i \in 1 .. synced'[q] : EndsAt(file'[q], i, x)
    <2>1. CASE x \in D[q]
        BY <2>1
    <2>2. CASE x \notin D[q]
      <3>1. PICK i \in 1 .. synced[q] : EndsAt(file[q], i, x)
          BY <1>1, <2>2, Zenon DEF Owing
      <3>2. i \in 1 .. synced'[q]
          BY <1>3
      <3>3. QED
          BY <1>2, <3>1, <3>2
    <2>3. QED
        BY <2>1, <2>2
  <1>6. \A q \in Name :
          /\ Shaped(file'[q]) /\ (dirent'[q] = "none" => file'[q] = <<>>)
          /\ dirent'[q] = "cached" => dirent[q] = "cached"
          /\ \A x \in Owed(q) : x \in D[q] \/ \E i \in 1 .. synced'[q] : EndsAt(file'[q], i, x)
      BY <1>1, <1>2, <1>5, Zenon DEF Kept
  <1>7. Base(D)'
      BY <1>2, <1>4, <1>6, DiesBase
  <1>8. QED
      BY <1>2, <1>7, EditSame

\* A step that changes neither the disk nor what clients were told.
LEMMA QuietBase ==
    ASSUME NEW D, Base(D), UNCHANGED <<disk, told>>, ServerType', ModesInv',
           \A q \in Name :
             /\ q \in queues' => q \in queues
             /\ q \in waiting' => q \in waiting
             /\ StepOf(q)' \in {"none", "open"} \/ StepOf(q)' = StepOf(q)
             /\ PassedOver(q)' => Owed(q) \subseteq D[q]
             /\ PassedOver(q)' /\ q \notin botched' /\ StepOf(q)' = "none"
                  => Replay(file[q]) \in {Clean(0), Torn(0)}
    PROVE  Base(D)' /\ \A q \in Name : Edit(file[q], file'[q])
  <1>1. DiskType /\ ToldType /\ \A q \in Name : QueueInv(D, q)
      BY BaseFacts
  <1>2. file' = file /\ synced' = synced /\ dirent' = dirent /\ UNCHANGED told
      BY Zenon DEF disk
  <1>3. last' = last /\ created' = created /\ confirmed' = confirmed
      BY <1>2, Zenon DEF told
  <1>4. DiskType'
      BY <1>1, <1>2 DEF DiskType
  <1>5. ToldType'
      BY <1>1, <1>3 DEF ToldType
  <1>6. ASSUME NEW q \in Name
        PROVE  QueueInv(D, q)'
    <2>1. Owed(q)' = Owed(q) /\ last'[q] = last[q]
        BY <1>2, <1>3, OwedSame
    <2>2. QED
        BY <1>1, <1>2, <2>1, SameQueue, Zenon
  <1>7. Base(D)'
      BY <1>4, <1>5, <1>6, Zenon DEF Base, Types
  <1>8. QED
      BY <1>2, <1>7, EditSame

LEMMA StartBase ==
    ASSUME NEW D, Base(D), StartServer
    PROVE  Base(D)' /\ \A q \in Name : Edit(file[q], file'[q])
  <1>1. /\ DiskType /\ ServerType /\ ModesInv
        /\ \A q \in Name : Owing(D, q) /\ Kept(q)
      BY BaseFacts
  <1>2. /\ ~Alive /\ proc' = "booting" /\ todo' = {q \in Name : dirent[q] # "none"}
        /\ UNCHANGED <<disk, told>> /\ queues' = queues /\ creating' = creating
        /\ waiting' = waiting /\ botched' = botched
      BY Zenon DEF StartServer
  <1>3. queues = {} /\ creating = NoCreate /\ waiting = {}
      BY <1>1, <1>2, Zenon DEF ModesInv
  <1>4. ServerType'
      BY <1>1, <1>2 DEF ServerType
  <1>5. ModesInv'
      BY <1>2, <1>3 DEF ModesInv, NoCreate, Alive
  <1>6. ASSUME NEW q \in Name
        PROVE  /\ q \in queues' => q \in queues
               /\ q \in waiting' => q \in waiting
               /\ StepOf(q)' \in {"none", "open"} \/ StepOf(q)' = StepOf(q)
               /\ PassedOver(q)' => Owed(q) \subseteq D[q]
               /\ PassedOver(q)' /\ q \notin botched' /\ StepOf(q)' = "none"
                    => Replay(file[q]) \in {Clean(0), Torn(0)}
    <2>1. StepOf(q)' = StepOf(q)
        BY <1>2, Zenon DEF StepOf
    <2>2. ASSUME PassedOver(q)'
          PROVE  Owed(q) \subseteq D[q] /\ Replay(file[q]) \in {Clean(0), Torn(0)}
      <3>1. file[q] = <<>> /\ synced[q] \in Nat /\ synced[q] <= Len(file[q])
          BY <1>1, <1>2, <2>2 DEF PassedOver, Kept, DiskType
      <3>2. \A i \in 1 .. synced[q] : FALSE
          BY <3>1
      <3>3. Owed(q) \subseteq D[q]
          BY <1>1, <3>2, Zenon DEF Owing
      <3>4. QED
          BY <3>1, <3>3, ReplayEmpty
    <2>3. QED
        BY <1>2, <2>1, <2>2
  <1>7. QED
      BY <1>2, <1>4, <1>5, <1>6, QuietBase

LEMMA NextName ==
    ASSUME ServerType, Loading
    PROVE  Min(todo) \in todo /\ Min(todo) \in Name
  <1>1. todo \subseteq Nat /\ todo # {} /\ todo \subseteq Name
      BY NameFacts DEF ServerType, Loading
  <1>2. QED
      BY <1>1, MinFacts

LEMMA SkipBase ==
    ASSUME NEW D, Base(D), LoadSkips
    PROVE  Base(D)' /\ \A q \in Name : Edit(file[q], file'[q])
  <1>1. /\ DiskType /\ ServerType /\ ModesInv
        /\ \A q \in Name : Owing(D, q) /\ Kept(q) /\ Usable(q)
      BY BaseFacts
  <1>2. /\ Loading /\ ~Replay(file[Min(todo)]).corrupt /\ Replay(file[Min(todo)]).recs = <<>>
        /\ todo' = todo \ {Min(todo)}
        /\ UNCHANGED <<disk, told>> /\ proc' = proc /\ queues' = queues /\ creating' = creating
        /\ waiting' = waiting /\ botched' = botched
      BY Zenon DEF LoadSkips
  <1>3. proc = "booting" /\ creating = NoCreate /\ waiting = {}
      BY <1>1, <1>2, Zenon DEF ModesInv, Loading
  <1>4. ServerType'
      BY <1>1, <1>2 DEF ServerType
  <1>5. ModesInv'
      BY <1>2, <1>3 DEF ModesInv, NoCreate, Alive
  <1>6. ASSUME NEW q \in Name
        PROVE  /\ q \in queues' => q \in queues
               /\ q \in waiting' => q \in waiting
               /\ StepOf(q)' \in {"none", "open"} \/ StepOf(q)' = StepOf(q)
               /\ PassedOver(q)' => Owed(q) \subseteq D[q]
               /\ PassedOver(q)' /\ q \notin botched' /\ StepOf(q)' = "none"
                    => Replay(file[q]) \in {Clean(0), Torn(0)}
    <2>1. StepOf(q)' = StepOf(q)
        BY <1>2, Zenon DEF StepOf
    <2>2. CASE q = Min(todo)
      <3>1. PICK f : f = file[q]
          OBVIOUS
      <3>2. f \in Seq(Unit) /\ Shaped(f) /\ synced[q] \in Nat /\ synced[q] <= Len(f)
          BY <1>1, <3>1 DEF Kept, DiskType
      <3>3. Replay(f) \in {Clean(0), Torn(0)} /\ \A i \in 1 .. Len(f) : \A x : ~EndsAt(f, i, x)
          BY <1>2, <2>2, <3>1, <3>2, NoRecords
      <3>4. \A i \in 1 .. synced[q] : i \in 1 .. Len(f)
          BY <3>2
      <3>5. Owed(q) \subseteq D[q]
          BY <1>1, <3>1, <3>3, <3>4, Zenon DEF Owing
      <3>6. QED
          BY <1>2, <2>1, <3>1, <3>3, <3>5
    <2>3. CASE q # Min(todo)
      <3>1. PassedOver(q)' => PassedOver(q)
          BY <1>2, <2>3 DEF PassedOver, Alive
      <3>2. QED
          BY <1>1, <1>2, <2>1, <3>1, Zenon DEF Owing, Usable
    <2>4. QED
        BY <2>2, <2>3
  <1>7. QED
      BY <1>2, <1>4, <1>5, <1>6, QuietBase

\* Steps that move the process on, or begin a create.
LEMMA MovesOnBase ==
    ASSUME NEW D, Base(D), Serving \/ Terminate \/ \E q \in Name : CreateRefused(q) \/ CreateBegins(q)
    PROVE  Base(D)' /\ \A q \in Name : Edit(file[q], file'[q])
  <1>1. /\ DiskType /\ ServerType /\ ModesInv
        /\ \A q \in Name : Owing(D, q) /\ Kept(q) /\ Usable(q)
      BY BaseFacts
  <1>2. /\ UNCHANGED <<disk, told>> /\ todo' = todo /\ queues' = queues /\ waiting' = waiting
        /\ botched' = botched
      BY Zenon DEF Serving, Terminate, CreateRefused, CreateBegins
  <1>3. \/ proc = "booting" /\ todo = {} /\ proc' = "up" /\ creating' = creating
        \/ proc = "up" /\ proc' = "closing" /\ creating' = creating
        \/ proc = "up" /\ proc' = proc /\ creating = NoCreate /\ creating' = NoCreate
        \/ /\ proc = "up" /\ proc' = proc /\ creating = NoCreate
           /\ \E q \in Name : q \notin queues /\ creating' = [q |-> q, step |-> "open"]
      BY Zenon DEF Serving, Terminate, CreateRefused, CreateBegins, NameFree, Answers
  <1>4. Alive /\ Alive' /\ todo = {}
      BY <1>1, <1>3 DEF Alive, ModesInv
  <1>5. ServerType'
      BY <1>1, <1>2, <1>3 DEF ServerType, NoCreate
  <1>6. ModesInv'
      BY <1>1, <1>2, <1>3, <1>4 DEF ModesInv, NoCreate, Alive
  <1>7. ASSUME NEW q \in Name
        PROVE  /\ q \in queues' => q \in queues
               /\ q \in waiting' => q \in waiting
               /\ StepOf(q)' \in {"none", "open"} \/ StepOf(q)' = StepOf(q)
               /\ PassedOver(q)' => Owed(q) \subseteq D[q]
               /\ PassedOver(q)' /\ q \notin botched' /\ StepOf(q)' = "none"
                    => Replay(file[q]) \in {Clean(0), Torn(0)}
    <2>1. PassedOver(q)' => PassedOver(q)
        BY <1>2, <1>4, Zenon DEF PassedOver
    <2>2. StepOf(q)' \in {"none", "open"} \/ StepOf(q)' = StepOf(q)
        BY <1>3 DEF StepOf, NoCreate
    <2>3. StepOf(q)' = "none" => StepOf(q) = "none"
      <3>1. q # 0
          BY NameFacts
      <3>2. creating' = creating \/ creating = NoCreate
          BY <1>3
      <3>3. QED
          BY <3>1, <3>2 DEF StepOf, NoCreate
    <2>4. QED
        BY <1>1, <1>2, <2>1, <2>2, <2>3, Zenon DEF Owing, Usable
  <1>8. QED
      BY <1>2, <1>5, <1>6, <1>7, QuietBase

\* A step that touches one queue.
LEMMA OneQueue ==
    ASSUME NEW D, Base(D), NEW a \in Name, DiskType', ServerType', ToldType', ModesInv',
           Owing(D, a)', Kept(a)', Made(a)', Usable(a)',
           \A z \in Name : z # a =>
             /\ file'[z] = file[z] /\ synced'[z] = synced[z] /\ dirent'[z] = dirent[z]
             /\ last'[z] = last[z] /\ confirmed'[z] = confirmed[z]
             /\ (z \in created' <=> z \in created)
             /\ (z \in queues' => z \in queues) /\ (z \in waiting' => z \in waiting)
             /\ StepOf(z)' = StepOf(z) /\ (PassedOver(z)' => PassedOver(z))
             /\ (z \in botched => z \in botched')
    PROVE  Base(D)'
  <1>1. \A q \in Name : QueueInv(D, q) /\ Owing(D, q) /\ Usable(q)
      BY BaseFacts
  <1>2. ASSUME NEW z \in Name
        PROVE  QueueInv(D, z)'
    <2>1. CASE z = a
        BY <2>1, Zenon DEF QueueInv
    <2>2. CASE z # a
      <3>1. Owed(z)' = Owed(z)
        <4>1. confirmed'[z] = confirmed[z] /\ (z \in created' <=> z \in created)
            BY <2>2, Zenon
        <4>2. QED
            BY <4>1, Zenon DEF Owed
      <3>2. /\ PassedOver(z)' => Owed(z) \subseteq D[z]
            /\ PassedOver(z)' /\ z \notin botched' /\ StepOf(z)' = "none"
                 => Replay(file[z]) \in {Clean(0), Torn(0)}
          BY <1>1, <2>2, Zenon DEF Owing, Usable
      <3>3. /\ file'[z] = file[z] /\ synced'[z] = synced[z] /\ dirent'[z] = dirent[z]
            /\ last'[z] = last[z]
            /\ (z \in queues' => z \in queues) /\ (z \in waiting' => z \in waiting)
            /\ StepOf(z)' = StepOf(z)
          BY <2>2, Zenon
      <3>4. QED
          BY <1>1, <3>1, <3>2, <3>3, SameQueue, Zenon
    <2>3. QED
        BY <2>1, <2>2
  <1>3. QED
      BY <1>2, Zenon DEF Base, Types

LEMMA OpenBase ==
    ASSUME NEW D, Base(D), LoadOpens
    PROVE  Base(D)' /\ \A q \in Name : Edit(file[q], file'[q])
  <1>1. /\ DiskType /\ ServerType /\ ToldType /\ ModesInv
        /\ \A q \in Name : Owing(D, q) /\ Kept(q)
      BY BaseFacts
  <1>2. PICK a, res : a = Min(todo) /\ res = Replay(file[a])
      OBVIOUS
  <1>3. /\ Loading /\ ~res.corrupt /\ res.recs # <<>>
        /\ file' = [file EXCEPT ![a] = SubSeq(file[a], 1, res.valid)]
        /\ synced' = [synced EXCEPT ![a] = IF res.torn THEN res.valid ELSE synced[a]]
        /\ dirent' = [dirent EXCEPT ![a] = syncDir(dirent[a])]
        /\ queues' = queues \cup {a} /\ todo' = todo \ {a} /\ UNCHANGED told
        /\ proc' = proc /\ creating' = creating /\ waiting' = waiting /\ botched' = botched
      BY <1>2, Zenon DEF LoadOpens
  <1>4. a \in Name /\ a \in todo
      BY <1>1, <1>2, <1>3, NextName
  <1>5. proc = "booting" /\ creating = NoCreate /\ waiting = {}
      BY <1>1, <1>3, Zenon DEF ModesInv, Loading
  <1>6. PICK f, g : f = file[a] /\ g = SubSeq(f, 1, res.valid)
      OBVIOUS
  <1>7. /\ f \in Seq(Unit) /\ Shaped(f) /\ synced[a] \in Nat /\ synced[a] <= Len(f)
        /\ dirent[a] \in {"none", "cached", "stable"} /\ (dirent[a] = "none" => f = <<>>)
      BY <1>1, <1>4, <1>6 DEF DiskType, Kept
  <1>8. /\ res.valid \in 0 .. Len(f) /\ g \in Seq(Unit) /\ Len(g) = res.valid /\ Sound(g)
        /\ Edit(f, g) /\ res.torn \in BOOLEAN /\ (res.torn \/ Len(g) = Len(f))
        /\ \A i \in 1 .. Len(f) : \A x : EndsAt(f, i, x) => i \in 1 .. Len(g) /\ EndsAt(g, i, x)
    <2>1. res = Replay(f) /\ ~res.corrupt /\ f \in Seq(Unit) /\ Shaped(f) /\ g = SubSeq(f, 1, res.valid)
        BY <1>2, <1>3, <1>6, <1>7
    <2>2. Opened(f, res, g)
        BY <2>1, OpenedLog, Zenon
    <2>3. QED
        BY <2>2, Zenon DEF Opened
  <1>9. PICK s \in Nat : s = IF res.torn THEN res.valid ELSE synced[a]
      BY <1>7, <1>8
  <1>10. s <= Len(g) /\ Len(g) \in Nat /\ (res.torn => s = Len(g)) /\ (~res.torn => s = synced[a])
    <2>1. res.valid \in 0 .. Len(f) /\ Len(g) = res.valid /\ (res.torn \/ Len(g) = Len(f))
        BY <1>8
    <2>2. QED
        BY <1>7, <1>9, <2>1
  <1>11. dirent[a] # "none"
    <2> SUFFICES ASSUME dirent[a] = "none" PROVE FALSE
        OBVIOUS
    <2>1. res = Clean(0)
        BY <1>2, <1>6, <1>7, ReplayEmpty
    <2>2. QED
        BY <1>3, <2>1, EndingFacts
  <1>12. PICK d : d = syncDir(dirent[a])
      OBVIOUS
  <1>13. d \in {"cached", "stable"} /\ (ParentsFollow => d = "stable")
      BY <1>7, <1>11, <1>12 DEF syncDir
  <1>14. file' \in [Name -> Seq(Unit)] /\ file'[a] = g /\ \A z \in Name : z # a => file'[z] = file[z]
    <2>1. file' = [file EXCEPT ![a] = g] /\ file \in [Name -> Seq(Unit)] /\ g \in Seq(Unit)
        BY <1>1, <1>3, <1>6, <1>8 DEF DiskType
    <2>2. QED
        BY <1>4, <2>1
  <1>15. synced' \in [Name -> Nat] /\ synced'[a] = s /\ \A z \in Name : z # a => synced'[z] = synced[z]
    <2>1. synced' = [synced EXCEPT ![a] = s] /\ synced \in [Name -> Nat]
        BY <1>1, <1>3, <1>9 DEF DiskType
    <2>2. QED
        BY <1>4, <2>1
  <1>16. /\ dirent' \in [Name -> {"none", "cached", "stable"}] /\ dirent'[a] = d
         /\ \A z \in Name : z # a => dirent'[z] = dirent[z]
    <2>1. dirent' = [dirent EXCEPT ![a] = d] /\ dirent \in [Name -> {"none", "cached", "stable"}]
        BY <1>1, <1>3, <1>12 DEF DiskType
    <2>2. QED
        BY <1>4, <1>13, <2>1
  <1>17. DiskType'
    <2>1. ASSUME NEW z \in Name PROVE synced'[z] <= Len(file'[z])
        BY <1>1, <1>10, <1>14, <1>15 DEF DiskType
    <2>2. QED
        BY <1>14, <1>15, <1>16, <2>1 DEF DiskType
  <1>18. ServerType'
      BY <1>1, <1>3, <1>4, <1>5 DEF ServerType
  <1>19. ToldType' /\ \A z : Owed(z)' = Owed(z)
      BY <1>1, <1>3, OwedSame DEF ToldType, told
  <1>20. ModesInv'
      BY <1>3, <1>5 DEF ModesInv, NoCreate, Alive
  <1>21. StepOf(a)' = "none" /\ ~PassedOver(a)'
    <2>1. a # 0
        BY <1>4, NameFacts
    <2>2. QED
        BY <1>3, <1>5, <2>1 DEF StepOf, NoCreate, PassedOver
  <1>22. Owing(D, a)'
    <2>1. ASSUME NEW x \in Owed(a)
          PROVE  x \in D[a] \/ \E i \in 1 .. s : EndsAt(g, i, x)
      <3>1. CASE x \in D[a]
          BY <3>1
      <3>2. CASE x \notin D[a]
        <4>1. PICK i \in 1 .. synced[a] : EndsAt(f, i, x)
            BY <1>1, <1>4, <1>6, <3>2, Zenon DEF Owing
        <4>2. i \in 1 .. Len(f)
            BY <1>7
        <4>3. i \in 1 .. Len(g) /\ EndsAt(g, i, x)
            BY <1>8, <4>1, <4>2, Zenon
        <4>4. i \in 1 .. s
            BY <1>10, <4>3
        <4>5. QED
            BY <4>3, <4>4
      <3>3. QED
          BY <3>1, <3>2
    <2>2. ~(ParentsFollow /\ dirent'[a] = "cached")
        BY <1>13, <1>16
    <2>3. QED
        BY <1>14, <1>15, <1>19, <1>21, <2>1, <2>2, Zenon DEF Owing
  <1>23. Kept(a)'
    <2>1. Shaped(g)
        BY <1>7, <1>8, EditShape
    <2>2. dirent'[a] # "none" /\ a \notin waiting' /\ (ParentsFollow => dirent'[a] = "stable")
        BY <1>3, <1>5, <1>13, <1>16
    <2>3. QED
        BY <1>8, <1>14, <2>1, <2>2, Zenon DEF Kept
  <1>24. Made(a)'
      BY <1>21 DEF Made
  <1>25. Usable(a)'
      BY <1>21, Zenon DEF Usable
  <1>26. ASSUME NEW z \in Name, z # a
         PROVE  /\ file'[z] = file[z] /\ synced'[z] = synced[z] /\ dirent'[z] = dirent[z]
                /\ last'[z] = last[z] /\ confirmed'[z] = confirmed[z]
                /\ (z \in created' <=> z \in created)
                /\ (z \in queues' => z \in queues) /\ (z \in waiting' => z \in waiting)
                /\ StepOf(z)' = StepOf(z) /\ (PassedOver(z)' => PassedOver(z))
                /\ (z \in botched => z \in botched')
    <2>1. last' = last /\ confirmed' = confirmed /\ created' = created
        BY <1>3, Zenon DEF told
    <2>2. StepOf(z)' = StepOf(z)
        BY <1>3, Zenon DEF StepOf
    <2>3. PassedOver(z)' => PassedOver(z)
        BY <1>3, <1>26 DEF PassedOver, Alive
    <2>4. QED
        BY <1>3, <1>14, <1>15, <1>16, <1>26, <2>1, <2>2, <2>3
  <1>27. Base(D)'
      BY <1>4, <1>17, <1>18, <1>19, <1>20, <1>22, <1>23, <1>24, <1>25, <1>26, OneQueue, Zenon
  <1>28. ASSUME NEW z \in Name PROVE Edit(file[z], file'[z])
      BY <1>6, <1>8, <1>14, EditSame, Zenon
  <1>29. QED
      BY <1>27, <1>28

\* The name of the create that has Manager.mu.
LEMMA CreatingFacts ==
    ASSUME NEW D, Base(D), Alive, creating.step # "none"
    PROVE  /\ creating.q \in Name /\ creating.q \notin queues /\ todo = {}
           /\ proc \in {"up", "closing"} /\ PassedOver(creating.q)
           /\ Owed(creating.q) \subseteq D[creating.q] /\ StepOf(creating.q) = creating.step
           /\ creating.q \notin waiting
           /\ \A z : z # creating.q => StepOf(z) = "none"
  <1>1. /\ ServerType /\ ModesInv /\ \A q \in Name : Owing(D, q)
      BY BaseFacts
  <1>2. creating # NoCreate
      BY DEF NoCreate
  <1>3. creating.q \in Name /\ creating.q \notin queues
      BY <1>1, Zenon DEF ModesInv
  <1>4. proc \in {"up", "closing"} /\ todo = {}
      BY <1>1, <1>2 DEF ModesInv, ServerType, Alive
  <1>5. PassedOver(creating.q)
      BY <1>3, <1>4 DEF PassedOver
  <1>6. QED
      BY <1>1, <1>3, <1>4, <1>5, Zenon DEF Owing, StepOf, ServerType

\* The steps of a create on the files.
LEMMA CreateFileBase ==
    ASSUME NEW D, Base(D), CreateOpens \/ CreateSyncsDir \/ CreateWritesMeta
    PROVE  Base(D)' /\ \A q \in Name : Edit(file[q], file'[q])
  <1>1. /\ DiskType /\ ServerType /\ ToldType /\ ModesInv
        /\ \A q \in Name : Owing(D, q) /\ Kept(q) /\ Made(q)
      BY BaseFacts
  <1>2. PICK a : a = creating.q
      OBVIOUS
  <1>3. PICK g, s, d, t :
          /\ file' = [file EXCEPT ![a] = g] /\ synced' = [synced EXCEPT ![a] = s]
          /\ dirent' = [dirent EXCEPT ![a] = d] /\ creating' = [creating EXCEPT !.step = t]
          /\ \/ /\ creating.step = "open" /\ t = "dirsync" /\ g = <<>> /\ s = 0
                /\ d = IF dirent[a] = "none" THEN "cached" ELSE dirent[a]
             \/ /\ creating.step = "dirsync" /\ t = "write" /\ g = file[a] /\ s = synced[a]
                /\ d = syncDir(dirent[a])
             \/ /\ creating.step = "write" /\ t = "sync" /\ g = Encode(Meta) /\ s = synced[a]
                /\ d = dirent[a]
    <2>1. file = [file EXCEPT ![a] = file[a]] /\ synced = [synced EXCEPT ![a] = synced[a]]
          /\ dirent = [dirent EXCEPT ![a] = dirent[a]]
        BY <1>1 DEF DiskType
    <2>2. CASE CreateOpens
        BY <1>2, <2>2, Zenon DEF CreateOpens, At
    <2>3. CASE CreateSyncsDir
      <3>1. /\ file' = [file EXCEPT ![a] = file[a]] /\ synced' = [synced EXCEPT ![a] = synced[a]]
            /\ dirent' = [dirent EXCEPT ![a] = syncDir(dirent[a])]
            /\ creating' = [creating EXCEPT !.step = "write"] /\ creating.step = "dirsync"
          BY <1>2, <2>1, <2>3, Zenon DEF CreateSyncsDir, At
      <3>2. QED
          BY <3>1, Zenon
    <2>4. CASE CreateWritesMeta
      <3>1. /\ file' = [file EXCEPT ![a] = Encode(Meta)] /\ synced' = [synced EXCEPT ![a] = synced[a]]
            /\ dirent' = [dirent EXCEPT ![a] = dirent[a]]
            /\ creating' = [creating EXCEPT !.step = "sync"] /\ creating.step = "write"
          BY <1>2, <2>1, <2>4, Zenon DEF CreateWritesMeta, At
      <3>2. QED
          BY <3>1, Zenon
    <2>5. QED
        BY <2>2, <2>3, <2>4
  <1>4. /\ Alive /\ proc' = proc /\ todo' = todo /\ queues' = queues /\ waiting' = waiting
        /\ botched' = botched /\ UNCHANGED told
      BY Zenon DEF CreateOpens, CreateSyncsDir, CreateWritesMeta, At
  <1>5. creating.step # "none" /\ t \in {"dirsync", "write", "sync"}
      BY <1>3
  <1>6. /\ a \in Name /\ a \notin queues /\ todo = {}
        /\ proc \in {"up", "closing"} /\ PassedOver(a)
        /\ Owed(a) \subseteq D[a] /\ StepOf(a) = creating.step
        /\ a \notin waiting
        /\ \A z : z # a => StepOf(z) = "none"
      BY <1>2, <1>4, <1>5, CreatingFacts
  <1>7. file[a] \in Seq(Unit) /\ synced[a] \in Nat /\ synced[a] <= Len(file[a])
        /\ dirent[a] \in {"none", "cached", "stable"}
      BY <1>1, <1>6 DEF DiskType
  <1>8. /\ creating.step \in {"dirsync", "write"} => file[a] = <<>>
        /\ creating.step \in {"dirsync", "write", "sync"} => dirent[a] # "none"
        /\ creating.step \in {"write", "sync"} /\ ParentsFollow => dirent[a] = "stable"
      BY <1>1, <1>6, Zenon DEF Made
  <1>9. /\ s = 0 /\ (t \in {"dirsync", "write"} => g = <<>>) /\ (t = "sync" => g = Encode(Meta))
        /\ d \in {"cached", "stable"} /\ (t \in {"write", "sync"} /\ ParentsFollow => d = "stable")
    <2>1. creating.step \in {"dirsync", "write"} => synced[a] = 0
        BY <1>7, <1>8
    <2>2. QED
        BY <1>3, <1>7, <1>8, <2>1 DEF syncDir
  <1>10. g \in Seq(Unit) /\ Len(g) \in Nat /\ Shaped(g) /\ Edit(file[a], g)
    <2>1. g = <<>> \/ g = Encode(Meta)
        BY <1>5, <1>9
    <2>2. g \in Seq(Unit) /\ Sound(g)
        BY <2>1, EmptyLog, MetaLog
    <2>3. QED
        BY <2>1, <2>2, WholeStraight, StraightShaped DEF Sound, Edit
  <1>11. file' \in [Name -> Seq(Unit)] /\ file'[a] = g /\ \A z \in Name : z # a => file'[z] = file[z]
    <2>1. file' = [file EXCEPT ![a] = g] /\ file \in [Name -> Seq(Unit)] /\ g \in Seq(Unit)
        BY <1>1, <1>3, <1>10 DEF DiskType
    <2>2. QED
        BY <1>6, <2>1
  <1>12. synced' \in [Name -> Nat] /\ synced'[a] = s /\ \A z \in Name : z # a => synced'[z] = synced[z]
    <2>1. synced' = [synced EXCEPT ![a] = s] /\ synced \in [Name -> Nat] /\ s \in Nat
        BY <1>1, <1>3, <1>9 DEF DiskType
    <2>2. QED
        BY <1>6, <2>1
  <1>13. /\ dirent' \in [Name -> {"none", "cached", "stable"}] /\ dirent'[a] = d
         /\ \A z \in Name : z # a => dirent'[z] = dirent[z]
    <2>1. dirent' = [dirent EXCEPT ![a] = d] /\ dirent \in [Name -> {"none", "cached", "stable"}]
        BY <1>1, <1>3 DEF DiskType
    <2>2. QED
        BY <1>6, <1>9, <2>1
  <1>14. DiskType'
    <2>1. ASSUME NEW z \in Name PROVE synced'[z] <= Len(file'[z])
      <3>1. CASE z = a
          BY <1>9, <1>10, <1>11, <1>12, <3>1
      <3>2. CASE z # a
          BY <1>1, <1>11, <1>12, <3>2 DEF DiskType
      <3>3. QED
          BY <3>1, <3>2
    <2>2. QED
        BY <1>11, <1>12, <1>13, <2>1 DEF DiskType
  <1>15. creating'.q = a /\ creating'.step = t /\ ServerType'
      BY <1>1, <1>2, <1>3, <1>4, <1>5 DEF ServerType
  <1>16. ToldType' /\ \A z : Owed(z)' = Owed(z)
      BY <1>1, <1>4, OwedSame DEF ToldType, told
  <1>17. ModesInv'
      BY <1>4, <1>5, <1>6, <1>15 DEF ModesInv, Alive
  <1>18. StepOf(a)' = t
      BY <1>15 DEF StepOf
  <1>19. Owing(D, a)'
      BY <1>6, <1>16, Zenon DEF Owing
  <1>20. Kept(a)'
      BY <1>4, <1>6, <1>9, <1>10, <1>11, <1>13 DEF Kept
  <1>21. Made(a)'
      BY <1>9, <1>11, <1>13, <1>18 DEF Made
  <1>22. Usable(a)'
      BY <1>5, <1>18 DEF Usable
  <1>23. ASSUME NEW z \in Name, z # a
         PROVE  /\ file'[z] = file[z] /\ synced'[z] = synced[z] /\ dirent'[z] = dirent[z]
                /\ last'[z] = last[z] /\ confirmed'[z] = confirmed[z]
                /\ (z \in created' <=> z \in created)
                /\ (z \in queues' => z \in queues) /\ (z \in waiting' => z \in waiting)
                /\ StepOf(z)' = StepOf(z) /\ (PassedOver(z)' => PassedOver(z))
                /\ (z \in botched => z \in botched')
    <2>1. last' = last /\ confirmed' = confirmed /\ created' = created
        BY <1>4, Zenon DEF told
    <2>2. StepOf(z)' = StepOf(z)
        BY <1>6, <1>15, <1>23 DEF StepOf
    <2>3. PassedOver(z)' => PassedOver(z)
        BY <1>4 DEF PassedOver, Alive
    <2>4. QED
        BY <1>4, <1>11, <1>12, <1>13, <1>23, <2>1, <2>2, <2>3
  <1>24. Base(D)'
      BY <1>6, <1>14, <1>15, <1>16, <1>17, <1>19, <1>20, <1>21, <1>22, <1>23, OneQueue, Zenon
  <1>25. ASSUME NEW z \in Name PROVE Edit(file[z], file'[z])
      BY <1>10, <1>11, EditSame, Zenon
  <1>26. QED
      BY <1>24, <1>25

LEMMA CreateSyncsBase ==
    ASSUME NEW D, Base(D), CreateSyncs
    PROVE  Base(D)' /\ \A q \in Name : Edit(file[q], file'[q])
  <1>1. /\ DiskType /\ ServerType /\ ToldType /\ ModesInv
        /\ \A q \in Name : Owing(D, q) /\ Kept(q) /\ Made(q)
      BY BaseFacts
  <1>2. PICK a : a = creating.q
      OBVIOUS
  <1>3. /\ Alive /\ creating.step = "sync" /\ synced' = [synced EXCEPT ![a] = Len(file[a])]
        /\ queues' = queues \cup {a} /\ created' = created \cup {a} /\ creating' = NoCreate
        /\ file' = file /\ dirent' = dirent /\ proc' = proc /\ todo' = todo /\ waiting' = waiting
        /\ last' = last /\ confirmed' = confirmed /\ botched' = botched
      BY <1>2, Zenon DEF CreateSyncs, At, Answers
  <1>4. /\ a \in Name /\ a \notin queues /\ todo = {}
        /\ proc \in {"up", "closing"}
        /\ Owed(a) \subseteq D[a] /\ StepOf(a) = creating.step
        /\ a \notin waiting
        /\ \A z : z # a => StepOf(z) = "none"
    <2>1. creating.step # "none"
        BY <1>3
    <2>2. QED
        BY <1>2, <1>3, <2>1, CreatingFacts
  <1>5. file[a] = Encode(Meta) /\ dirent[a] # "none" /\ (ParentsFollow => dirent[a] = "stable")
      BY <1>1, <1>3, <1>4 DEF Made
  <1>6. Len(file[a]) = 4 /\ Sound(file[a]) /\ EndsAt(file[a], 4, Meta)
      BY <1>5, MetaLog
  <1>7. synced' \in [Name -> Nat] /\ synced'[a] = 4 /\ \A z \in Name : z # a => synced'[z] = synced[z]
      BY <1>1, <1>3, <1>4, <1>6 DEF DiskType
  <1>8. DiskType'
    <2>1. ASSUME NEW z \in Name PROVE synced'[z] <= Len(file'[z])
      <3>1. CASE z = a
        <4>1. file'[a] = file[a] /\ Len(file[a]) = 4 /\ synced'[a] = 4
            BY <1>3, <1>6, <1>7
        <4>2. Len(file'[z]) = 4 /\ synced'[z] = 4
            BY <3>1, <4>1, Zenon
        <4>3. QED
            BY <4>2
      <3>2. CASE z # a
          BY <1>1, <1>3, <1>7, <3>2 DEF DiskType
      <3>3. QED
          BY <3>1, <3>2
    <2>2. QED
        BY <1>1, <1>3, <1>7, <2>1 DEF DiskType
  <1>9. ServerType'
      BY <1>1, <1>3, <1>4 DEF ServerType, NoCreate
  <1>10. ToldType'
      BY <1>1, <1>3, <1>4 DEF ToldType
  <1>11. ModesInv'
      BY <1>3, <1>4 DEF ModesInv, Alive, NoCreate
  <1>12. StepOf(a)' = "none" /\ ~PassedOver(a)'
    <2>1. a # 0
        BY <1>4, NameFacts
    <2>2. QED
        BY <1>3, <2>1 DEF StepOf, NoCreate, PassedOver
  <1>13. Owing(D, a)'
    <2>1. ASSUME NEW x \in Owed(a)'
          PROVE  x \in D[a] \/ \E i \in 1 .. synced'[a] : EndsAt(file'[a], i, x)
      <3>1. x \in Owed(a) \/ x = Meta
          BY <1>3 DEF Owed
      <3>2. 4 \in 1 .. synced'[a]
          BY <1>7
      <3>3. QED
          BY <1>3, <1>4, <1>6, <3>1, <3>2
    <2>2. ~(ParentsFollow /\ dirent'[a] = "cached")
        BY <1>3, <1>5
    <2>3. QED
        BY <1>12, <2>1, <2>2, Zenon DEF Owing
  <1>14. Kept(a)'
      BY <1>1, <1>3, <1>4, <1>5, <1>6 DEF Kept
  <1>15. Made(a)'
      BY <1>12 DEF Made
  <1>16. Usable(a)'
      BY <1>12, Zenon DEF Usable
  <1>17. ASSUME NEW z \in Name, z # a
         PROVE  /\ file'[z] = file[z] /\ synced'[z] = synced[z] /\ dirent'[z] = dirent[z]
                /\ last'[z] = last[z] /\ confirmed'[z] = confirmed[z]
                /\ (z \in created' <=> z \in created)
                /\ (z \in queues' => z \in queues) /\ (z \in waiting' => z \in waiting)
                /\ StepOf(z)' = StepOf(z) /\ (PassedOver(z)' => PassedOver(z))
                /\ (z \in botched => z \in botched')
    <2>1. z # 0
        BY NameFacts
    <2>2. StepOf(z)' = StepOf(z)
        BY <1>3, <1>4, <1>17, <2>1 DEF StepOf, NoCreate
    <2>3. PassedOver(z)' => PassedOver(z)
        BY <1>3 DEF PassedOver, Alive
    <2>4. QED
        BY <1>3, <1>7, <1>17, <2>2, <2>3
  <1>18. Base(D)'
      BY <1>4, <1>8, <1>9, <1>10, <1>11, <1>13, <1>14, <1>15, <1>16, <1>17, OneQueue, Zenon
  <1>19. QED
      BY <1>3, <1>18, EditSame

LEMMA CreateFailsBase ==
    ASSUME NEW D, Base(D), CreateFails
    PROVE  Base(D)' /\ \A q \in Name : Edit(file[q], file'[q])
  <1>1. /\ DiskType /\ ServerType /\ ToldType /\ ModesInv
        /\ \A q \in Name : Owing(D, q) /\ Kept(q) /\ Made(q)
      BY BaseFacts
  <1>2. PICK a : a = creating.q
      OBVIOUS
  <1>3. PICK g \in Cut(a) : file' = [file EXCEPT ![a] = g]
      BY <1>2, Zenon DEF CreateFails
  <1>4. /\ Alive /\ creating # NoCreate /\ botched' = botched \cup {a} /\ creating' = NoCreate
        /\ synced' = synced /\ dirent' = dirent /\ proc' = proc /\ todo' = todo
        /\ queues' = queues /\ waiting' = waiting /\ UNCHANGED told
      BY <1>2, Zenon DEF CreateFails, Answers
  <1>5. /\ a \in Name /\ a \notin queues /\ todo = {}
        /\ proc \in {"up", "closing"}
        /\ Owed(a) \subseteq D[a]
        /\ a \notin waiting
        /\ \A z : z # a => StepOf(z) = "none"
    <2>1. creating.step # "none"
        BY <1>1, <1>4, Zenon DEF ModesInv
    <2>2. QED
        BY <1>2, <1>4, <2>1, CreatingFacts
  <1>6. /\ g \in Seq(Unit) /\ synced[a] <= Len(g) /\ Edit(file[a], g)
      BY <1>1, <1>5, CutOf
  <1>7. /\ file[a] \in Seq(Unit) /\ Shaped(file[a]) /\ (dirent[a] = "none" => file[a] = <<>>)
        /\ synced[a] \in Nat
      BY <1>1, <1>5 DEF DiskType, Kept
  <1>8. Shaped(g)
      BY <1>6, <1>7, EditShape
  <1>9. ASSUME dirent[a] = "none" PROVE g = <<>>
    <2>1. PICK n \in synced[a] .. Len(file[a]) : g = SubSeq(file[a], 1, n)
        BY <1>3, Zenon DEF Cut
    <2>2. file[a] = <<>> /\ Len(file[a]) = 0
        BY <1>7, <1>9
    <2>3. n = 0
        BY <1>7, <2>1, <2>2
    <2>4. QED
        BY <2>1, <2>2, <2>3
  <1>10. file' \in [Name -> Seq(Unit)] /\ file'[a] = g /\ \A z \in Name : z # a => file'[z] = file[z]
    <2>1. file' = [file EXCEPT ![a] = g] /\ file \in [Name -> Seq(Unit)] /\ g \in Seq(Unit)
        BY <1>1, <1>3, <1>6 DEF DiskType
    <2>2. QED
        BY <1>5, <2>1
  <1>11. DiskType'
    <2>1. ASSUME NEW z \in Name PROVE synced'[z] <= Len(file'[z])
      <3>1. CASE z = a
          BY <1>4, <1>6, <1>10, <3>1
      <3>2. CASE z # a
          BY <1>1, <1>4, <1>10, <3>2 DEF DiskType
      <3>3. QED
          BY <3>1, <3>2
    <2>2. QED
        BY <1>1, <1>4, <1>10, <2>1 DEF DiskType
  <1>12. ServerType'
      BY <1>1, <1>4 DEF ServerType, NoCreate
  <1>13. ToldType' /\ \A z : Owed(z)' = Owed(z)
      BY <1>1, <1>4, OwedSame DEF ToldType, told
  <1>14. ModesInv'
      BY <1>4, <1>5 DEF ModesInv, Alive, NoCreate
  <1>15. StepOf(a)' = "none" /\ a \in botched'
    <2>1. a # 0
        BY <1>5, NameFacts
    <2>2. QED
        BY <1>4, <2>1 DEF StepOf, NoCreate
  <1>16. Owing(D, a)'
      BY <1>5, <1>13, Zenon DEF Owing
  <1>17. Kept(a)'
      BY <1>4, <1>5, <1>8, <1>9, <1>10 DEF Kept
  <1>18. Made(a)'
      BY <1>15 DEF Made
  <1>19. Usable(a)'
      BY <1>15, Zenon DEF Usable
  <1>20. ASSUME NEW z \in Name, z # a
         PROVE  /\ file'[z] = file[z] /\ synced'[z] = synced[z] /\ dirent'[z] = dirent[z]
                /\ last'[z] = last[z] /\ confirmed'[z] = confirmed[z]
                /\ (z \in created' <=> z \in created)
                /\ (z \in queues' => z \in queues) /\ (z \in waiting' => z \in waiting)
                /\ StepOf(z)' = StepOf(z) /\ (PassedOver(z)' => PassedOver(z))
                /\ (z \in botched => z \in botched')
    <2>1. last' = last /\ confirmed' = confirmed /\ created' = created
        BY <1>4, Zenon DEF told
    <2>2. z # 0
        BY NameFacts
    <2>3. StepOf(z)' = StepOf(z)
        BY <1>4, <1>5, <1>20, <2>2 DEF StepOf, NoCreate
    <2>4. PassedOver(z)' => PassedOver(z)
        BY <1>4 DEF PassedOver, Alive
    <2>5. QED
        BY <1>4, <1>10, <1>20, <2>1, <2>3, <2>4
  <1>21. Base(D)'
      BY <1>5, <1>11, <1>12, <1>13, <1>14, <1>16, <1>17, <1>18, <1>19, <1>20, OneQueue, Zenon
  <1>22. ASSUME NEW z \in Name PROVE Edit(file[z], file'[z])
      BY <1>6, <1>10, EditSame, Zenon
  <1>23. QED
      BY <1>21, <1>22

LEMMA EnqueueBase ==
    ASSUME NEW D, Base(D), NEW a \in Name, Enqueue(a)
    PROVE  Base(D)' /\ \A q \in Name : Edit(file[q], file'[q])
  <1>1. /\ DiskType /\ ServerType /\ ToldType /\ ModesInv
        /\ \A q \in Name : Owing(D, q) /\ Kept(q) /\ Made(q)
      BY BaseFacts
  <1>2. /\ proc = "up" /\ creating = NoCreate /\ a \in queues /\ last[a] < MaxRecs
        /\ last' = [last EXCEPT ![a] = last[a] + 1]
        /\ file' = [file EXCEPT ![a] = file[a] \o Encode(last[a] + 1)]
        /\ waiting' = waiting \cup {a} /\ synced' = synced /\ dirent' = dirent /\ proc' = proc
        /\ todo' = todo /\ queues' = queues /\ creating' = creating /\ created' = created
        /\ confirmed' = confirmed /\ botched' = botched
      BY Zenon DEF Enqueue
  <1>3. PICK f, r, g : f = file[a] /\ r = last[a] + 1 /\ g = f \o Encode(r)
      OBVIOUS
  <1>4. /\ f \in Seq(Unit) /\ Sound(f) /\ dirent[a] # "none" /\ (ParentsFollow => dirent[a] = "stable")
        /\ synced[a] \in Nat /\ synced[a] <= Len(f) /\ Len(f) \in Nat
      BY <1>1, <1>2, <1>3 DEF DiskType, Kept
  <1>5. r \in 1 .. MaxRecs /\ r \in {Meta, Fragment} \cup 1 .. MaxRecs
      BY <1>1, <1>2, <1>3, ManagerAssumption DEF ToldType
  <1>6. /\ g \in Seq(Unit) /\ Len(g) = Len(f) + Size(r) /\ Whole(g, Len(g))
        /\ (\A i \in 1 .. Len(f) : g[i] = f[i])
        /\ EndsAt(g, Len(g), r) /\ Unhurt(g)
    <2>1. f \in Seq(Unit) /\ Whole(f, Len(f)) /\ Unhurt(f) /\ g = f \o Encode(r)
        BY <1>3, <1>4 DEF Sound
    <2>2. /\ g \in Seq(Unit) /\ Len(g) = Len(f) + Size(r) /\ Whole(g, Len(g))
          /\ \A i \in 1 .. Len(f) : g[i] = f[i]
          /\ EndsAt(g, Len(g), r) /\ (Unhurt(f) => Unhurt(g))
        BY <1>5, <2>1, AppendWhole, Zenon
    <2>3. QED
        BY <2>1, <2>2, Zenon
  <1>7. Len(g) \in Nat \ {0} /\ Len(f) <= Len(g) /\ Sound(g) /\ Edit(f, g) /\ Agrees(f, g, Len(f))
    <2>1. Size(r) \in Nat /\ Size(r) >= 3 /\ Len(g) = Len(f) + Size(r)
        BY <1>6, SizeFacts
    <2>2. Len(g) \in Nat \ {0} /\ Len(f) <= Len(g)
        BY <1>4, <2>1
    <2>3. Sound(g) /\ Agrees(f, g, Len(f))
        BY <1>6, Zenon DEF Sound, Agrees
    <2>4. Edit(f, g)
        BY <1>3, <1>4, <1>5, Zenon DEF Edit, Sound
    <2>5. QED
        BY <2>2, <2>3, <2>4
  <1>8. Shaped(g)
      BY <1>6, WholeStraight, StraightShaped
  <1>9. file' \in [Name -> Seq(Unit)] /\ file'[a] = g /\ \A z \in Name : z # a => file'[z] = file[z]
    <2>1. file' = [file EXCEPT ![a] = g] /\ file \in [Name -> Seq(Unit)] /\ g \in Seq(Unit)
        BY <1>1, <1>2, <1>3, <1>6 DEF DiskType
    <2>2. QED
        BY <2>1
  <1>10. last' \in [Name -> 0 .. MaxRecs] /\ last'[a] = r /\ \A z \in Name : z # a => last'[z] = last[z]
    <2>1. last' = [last EXCEPT ![a] = r] /\ last \in [Name -> 0 .. MaxRecs] /\ r \in 0 .. MaxRecs
        BY <1>1, <1>2, <1>3, <1>5 DEF ToldType
    <2>2. QED
        BY <2>1
  <1>11. DiskType'
    <2>1. ASSUME NEW z \in Name PROVE synced'[z] <= Len(file'[z])
      <3>1. CASE z = a
          BY <1>2, <1>4, <1>7, <1>9, <3>1
      <3>2. CASE z # a
          BY <1>1, <1>2, <1>9, <3>2 DEF DiskType
      <3>3. QED
          BY <3>1, <3>2
    <2>2. QED
        BY <1>1, <1>2, <1>9, <2>1 DEF DiskType
  <1>12. ServerType'
      BY <1>1, <1>2 DEF ServerType
  <1>13. ToldType'
      BY <1>1, <1>2, <1>10 DEF ToldType
  <1>14. ModesInv'
      BY <1>1, <1>2 DEF ModesInv, Alive, NoCreate
  <1>15. StepOf(a)' = "none" /\ ~PassedOver(a)'
    <2>1. a # 0
        BY NameFacts
    <2>2. QED
        BY <1>2, <2>1 DEF StepOf, NoCreate, PassedOver
  <1>a. Owed(a)' = Owed(a)
      BY <1>2, Zenon DEF Owed
  <1>16. Owing(D, a)'
    <2>1. ASSUME NEW x \in Owed(a)
          PROVE  x \in D[a] \/ \E i \in 1 .. synced[a] : EndsAt(g, i, x)
      <3>1. CASE x \in D[a]
          BY <3>1
      <3>2. CASE x \notin D[a]
        <4>1. PICK i \in 1 .. synced[a] : EndsAt(f, i, x)
            BY <1>1, <1>3, <3>2, Zenon DEF Owing
        <4>2. i \in 1 .. Len(f)
            BY <1>4
        <4>3. EndsAt(g, i, x)
            BY <1>7, <4>1, <4>2, EndsAgrees
        <4>4. QED
            BY <4>3
      <3>3. QED
          BY <3>1, <3>2
    <2>2. ~(ParentsFollow /\ dirent'[a] = "cached")
        BY <1>2, <1>4
    <2>3. QED
        BY <1>2, <1>9, <1>15, <1>a, <2>1, <2>2, Zenon DEF Owing
  <1>17. Kept(a)'
      BY <1>2, <1>4, <1>5, <1>6, <1>7, <1>8, <1>9, <1>10 DEF Kept
  <1>18. Made(a)'
      BY <1>15 DEF Made
  <1>19. Usable(a)'
      BY <1>15, Zenon DEF Usable
  <1>20. ASSUME NEW z \in Name, z # a
         PROVE  /\ file'[z] = file[z] /\ synced'[z] = synced[z] /\ dirent'[z] = dirent[z]
                /\ last'[z] = last[z] /\ confirmed'[z] = confirmed[z]
                /\ (z \in created' <=> z \in created)
                /\ (z \in queues' => z \in queues) /\ (z \in waiting' => z \in waiting)
                /\ StepOf(z)' = StepOf(z) /\ (PassedOver(z)' => PassedOver(z))
                /\ (z \in botched => z \in botched')
    <2>1. StepOf(z)' = StepOf(z)
        BY <1>2, Zenon DEF StepOf
    <2>2. PassedOver(z)' => PassedOver(z)
        BY <1>2 DEF PassedOver, Alive
    <2>3. QED
        BY <1>2, <1>9, <1>10, <1>20, <2>1, <2>2
  <1>21. Base(D)'
      BY <1>11, <1>12, <1>13, <1>14, <1>16, <1>17, <1>18, <1>19, <1>20, OneQueue, Zenon
  <1>22. ASSUME NEW z \in Name PROVE Edit(file[z], file'[z])
      BY <1>3, <1>7, <1>9, EditSame, Zenon
  <1>23. QED
      BY <1>21, <1>22

LEMMA ConfirmBase ==
    ASSUME NEW D, Base(D), NEW a \in Name, Confirm(a)
    PROVE  Base(D)' /\ \A q \in Name : Edit(file[q], file'[q])
  <1>1. /\ DiskType /\ ServerType /\ ToldType /\ ModesInv
        /\ \A q \in Name : Owing(D, q) /\ Kept(q) /\ Made(q) /\ Usable(q)
      BY BaseFacts
  <1>2. /\ Alive /\ a \in waiting /\ synced' = [synced EXCEPT ![a] = Len(file[a])]
        /\ confirmed' = [confirmed EXCEPT ![a] = confirmed[a] \cup {last[a]}]
        /\ waiting' = waiting \ {a} /\ file' = file /\ dirent' = dirent /\ proc' = proc
        /\ todo' = todo /\ queues' = queues /\ creating' = creating /\ last' = last
        /\ created' = created /\ botched' = botched
      BY Zenon DEF Confirm
  <1>3. a \in queues
      BY <1>1, <1>2 DEF ServerType
  <1>4. PICK f, r : f = file[a] /\ r = last[a]
      OBVIOUS
  <1>5. /\ f \in Seq(Unit) /\ (ParentsFollow => dirent[a] = "stable")
        /\ synced[a] \in Nat /\ synced[a] <= Len(f) /\ Len(f) \in Nat \ {0}
        /\ EndsAt(f, Len(f), r) /\ r \in 1 .. MaxRecs
      BY <1>1, <1>2, <1>3, <1>4 DEF DiskType, Kept
  <1>6. /\ synced' \in [Name -> Nat] /\ synced'[a] = Len(f)
        /\ \A z \in Name : z # a => synced'[z] = synced[z]
    <2>1. synced' = [synced EXCEPT ![a] = Len(f)] /\ synced \in [Name -> Nat] /\ Len(f) \in Nat
        BY <1>1, <1>2, <1>4, <1>5 DEF DiskType
    <2>2. QED
        BY <2>1
  <1>7. /\ confirmed' \in [Name -> SUBSET (1 .. MaxRecs)] /\ confirmed'[a] = confirmed[a] \cup {r}
        /\ \A z \in Name : z # a => confirmed'[z] = confirmed[z]
    <2>1. /\ confirmed' = [confirmed EXCEPT ![a] = confirmed[a] \cup {r}]
          /\ confirmed \in [Name -> SUBSET (1 .. MaxRecs)] /\ r \in 1 .. MaxRecs
        BY <1>1, <1>2, <1>4, <1>5 DEF ToldType
    <2>2. QED
        BY <2>1
  <1>8. DiskType'
    <2>1. ASSUME NEW z \in Name PROVE synced'[z] <= Len(file'[z])
      <3>1. CASE z = a
          BY <1>2, <1>4, <1>5, <1>6, <3>1
      <3>2. CASE z # a
          BY <1>1, <1>2, <1>6, <3>2 DEF DiskType
      <3>3. QED
          BY <3>1, <3>2
    <2>2. QED
        BY <1>1, <1>2, <1>6, <2>1 DEF DiskType
  <1>9. ServerType'
      BY <1>1, <1>2 DEF ServerType
  <1>10. ToldType'
      BY <1>1, <1>2, <1>7 DEF ToldType
  <1>11. ModesInv'
      BY <1>1, <1>2 DEF ModesInv, Alive, NoCreate
  <1>12. StepOf(a)' = StepOf(a) /\ ~PassedOver(a)'
      BY <1>2, <1>3, Zenon DEF StepOf, PassedOver
  <1>13. Owing(D, a)'
    <2>1. ASSUME NEW x \in Owed(a)'
          PROVE  x \in D[a] \/ \E i \in 1 .. synced'[a] : EndsAt(file'[a], i, x)
      <3>1. x \in Owed(a) \/ x = r
          BY <1>2, <1>7 DEF Owed
      <3>2. CASE x = r
        <4>1. Len(f) \in 1 .. synced'[a]
            BY <1>5, <1>6
        <4>2. QED
            BY <1>2, <1>4, <1>5, <3>2, <4>1
      <3>3. CASE x \in Owed(a) /\ x \notin D[a]
        <4>1. PICK i \in 1 .. synced[a] : EndsAt(f, i, x)
            BY <1>1, <1>4, <3>3, Zenon DEF Owing
        <4>2. i \in 1 .. synced'[a]
            BY <1>5, <1>6
        <4>3. QED
            BY <1>2, <1>4, <4>1, <4>2
      <3>4. QED
          BY <3>1, <3>2, <3>3
    <2>2. ~(ParentsFollow /\ dirent'[a] = "cached")
        BY <1>2, <1>5
    <2>3. QED
        BY <1>12, <2>1, <2>2, Zenon DEF Owing
  <1>14. Kept(a)'
      BY <1>1, <1>2 DEF Kept
  <1>15. Made(a)'
      BY <1>1, <1>2, <1>12, Zenon DEF Made
  <1>16. Usable(a)'
      BY <1>12, Zenon DEF Usable
  <1>17. ASSUME NEW z \in Name, z # a
         PROVE  /\ file'[z] = file[z] /\ synced'[z] = synced[z] /\ dirent'[z] = dirent[z]
                /\ last'[z] = last[z] /\ confirmed'[z] = confirmed[z]
                /\ (z \in created' <=> z \in created)
                /\ (z \in queues' => z \in queues) /\ (z \in waiting' => z \in waiting)
                /\ StepOf(z)' = StepOf(z) /\ (PassedOver(z)' => PassedOver(z))
                /\ (z \in botched => z \in botched')
    <2>1. StepOf(z)' = StepOf(z)
        BY <1>2, Zenon DEF StepOf
    <2>2. PassedOver(z)' => PassedOver(z)
        BY <1>2 DEF PassedOver, Alive
    <2>3. QED
        BY <1>2, <1>6, <1>7, <1>17, <2>1, <2>2
  <1>18. Base(D)'
      BY <1>8, <1>9, <1>10, <1>11, <1>13, <1>14, <1>15, <1>16, <1>17, OneQueue, Zenon
  <1>19. QED
      BY <1>2, <1>18, EditSame

-----------------------------------------------------------------------------
(***************************************************************************)
(* The theorems about the server.                                          *)
(***************************************************************************)
\* A step of the server that is not the loss of power.
ServerStep ==
    \/ Kill \/ StartServer \/ Boot \/ Terminate \/ CloseManager \/ CreateStep
    \/ \E q \in Name : \/ CreateRefused(q) \/ CreateBegins(q)
                       \/ Enqueue(q) \/ Confirm(q)

LEMMA ServerBase ==
    ASSUME NEW D, Base(D), ServerStep
    PROVE  Base(D)' /\ \A q \in Name : Edit(file[q], file'[q])
  <1>1. CASE Kill
      BY <1>1, KilledBase DEF Kill
  <1>2. CASE StartServer
      BY <1>2, StartBase
  <1>3. CASE Boot
    <2>1. CASE LoadRefuses \/ LoadFails
      <3>1. Dies /\ (proc' = "refused" \/ proc' = "down") /\ UNCHANGED <<disk, told>>
          BY <2>1, Zenon DEF LoadRefuses, LoadFails
      <3>2. proc' \in {"down", "refused"}
          BY <3>1
      <3>3. QED
          BY <3>1, <3>2, QuietDies
    <2>2. CASE LoadSkips
        BY <2>2, SkipBase
    <2>3. CASE LoadOpens
        BY <2>3, OpenBase
    <2>4. CASE Serving
        BY <2>4, MovesOnBase
    <2>5. QED
        BY <1>3, <2>1, <2>2, <2>3, <2>4 DEF Boot
  <1>4. CASE Terminate
      BY <1>4, MovesOnBase
  <1>5. CASE CloseManager
      BY <1>5, CloseBase
  <1>6. CASE CreateStep
      BY <1>6, CreateFileBase, CreateSyncsBase, CreateFailsBase DEF CreateStep
  <1>7. ASSUME NEW q \in Name, CreateRefused(q) \/ CreateBegins(q)
        PROVE  Base(D)' /\ \A z \in Name : Edit(file[z], file'[z])
      BY <1>7, MovesOnBase
  <1>8. ASSUME NEW q \in Name, Enqueue(q) \/ Confirm(q)
        PROVE  Base(D)' /\ \A z \in Name : Edit(file[z], file'[z])
      BY <1>8, EnqueueBase, ConfirmBase
  <1>9. QED
      BY <1>1, <1>2, <1>3, <1>4, <1>5, <1>6, <1>7, <1>8 DEF ServerStep

LEMMA StutterBase ==
    ASSUME NEW D, Base(D), UNCHANGED vars
    PROVE  Base(D)' /\ file' = file /\ proc' = proc
  <1>1. /\ UNCHANGED <<disk, told>> /\ proc' = proc /\ todo' = todo /\ queues' = queues
        /\ creating' = creating /\ waiting' = waiting /\ botched' = botched
      BY Zenon DEF vars, server
  <1>2. ServerType /\ ModesInv /\ \A q \in Name : Owing(D, q) /\ Usable(q)
      BY BaseFacts
  <1>3. ServerType'
      BY <1>1, <1>2, Zenon DEF ServerType
  <1>4. ModesInv'
      BY <1>1, <1>2, Zenon DEF ModesInv, Alive
  <1>5. ASSUME NEW q \in Name
        PROVE  /\ q \in queues' => q \in queues
               /\ q \in waiting' => q \in waiting
               /\ StepOf(q)' \in {"none", "open"} \/ StepOf(q)' = StepOf(q)
               /\ PassedOver(q)' => Owed(q) \subseteq D[q]
               /\ PassedOver(q)' /\ q \notin botched' /\ StepOf(q)' = "none"
                    => Replay(file[q]) \in {Clean(0), Torn(0)}
    <2>1. StepOf(q)' = StepOf(q) /\ (PassedOver(q)' => PassedOver(q))
        BY <1>1, Zenon DEF StepOf, PassedOver, Alive
    <2>2. QED
        BY <1>1, <1>2, <2>1, Zenon DEF Owing, Usable
  <1>6. Base(D)'
      BY <1>1, <1>3, <1>4, <1>5, QuietBase
  <1>7. QED
      BY <1>1, <1>6, Zenon DEF disk

\* Nobody but the server touches a log of its own.
Nothing == [q \in Name |-> {}]

\* Everything a client may be told of: what is owed does not matter.
Anything == [q \in Name |-> {Meta} \cup 1 .. MaxRecs]

LEMMA InitBase == Init => \A D : Base(D)
  <1> SUFFICES ASSUME Init, NEW D PROVE Base(D)
      OBVIOUS
  <1>1. /\ \A q \in Name : /\ file[q] = <<>> /\ synced[q] = 0 /\ dirent[q] = "none"
                           /\ last[q] = 0 /\ confirmed[q] = {}
        /\ proc = "down" /\ todo = {} /\ queues = {} /\ creating = NoCreate /\ waiting = {}
        /\ created = {}
      BY DEF Init
  <1>2. DiskType
    <2>1. /\ file \in [Name -> Seq(Unit)] /\ synced \in [Name -> Nat]
          /\ dirent \in [Name -> {"none", "cached", "stable"}]
        BY EmptyLog DEF Init
    <2>2. \A q \in Name : synced[q] <= Len(file[q])
        BY <1>1, EmptyLog
    <2>3. QED
        BY <2>1, <2>2 DEF DiskType
  <1>3. ServerType
      BY <1>1 DEF ServerType, NoCreate
  <1>4. ToldType
      BY ManagerAssumption DEF ToldType, Init
  <1>5. ModesInv
      BY <1>1 DEF ModesInv, NoCreate, Alive
  <1>6. ASSUME NEW q \in Name PROVE QueueInv(D, q)
    <2>1. Owed(q) = {} /\ ~PassedOver(q)
        BY <1>1 DEF Owed, PassedOver, Alive
    <2>2. StepOf(q) = "none"
      <3>1. q # 0
          BY NameFacts
      <3>2. QED
          BY <1>1, <3>1 DEF StepOf, NoCreate
    <2>3. Owing(D, q)
        BY <2>1 DEF Owing
    <2>4. Kept(q)
        BY <1>1, EmptyLog, StraightShaped DEF Kept
    <2>5. Made(q) /\ Usable(q)
        BY <2>1, <2>2 DEF Made, Usable
    <2>6. QED
        BY <2>3, <2>4, <2>5 DEF QueueInv
  <1>7. QED
      BY <1>2, <1>3, <1>4, <1>5, <1>6 DEF Base, Types

LEMMA NextSplit ==
    ASSUME [Next]_vars
    PROVE  ServerStep \/ PowerCut \/ UNCHANGED vars
  BY Zenon DEF Next, ServerStep

\* What a server that serves has of what is owed.
LEMMA ServesOwed ==
    ASSUME NEW D, Base(D), proc = "up", NEW q \in Name, NEW x \in Owed(q)
    PROVE  x \in D[q] \/ (q \in queues /\ x \in Records(file[q]))
  <1>1. DiskType /\ ModesInv /\ Owing(D, q) /\ Kept(q)
      BY BaseFacts
  <1>2. CASE q \notin queues
    <2>1. PassedOver(q)
        BY <1>1, <1>2 DEF PassedOver, Alive, ModesInv
    <2>2. QED
        BY <1>1, <2>1, Zenon DEF Owing
  <1>3. CASE q \in queues /\ x \notin D[q]
    <2>1. PICK f : f = file[q]
        OBVIOUS
    <2>2. f \in Seq(Unit) /\ Sound(f) /\ synced[q] \in Nat /\ synced[q] <= Len(f)
        BY <1>1, <1>3, <2>1 DEF DiskType, Kept
    <2>3. PICK i \in 1 .. synced[q] : EndsAt(f, i, x)
        BY <1>1, <1>3, <2>1, Zenon DEF Owing
    <2>4. i \in 1 .. Len(f)
        BY <2>2
    <2>5. f[i].rec \in Records(f)
        BY <2>2, <2>4, SoundReplay
    <2>6. QED
        BY <1>3, <2>1, <2>3, <2>5 DEF EndsAt
  <1>4. QED
      BY <1>2, <1>3

LEMMA NextServed ==
    ASSUME ParentsFollow \/ ~PowerCuts, Base(Nothing), [Next]_vars
    PROVE  Base(Nothing)'
  <1>1. PICK D : D = Nothing
      OBVIOUS
  <1>2. Base(D)
      BY <1>1
  <1>3. Base(D)'
    <2>1. CASE ServerStep
        BY <1>2, <2>1, ServerBase
    <2>2. CASE PowerCut
      <3>1. ParentsFollow
          BY <2>2 DEF PowerCut
      <3>2. QED
          BY <1>2, <2>2, <3>1, PowerCutBase
    <2>3. CASE UNCHANGED vars
        BY <1>2, <2>3, StutterBase
    <2>4. QED
        BY <2>1, <2>2, <2>3, NextSplit
  <1>4. QED
      BY <1>1, <1>3

\* A server that serves has every queue it ever answered 201 for, and in each
\* every enqueue it answered, if fsync of a queue's directory also commits the
\* entry of that directory or if the machine never loses power (Manager.Create
\* and wal.Open fsync the queue's directory and nobody fsyncs the root: without
\* either, Manager_powercut shows a queue that is lost).
THEOREM CreatedQueuesAreServed ==
    ASSUME ParentsFollow \/ ~PowerCuts
    PROVE  Spec => []ServesAllConfirmed
  <1>1. Init => Base(Nothing)
      BY InitBase
  <1>2. Base(Nothing) /\ [Next]_vars => Base(Nothing)'
      BY NextServed
  <1>3. Base(Nothing) => ServesAllConfirmed
    <2> SUFFICES ASSUME Base(Nothing), proc = "up", NEW q \in created
                 PROVE  q \in queues /\ confirmed[q] \subseteq Records(file[q])
        BY DEF ServesAllConfirmed
    <2>1. q \in Name
        BY DEF Base, Types, ToldType
    <2>2. \A x \in Owed(q) : q \in queues /\ x \in Records(file[q])
      <3>1. Nothing[q] = {}
          BY <2>1 DEF Nothing
      <3>2. QED
          BY <2>1, <3>1, ServesOwed
    <2>3. Meta \in Owed(q) /\ confirmed[q] \subseteq Owed(q)
        BY DEF Owed
    <2>4. QED
        BY <2>2, <2>3
  <1>4. QED
      BY <1>1, <1>2, <1>3, PTL DEF Spec

\* What does not depend on what is owed: a log is whole records and at most one
\* that was cut.
StraightInv == \A q \in Name : Straight(file[q])

LogsInv == Base(Anything) /\ StraightInv

LEMMA InitLogs == Init => LogsInv
  <1> SUFFICES ASSUME Init PROVE LogsInv
      OBVIOUS
  <1>1. Base(Anything)
      BY InitBase
  <1>2. StraightInv
      BY EmptyLog DEF Init, StraightInv
  <1>3. QED
      BY <1>1, <1>2 DEF LogsInv

LEMMA NextLogs == LogsInv /\ [Next]_vars => LogsInv'
  <1> SUFFICES ASSUME LogsInv, [Next]_vars PROVE LogsInv'
      OBVIOUS
  <1>1. PICK D : D = Anything
      OBVIOUS
  <1>2. Base(D) /\ StraightInv
      BY <1>1 DEF LogsInv
  <1>3. DiskType /\ ServerType /\ ToldType
      BY <1>2, BaseFacts
  <1>4. ASSUME NEW q \in Name PROVE file[q] \in Seq(Unit) /\ Straight(file[q])
      BY <1>2, <1>3 DEF DiskType, StraightInv
  <1>5. Base(D)' /\ StraightInv'
    <2>1. CASE ServerStep
      <3>1. Base(D)' /\ \A q \in Name : Edit(file[q], file'[q])
          BY <1>2, <2>1, ServerBase
      <3>2. ASSUME NEW q \in Name PROVE Straight(file'[q])
        <4>1. PICK f, g : f = file[q] /\ g = file'[q]
            OBVIOUS
        <4>2. f \in Seq(Unit) /\ Straight(f) /\ Edit(f, g)
            BY <1>4, <3>1, <4>1
        <4>3. Straight(g)
            BY <4>2, EditShape
        <4>4. QED
            BY <4>1, <4>3
      <3>3. QED
          BY <3>1, <3>2 DEF StraightInv
    <2>2. CASE PowerCut
      <3>1. \A q \in Name : Owed(q) \subseteq D[q]
          BY <1>1, <1>3, OwedFacts DEF Anything
      <3>2. Base(D)' /\ \A q \in Name : Straight(file[q]) => Straight(file'[q])
          BY <1>2, <2>2, <3>1, PowerCutBase
      <3>3. QED
          BY <1>4, <3>2 DEF StraightInv
    <2>3. CASE UNCHANGED vars
      <3>1. Base(D)' /\ file' = file
          BY <1>2, <2>3, StutterBase
      <3>2. QED
          BY <1>2, <3>1 DEF StraightInv
    <2>4. QED
        BY <2>1, <2>2, <2>3, NextSplit
  <1>6. QED
      BY <1>1, <1>5 DEF LogsInv

\* Every name that is not served can be created, whatever an interrupted create
\* has left: the logs that Load passes over are the ones that Create starts
\* over, except after a create that failed in this very process.
THEOREM InterruptedNamesAreFree == Spec => []NamesUsable
  <1>1. LogsInv => NamesUsable
    <2> SUFFICES ASSUME LogsInv, proc = "up", creating = NoCreate,
                        NEW q \in Name, q \notin queues, q \notin botched
                 PROVE  NameFree(q)
        BY DEF NamesUsable
    <2>1. ModesInv /\ Usable(q)
        BY BaseFacts DEF LogsInv
    <2>2. PassedOver(q)
        BY <2>1 DEF ModesInv, PassedOver, Alive
    <2>3. StepOf(q) = "none"
      <3>1. q # 0
          BY NameFacts
      <3>2. QED
          BY <3>1 DEF StepOf, NoCreate
    <2>4. QED
        BY <2>1, <2>2, <2>3 DEF Usable, NameFree
  <1>2. QED
      BY InitLogs, NextLogs, <1>1, PTL DEF Spec

-----------------------------------------------------------------------------
(***************************************************************************)
(* A server that refuses to start.                                         *)
(***************************************************************************)
\* What is owed of a queue is in front of all damage to its log.
Firm(q) ==
    \A x \in Owed(q) : \E i \in 1 .. synced[q] : EndsAt(file[q], i, x) /\ Clear(file[q], i)

RefusedInv == proc = "refused" => \E q \in Name : Replay(file[q]).corrupt

RefusalInv == Base(Nothing) /\ RefusedInv /\ \A q \in Name : Firm(q)

\* The log of a queue that a step keeps closed: new, or as it was up to the fsync.
LEMMA ClosedLog ==
    ASSUME NEW D, Base(D), ServerStep, NEW q \in Name, q \notin queues'
    PROVE  /\ Owed(q)' = Owed(q)
           /\ \/ Unhurt(file'[q])
              \/ \E n \in synced[q] .. Len(file[q]) : file'[q] = SubSeq(file[q], 1, n)
  <1>1. DiskType /\ ServerType /\ ToldType /\ ModesInv
      BY BaseFacts
  <1>2. PICK f, s : f = file[q] /\ s = synced[q]
      OBVIOUS
  <1>3. f \in Seq(Unit) /\ s \in Nat /\ s <= Len(f) /\ Len(f) \in Nat
      BY <1>1, <1>2 DEF DiskType
  <1>4. ASSUME file'[q] = f PROVE \E n \in s .. Len(f) : file'[q] = SubSeq(f, 1, n)
    <2>1. Len(f) \in s .. Len(f) /\ f = SubSeq(f, 1, Len(f))
        BY <1>3
    <2>2. QED
        BY <1>4, <2>1
  <1>5. ASSUME file'[q] \in Cut(q) PROVE \E n \in s .. Len(f) : file'[q] = SubSeq(f, 1, n)
      BY <1>2, <1>5, Zenon DEF Cut
  <1>6. ASSUME confirmed'[q] = confirmed[q], q \in created' <=> q \in created
        PROVE  Owed(q)' = Owed(q)
      BY <1>6, Zenon DEF Owed
  <1>7. Unhurt(<<>>) /\ Unhurt(Encode(Meta))
      BY EmptyLog, MetaLog DEF Sound
  <1>8. CASE \/ StartServer \/ LoadRefuses \/ LoadSkips \/ LoadFails \/ Serving \/ Terminate
             \/ CreateSyncsDir \/ \E z \in Name : CreateRefused(z) \/ CreateBegins(z)
    <2>1. file' = file /\ UNCHANGED told
        BY <1>8, Zenon DEF StartServer, LoadRefuses, LoadSkips, LoadFails, Serving, Terminate,
           CreateSyncsDir, CreateRefused, CreateBegins, disk
    <2>2. QED
        BY <1>2, <1>4, <2>1, OwedSame
  <1>9. CASE Kill
    <2>1. file'[q] \in Cut(q) /\ UNCHANGED told
        BY <1>9, Zenon DEF Kill, Killed
    <2>2. QED
        BY <1>2, <1>5, <2>1, OwedSame
  <1>10. CASE CloseManager
    <2>1. file' = file /\ UNCHANGED told
        BY <1>10, Zenon DEF CloseManager
    <2>2. QED
        BY <1>2, <1>4, <2>1, OwedSame
  <1>11. CASE LoadOpens
    <2>1. PICK m, F : /\ file' = [file EXCEPT ![m] = F] /\ queues' = queues \cup {m}
                      /\ UNCHANGED told
        BY <1>11, Zenon DEF LoadOpens
    <2>2. file'[q] = f
        BY <1>1, <1>2, <2>1 DEF DiskType
    <2>3. QED
        BY <1>2, <1>4, <2>1, <2>2, OwedSame
  <1>12. CASE CreateOpens \/ CreateWritesMeta
    <2>1. PICK a, F : file' = [file EXCEPT ![a] = F] /\ Unhurt(F) /\ UNCHANGED told
        BY <1>7, <1>12, Zenon DEF CreateOpens, CreateWritesMeta
    <2>2. file'[q] = f \/ Unhurt(file'[q])
        BY <1>1, <1>2, <2>1 DEF DiskType
    <2>3. QED
        BY <1>2, <1>4, <2>1, <2>2, OwedSame
  <1>13. CASE CreateSyncs
    <2>1. PICK a : /\ file' = file /\ queues' = queues \cup {a} /\ created' = created \cup {a}
                   /\ confirmed' = confirmed
        BY <1>13, Zenon DEF CreateSyncs
    <2>2. QED
        BY <1>2, <1>4, <1>6, <2>1
  <1>14. CASE CreateFails
    <2>1. PICK F \in Cut(creating.q) : file' = [file EXCEPT ![creating.q] = F]
        BY <1>14, Zenon DEF CreateFails
    <2>2. PICK a : a = creating.q /\ F \in Cut(a) /\ file' = [file EXCEPT ![a] = F]
        BY <2>1
    <2>3. file'[q] = f \/ (a = q /\ file'[q] = F)
        BY <1>1, <1>2, <2>2 DEF DiskType
    <2>4. UNCHANGED told
        BY <1>14, Zenon DEF CreateFails
    <2>5. QED
        BY <1>2, <1>4, <1>5, <2>2, <2>3, <2>4, OwedSame
  <1>15. ASSUME NEW z \in Name, Enqueue(z)
         PROVE  file'[q] = f /\ Owed(q)' = Owed(q)
    <2>1. PICK F : /\ file' = [file EXCEPT ![z] = F] /\ z \in queues' /\ created' = created
                   /\ confirmed' = confirmed
        BY <1>15, Zenon DEF Enqueue
    <2>2. QED
        BY <1>1, <1>2, <1>6, <2>1 DEF DiskType
  <1>16. ASSUME NEW z \in Name, Confirm(z)
         PROVE  file'[q] = f /\ Owed(q)' = Owed(q)
    <2>1. PICK C : /\ file' = file /\ z \in waiting /\ queues' = queues /\ created' = created
                   /\ confirmed' = [confirmed EXCEPT ![z] = C]
        BY <1>16, Zenon DEF Confirm
    <2>2. z # q
        BY <1>1, <2>1 DEF ServerType
    <2>3. confirmed'[q] = confirmed[q]
        BY <1>1, <2>1, <2>2 DEF ToldType
    <2>4. QED
        BY <1>2, <1>6, <2>1, <2>3
  <1>17. QED
      BY <1>2, <1>4, <1>8, <1>9, <1>10, <1>11, <1>12, <1>13, <1>14, <1>15, <1>16, Zenon
      DEF ServerStep, Boot, CreateStep

LEMMA ClosedSynced ==
    ASSUME NEW D, Base(D), ServerStep, NEW q \in Name, q \notin queues', ~Unhurt(file'[q])
    PROVE  synced'[q] >= synced[q]
  <1>1. DiskType /\ ServerType
      BY BaseFacts
  <1>2. synced[q] \in Nat /\ synced[q] <= Len(file[q])
      BY <1>1 DEF DiskType
  <1>3. ASSUME synced' = synced PROVE synced'[q] >= synced[q]
      BY <1>2, <1>3
  <1>4. ASSUME NEW a, a # q, NEW v, synced' = [synced EXCEPT ![a] = v]
        PROVE  synced'[q] >= synced[q]
      BY <1>1, <1>2, <1>4 DEF DiskType
  <1>5. CASE \/ StartServer \/ LoadRefuses \/ LoadSkips \/ LoadFails \/ Serving \/ Terminate
             \/ CreateSyncsDir \/ CreateWritesMeta \/ CreateFails \/ Kill
             \/ \E z \in Name : CreateRefused(z) \/ CreateBegins(z) \/ Enqueue(z)
    <2>1. synced' = synced
        BY <1>5, Zenon DEF StartServer, LoadRefuses, LoadSkips, LoadFails, Serving, Terminate,
           CreateSyncsDir, CreateWritesMeta, CreateFails, Kill, Killed, CreateRefused,
           CreateBegins, Enqueue, disk
    <2>2. QED
        BY <1>3, <2>1
  <1>6. CASE LoadOpens \/ CreateSyncs
    <2>1. PICK a, v : queues' = queues \cup {a} /\ synced' = [synced EXCEPT ![a] = v]
        BY <1>6, Zenon DEF LoadOpens, CreateSyncs
    <2>2. a # q
        BY <2>1
    <2>3. QED
        BY <1>4, <2>1, <2>2
  <1>7. CASE CreateOpens
    <2>1. PICK a, v : /\ synced' = [synced EXCEPT ![a] = v] /\ file' = [file EXCEPT ![a] = <<>>]
        BY <1>7, Zenon DEF CreateOpens
    <2>2. Unhurt(<<>>)
        BY EmptyLog DEF Sound
    <2>3. a # q
        BY <1>1, <2>1, <2>2 DEF DiskType
    <2>4. QED
        BY <1>4, <2>1, <2>3
  <1>8. CASE CloseManager
    <2>1. synced' = [z \in Name |-> IF z \in queues THEN Len(file[z]) ELSE synced[z]]
        BY <1>8, Zenon DEF CloseManager
    <2>2. file[q] \in Seq(Unit)
        BY <1>1 DEF DiskType
    <2>3. QED
        BY <1>2, <2>1, <2>2
  <1>9. ASSUME NEW z \in Name, Confirm(z)
        PROVE  synced'[q] >= synced[q]
    <2>1. PICK v : synced' = [synced EXCEPT ![z] = v] /\ z \in waiting /\ queues' = queues
        BY <1>9, Zenon DEF Confirm
    <2>2. z # q
        BY <1>1, <2>1 DEF ServerType
    <2>3. QED
        BY <1>4, <2>1, <2>2
  <1>10. QED
      BY <1>5, <1>6, <1>7, <1>8, <1>9, Zenon DEF ServerStep, Boot, CreateStep

\* Up to the last fsync, a log that is cut after it keeps what it has.
LEMMA FirmCut ==
    ASSUME NEW f \in Seq(Unit), NEW s \in Nat, s <= Len(f), NEW n \in s .. Len(f),
           NEW g, g = SubSeq(f, 1, n), NEW i \in 1 .. s, NEW x, EndsAt(f, i, x), Clear(f, i)
    PROVE  EndsAt(g, i, x) /\ Clear(g, i)
  <1>1. Len(f) \in Nat /\ n \in 0 .. Len(f)
      OBVIOUS
  <1>2. \A j \in 1 .. n : g[j] = f[j]
      BY <1>1
  <1>3. \A j \in 1 .. i : g[j] = f[j]
      BY <1>1, <1>2
  <1>4. i \in 1 .. i
      OBVIOUS
  <1>5. QED
      BY <1>3, <1>4, Zenon DEF EndsAt, Clear

LEMMA FirmFlip ==
    ASSUME NEW f \in Seq(Unit), NEW s \in Nat, NEW k \in s + 1 .. Len(f),
           NEW g, g = Flipped(f, k), NEW i \in 1 .. s, NEW x, EndsAt(f, i, x), Clear(f, i)
    PROVE  EndsAt(g, i, x) /\ Clear(g, i)
  <1>1. Len(f) \in Nat /\ k \in 1 .. Len(f)
      OBVIOUS
  <1>2. PICK u : g = [f EXCEPT ![k] = u]
      BY Zenon DEF Flipped
  <1>3. \A j \in 1 .. i : g[j] = f[j]
    <2> SUFFICES ASSUME NEW j \in 1 .. i PROVE g[j] = f[j]
        OBVIOUS
    <2>1. j # k /\ j \in 1 .. Len(f)
        BY <1>1
    <2>2. QED
        BY <1>2, <2>1
  <1>4. i \in 1 .. i
      OBVIOUS
  <1>5. QED
      BY <1>3, <1>4, Zenon DEF EndsAt, Clear

LEMMA NextFirm ==
    ASSUME ParentsFollow \/ ~PowerCuts, RefusalInv, [Next]_vars, NEW q \in Name
    PROVE  Firm(q)'
  <1>1. PICK D : D = Nothing
      OBVIOUS
  <1>2. Base(D) /\ Firm(q) /\ D[q] = {}
      BY <1>1 DEF RefusalInv, Nothing
  <1>3. Base(D)'
      BY <1>1, NextServed DEF RefusalInv
  <1>4. DiskType /\ Owing(D, q)
      BY <1>2, BaseFacts
  <1>5. /\ file'[q] \in Seq(Unit) /\ synced'[q] \in Nat /\ synced'[q] <= Len(file'[q])
        /\ \A x \in Owed(q)' : \E i \in 1 .. synced'[q] : EndsAt(file'[q], i, x)
        /\ q \in queues' => Unhurt(file'[q])
    <2>1. DiskType' /\ Owing(D, q)' /\ Kept(q)'
        BY <1>3, Zenon DEF Base, Types, QueueInv
    <2>2. \A x \in Owed(q)' : x \in D[q] \/ \E i \in 1 .. synced'[q] : EndsAt(file'[q], i, x)
        BY <2>1, Zenon DEF Owing
    <2>3. q \in queues' => Unhurt(file'[q])
        BY <2>1, Zenon DEF Kept, Sound
    <2>4. file'[q] \in Seq(Unit) /\ synced'[q] \in Nat /\ synced'[q] <= Len(file'[q])
        BY <2>1 DEF DiskType
    <2>5. QED
        BY <1>2, <2>2, <2>3, <2>4
  <1>6. PICK f, s, g : f = file[q] /\ s = synced[q] /\ g = file'[q]
      OBVIOUS
  <1>7. f \in Seq(Unit) /\ s \in Nat /\ s <= Len(f) /\ Len(f) \in Nat
      BY <1>4, <1>6 DEF DiskType
  <1>8. ASSUME Unhurt(g) PROVE Firm(q)'
    <2>1. ASSUME NEW x \in Owed(q)'
          PROVE  \E i \in 1 .. synced'[q] : EndsAt(g, i, x) /\ Clear(g, i)
      <3>1. PICK i \in 1 .. synced'[q] : EndsAt(g, i, x)
          BY <1>5, <1>6, <2>1
      <3>2. \A j \in 1 .. i : j \in 1 .. Len(g)
          BY <1>5, <1>6
      <3>3. QED
          BY <1>8, <3>1, <3>2, Zenon DEF Unhurt, Clear
    <2>2. QED
        BY <1>6, <2>1, Zenon DEF Firm
  <1>9. ASSUME Owed(q)' = Owed(q), \A i \in 1 .. s : i \in 1 .. synced'[q],
               \A i \in 1 .. s : \A x : EndsAt(f, i, x) /\ Clear(f, i)
                                         => EndsAt(g, i, x) /\ Clear(g, i)
        PROVE  Firm(q)'
    <2>1. \A x \in Owed(q) : \E i \in 1 .. s : EndsAt(f, i, x) /\ Clear(f, i)
        BY <1>2, <1>6, Zenon DEF Firm
    <2>2. \A x \in Owed(q)' : \E i \in 1 .. synced'[q] : EndsAt(g, i, x) /\ Clear(g, i)
        BY <1>9, <2>1, Zenon
    <2>3. QED
        BY <1>6, <2>2, Zenon DEF Firm
  <1>10. CASE ServerStep
    <2>1. CASE q \in queues'
        BY <1>5, <1>6, <1>8, <2>1
    <2>2. CASE q \notin queues' /\ ~Unhurt(g)
      <3>1. /\ Owed(q)' = Owed(q)
            /\ \E n \in s .. Len(f) : g = SubSeq(f, 1, n)
          BY <1>2, <1>6, <1>10, <2>2, ClosedLog, Zenon
      <3>2. \A i \in 1 .. s : \A x : EndsAt(f, i, x) /\ Clear(f, i)
                                       => EndsAt(g, i, x) /\ Clear(g, i)
          BY <1>7, <3>1, FirmCut
      <3>3. synced'[q] >= s
          BY <1>2, <1>6, <1>10, <2>2, ClosedSynced
      <3>4. \A i \in 1 .. s : i \in 1 .. synced'[q]
          BY <1>5, <1>7, <3>3
      <3>5. QED
          BY <1>9, <3>1, <3>2, <3>4
    <2>3. QED
        BY <1>8, <2>1, <2>2
  <1>11. CASE PowerCut
    <2>1. ParentsFollow
        BY <1>11 DEF PowerCut
    <2>2. Owed(q)' = Owed(q)
        BY <1>11, OwedSame DEF PowerCut
    <2>3. CASE Owed(q) = {}
        BY <2>2, <2>3, Zenon DEF Firm
    <2>4. CASE Owed(q) # {}
      <3>1. dirent[q] # "cached"
          BY <1>2, <1>4, <2>1, <2>4 DEF Owing
      <3>2. g \in Holed(q) /\ synced'[q] = Len(g)
        <4>1. PICK lost \in SUBSET {z \in Name : dirent[z] = "cached"} :
                 \E F \in [Name -> {<<>>} \cup UNION {Holed(z) : z \in Name}] :
                   /\ \A z \in Name : IF z \in lost THEN F[z] = <<>> ELSE F[z] \in Holed(z)
                   /\ file' = F
                   /\ synced' = [z \in Name |-> Len(F[z])]
            BY <1>11, Zenon DEF PowerCut
        <4>2. PICK F : /\ \A z \in Name : IF z \in lost THEN F[z] = <<>> ELSE F[z] \in Holed(z)
                       /\ file' = F /\ synced' = [z \in Name |-> Len(F[z])]
            BY <4>1, Zenon
        <4>3. q \notin lost
            BY <3>1
        <4>4. F[q] \in Holed(q)
            BY <4>2, <4>3, Zenon
        <4>5. g = F[q] /\ synced'[q] = Len(F[q])
            BY <1>6, <4>2
        <4>6. QED
            BY <4>4, <4>5
      <3>3. CASE g \in Cut(q)
        <4>1. PICK n \in s .. Len(f) : g = SubSeq(f, 1, n)
            BY <1>6, <3>3, Zenon DEF Cut
        <4>2. Len(g) >= s
            BY <1>7, <4>1
        <4>3. \A i \in 1 .. s : i \in 1 .. synced'[q]
            BY <1>5, <1>7, <3>2, <4>2
        <4>4. \A i \in 1 .. s : \A x : EndsAt(f, i, x) /\ Clear(f, i)
                                         => EndsAt(g, i, x) /\ Clear(g, i)
            BY <1>7, <4>1, FirmCut
        <4>5. QED
            BY <1>9, <2>2, <4>3, <4>4
      <3>4. CASE g \notin Cut(q)
        <4>1. PICK k \in s + 1 .. Len(f) : g = Flipped(f, k)
            BY <1>6, <3>2, <3>4, HoledOf
        <4>2. Len(g) = Len(f)
          <5>1. PICK u : g = [f EXCEPT ![k] = u]
              BY <4>1, Zenon DEF Flipped
          <5>2. QED
              BY <1>7, <5>1
        <4>3. \A i \in 1 .. s : i \in 1 .. synced'[q]
            BY <1>5, <1>7, <3>2, <4>2
        <4>4. \A i \in 1 .. s : \A x : EndsAt(f, i, x) /\ Clear(f, i)
                                         => EndsAt(g, i, x) /\ Clear(g, i)
            BY <1>7, <4>1, FirmFlip
        <4>5. QED
            BY <1>9, <2>2, <4>3, <4>4
      <3>5. QED
          BY <3>3, <3>4
    <2>5. QED
        BY <2>3, <2>4
  <1>12. CASE UNCHANGED vars
    <2>1. file' = file /\ synced' = synced /\ UNCHANGED told
        BY <1>12, Zenon DEF vars, disk
    <2>2. Owed(q)' = Owed(q)
        BY <2>1, OwedSame
    <2>3. QED
        BY <1>2, <2>1, <2>2, Zenon DEF Firm
  <1>13. QED
      BY <1>10, <1>11, <1>12, NextSplit

LEMMA NextRefused ==
    ASSUME NEW D, Base(D), RefusedInv, [Next]_vars
    PROVE  RefusedInv'
  <1>1. CASE LoadRefuses
    <2>1. file' = file /\ Loading /\ Replay(file[Min(todo)]).corrupt
        BY <1>1, Zenon DEF LoadRefuses, disk
    <2>2. ServerType
        BY BaseFacts
    <2>3. PICK a \in Name : Replay(file[a]).corrupt
        BY <2>1, <2>2, NextName
    <2>4. QED
        BY <2>1, <2>3 DEF RefusedInv
  <1>2. CASE ~LoadRefuses
    <2> SUFFICES ASSUME proc' = "refused" PROVE file' = file /\ proc = "refused"
        BY DEF RefusedInv
    <2>1. CASE ServerStep
        BY <1>2, <2>1 DEF ServerStep, Kill, Killed, StartServer, Boot, LoadSkips, LoadOpens,
           LoadFails, Serving, Terminate, CloseManager, CreateStep, CreateOpens, CreateSyncsDir,
           CreateWritesMeta, CreateSyncs, CreateFails, CreateRefused, CreateBegins, Enqueue,
           Confirm, At, Alive, Loading
    <2>2. CASE PowerCut
        BY <2>2 DEF PowerCut
    <2>3. CASE UNCHANGED vars
        BY <2>3, Zenon DEF vars, disk, server
    <2>4. QED
        BY <2>1, <2>2, <2>3, NextSplit
  <1>3. QED
      BY <1>1, <1>2

\* When the server refuses to start there is a log that Replay calls corrupt, and
\* everything a client was told of, in whichever queue, is in front of the damage:
\* what an interrupted create or enqueue leaves can keep the server down, as far
\* as a power cut may damage pages that were not fsynced, and cutting the logs at
\* the damage loses nothing of it.  As for what is served, fsync of a queue's
\* directory has to commit that directory's own entry, or the power to stay on.
THEOREM RefusalsAreRepairable ==
    ASSUME ParentsFollow \/ ~PowerCuts
    PROVE  Spec => []RefusalRepairable
  <1>1. Init => RefusalInv
    <2> SUFFICES ASSUME Init PROVE RefusalInv
        OBVIOUS
    <2>1. Base(Nothing)
        BY InitBase
    <2>2. RefusedInv
        BY DEF Init, RefusedInv
    <2>3. \A q \in Name : Firm(q)
        BY DEF Init, Firm, Owed
    <2>4. QED
        BY <2>1, <2>2, <2>3 DEF RefusalInv
  <1>2. RefusalInv /\ [Next]_vars => RefusalInv'
    <2> SUFFICES ASSUME RefusalInv, [Next]_vars PROVE RefusalInv'
        OBVIOUS
    <2>1. Base(Nothing) /\ Base(Nothing)' /\ RefusedInv
        BY NextServed DEF RefusalInv
    <2>2. RefusedInv'
        BY <2>1, NextRefused
    <2>3. \A q \in Name : Firm(q)'
        BY NextFirm
    <2>4. QED
        BY <2>1, <2>2, <2>3, Zenon DEF RefusalInv
  <1>3. RefusalInv => RefusalRepairable
    <2> SUFFICES ASSUME RefusalInv, proc = "refused"
                 PROVE  /\ \E q \in Name : Replay(file[q]).corrupt
                        /\ \A q \in created : {Meta} \cup confirmed[q] \subseteq Records(file[q])
        BY DEF RefusalRepairable
    <2>1. \E q \in Name : Replay(file[q]).corrupt
        BY DEF RefusalInv, RefusedInv
    <2>2. ASSUME NEW q \in created, NEW x \in {Meta} \cup confirmed[q]
          PROVE  x \in Records(file[q])
      <3>1. PICK D : Base(D)
          BY DEF RefusalInv
      <3>2. DiskType /\ ToldType /\ \A z \in Name : Kept(z)
          BY <3>1, BaseFacts
      <3>3. q \in Name /\ x \in Owed(q)
          BY <2>2, <3>2 DEF ToldType, Owed
      <3>4. PICK i \in 1 .. synced[q] : EndsAt(file[q], i, x) /\ Clear(file[q], i)
          BY <3>3, Zenon DEF RefusalInv, Firm
      <3>5. PICK f : f = file[q]
          OBVIOUS
      <3>6. f \in Seq(Unit) /\ Shaped(f) /\ i \in 1 .. Len(f)
          BY <3>2, <3>3, <3>5 DEF DiskType, Kept
      <3>7. QED
          BY <3>4, <3>5, <3>6, FrontRecords
    <2>3. QED
        BY <2>1, <2>2
  <1>4. QED
      BY <1>1, <1>2, <1>3, PTL DEF Spec

-----------------------------------------------------------------------------
\* Supervisor.running may say that a dead child runs, never that a live one
\* does not: only the goroutine that waited for the child clears it.
RunningInv == Alive => running

LEMMA InitRunning == OpInit => RunningInv
  BY DEF OpInit, RunningInv

\* A child comes to life only in Start, which sets running.
LEMMA NextRunning == RunningInv /\ [OpNext]_opvars => RunningInv'
  <1> SUFFICES ASSUME RunningInv, [OpNext]_opvars PROVE RunningInv'
      OBVIOUS
  <1>1. CASE UNCHANGED <<proc, running>>
      BY <1>1 DEF RunningInv, Alive
  <1>2. ASSUME ~Alive' PROVE RunningInv'
      BY <1>2 DEF RunningInv
  <1>3. CASE Killed
      BY <1>2, <1>3 DEF Killed, Alive
  <1>4. CASE (\E do \in {"kill", "start"} : Ask(do, 0))
             \/ \E do \in {"midlog", "tail", "repair"}, q \in Name : Ask(do, q)
      BY <1>1, <1>4, Zenon DEF Ask, vars, server
  <1>5. CASE LabStep
    <2>1. CASE LabKills
        BY <1>1, <1>3, <2>1, Zenon DEF LabKills, vars, server
    <2>2. CASE LabKilled \/ LabRefused \/ LabHasNothingToRepair \/ LabStarted \/ LabStartFails
               \/ LabCreated \/ LabEnsured
        BY <1>1, <2>2, Zenon DEF LabKilled, LabRefused, LabHasNothingToRepair, LabStarted,
           LabStartFails, LabCreated, LabEnsured, vars, server
    <2>3. CASE FlipByteMidLog \/ TruncateTailMidRecord
        BY <1>1, <2>3, Zenon DEF FlipByteMidLog, TruncateTailMidRecord, Damage, vars, server
    <2>4. CASE LabRepairs \/ RepairCopies \/ RepairCuts \/ RepairSyncs \/ RepairFails
        BY <1>1, <2>4, Zenon DEF LabRepairs, RepairCopies, RepairCuts, RepairSyncs, RepairFails,
           vars, server
    <2>5. CASE LabStarts
      <3>1. running'
          BY <2>5, Zenon DEF LabStarts
      <3>2. QED
          BY <3>1 DEF RunningInv
    <2>6. CASE LabStartTimesOut
        BY <1>3, <2>6, Zenon DEF LabStartTimesOut
    <2>7. CASE LabCreates
        BY <1>1, <2>7, Zenon DEF LabCreates, CreateRefused, CreateBegins, vars, server
    <2>8. QED
        BY <1>5, <2>1, <2>2, <2>3, <2>4, <2>5, <2>6, <2>7, Zenon DEF LabStep
  <1>6. CASE Reap
    <2>1. ~Alive /\ proc' = proc
        BY <1>6, Zenon DEF Reap, vars, server
    <2>2. QED
        BY <1>2, <2>1 DEF Alive
  <1>7. CASE Boot /\ UNCHANGED running
    <2>1. Alive
        BY <1>7, Zenon DEF Boot, LoadRefuses, LoadSkips, LoadOpens, LoadFails, Serving,
           Loading, Alive
    <2>2. QED
        BY <1>7, <2>1 DEF RunningInv
  <1>8. CASE (CreateStep \/ \E q \in Name : Enqueue(q) \/ Confirm(q)) /\ UNCHANGED running
      BY <1>1, <1>8, Zenon DEF CreateStep, CreateOpens, CreateSyncsDir, CreateWritesMeta,
         CreateSyncs, CreateFails, Enqueue, Confirm
  <1>9. CASE UNCHANGED opvars
      BY <1>1, <1>9, Zenon DEF opvars, vars, server
  <1>10. QED
      BY <1>3, <1>4, <1>5, <1>6, <1>7, <1>8, <1>9, Zenon DEF OpNext, Kill

(***************************************************************************)
(* The server under the operator's hands: what repair has cut off is the   *)
(* only thing it may owe.                                                  *)
(***************************************************************************)
LEMMA ConcatFacts ==
    ASSUME NEW S, NEW f \in Seq(S), NEW e \in Seq(S), NEW j \in 1 .. Len(e)
    PROVE  (f \o e)[Len(f) + j] = e[j]
  <1>1. Len(f) \in Nat /\ Len(e) \in Nat
      OBVIOUS
  <1>2. Len(f) + j \in 1 .. Len(f) + Len(e) /\ Len(f) + j > Len(f) /\ Len(f) + j - Len(f) = j
      BY <1>1
  <1>3. (f \o e)[Len(f) + j] = e[Len(f) + j - Len(f)]
      BY <1>1, <1>2
  <1>4. QED
      BY <1>2, <1>3

LEMMA FragmentLog ==
    ASSUME NEW f \in Seq(Unit), NEW g, g = f \o SubSeq(Encode(Fragment), 1, HeaderSize + 1)
    PROVE  /\ g \in Seq(Unit) /\ Len(f) <= Len(g) /\ Agrees(f, g, Len(f))
           /\ (Shaped(f) => Shaped(g)) /\ (Sound(f) => Straight(g) /\ Unhurt(g))
  <1>0. Len(f) \in Nat /\ Size(Fragment) = 14
      BY SizeFacts
  <1>1. /\ Encode(Fragment) \in Seq(Unit) /\ Len(Encode(Fragment)) = 14
        /\ \A j \in 1 .. 14 : Encode(Fragment)[j] = [rec |-> Fragment, part |-> j, bad |-> FALSE]
      BY <1>0, EncodeUnits
  <1>2. PICK e : e = SubSeq(Encode(Fragment), 1, 3)
      OBVIOUS
  <1>3. e \in Seq(Unit) /\ Len(e) = 3 /\ \A j \in 1 .. 3 : e[j] = Encode(Fragment)[j]
    <2>1. Encode(Fragment) \in Seq(Unit) /\ 3 \in 0 .. Len(Encode(Fragment))
        BY <1>1
    <2>2. QED
        BY <1>2, <2>1, CutFacts
  <1>4. ASSUME NEW j \in 1 .. 3 PROVE e[j].rec = Fragment /\ e[j].part = j /\ ~e[j].bad
    <2>1. j \in 1 .. 14
        OBVIOUS
    <2>2. e[j] = [rec |-> Fragment, part |-> j, bad |-> FALSE]
        BY <1>1, <1>3, <2>1
    <2>3. QED
        BY <2>2
  <1>5. g = f \o e
      BY <1>2 DEF HeaderSize
  <1>6. g \in Seq(Unit) /\ Len(g) = Len(f) + 3
    <2>1. e \in Seq(Unit) /\ Len(e) = 3
        BY <1>3
    <2>2. \A x, y \in Seq(Unit) : x \o y \in Seq(Unit) /\ Len(x \o y) = Len(x) + Len(y)
        OBVIOUS
    <2>3. QED
        BY <1>5, <2>1, <2>2, Zenon
  <1>7. PICK n \in Nat : n = Len(f)
      BY <1>0
  <1>8. ASSUME NEW i \in 1 .. n PROVE g[i] = f[i]
    <2>1. e \in Seq(Unit) /\ i \in 1 .. Len(f)
        BY <1>3, <1>7
    <2>2. QED
        BY <1>5, <2>1
  <1>9. ASSUME NEW j \in 1 .. 3 PROVE g[n + j] = e[j]
    <2>1. e \in Seq(Unit) /\ Len(e) = 3
        BY <1>3
    <2>2. j \in 1 .. Len(e)
        BY <2>1
    <2>3. (f \o e)[Len(f) + j] = e[j]
      <3>1. PICK h \in Seq(Unit) : h = e /\ j \in 1 .. Len(h)
          BY <2>1, <2>2
      <3>2. (f \o h)[Len(f) + j] = h[j]
          BY <3>1, ConcatFacts
      <3>3. QED
          BY <3>1, <3>2, Zenon
    <2>4. QED
        BY <1>5, <1>7, <2>3, Zenon
  <1>10. Agrees(f, g, Len(f))
      BY <1>7, <1>8 DEF Agrees
  <1>11. ASSUME NEW i \in n + 1 .. Len(g)
         PROVE  g[i].rec = Fragment /\ g[i].part = i - n /\ i - n \in 1 .. 3 /\ ~g[i].bad
    <2>1. PICK j \in 1 .. 3 : i = n + j
      <3>1. i - n \in 1 .. 3 /\ i = n + (i - n)
          BY <1>6, <1>7
      <3>2. QED
          BY <3>1
    <2>2. i - n = j
        BY <2>1
    <2>3. QED
        BY <1>4, <1>9, <2>1, <2>2
  <1>12. ASSUME NEW b, Whole(f, b) PROVE Whole(g, b) /\ b \in Nat /\ b <= n
    <2>1. b \in Nat /\ b <= n
        BY <1>0, <1>7, <1>12 DEF Whole
    <2>2. b <= Len(g) /\ \A i \in 1 .. b : i \in 1 .. n
        BY <1>0, <1>6, <1>7, <2>1
    <2>3. Agrees(f, g, b)
        BY <1>8, <2>2 DEF Agrees
    <2>4. QED
        BY <1>6, <1>12, <2>1, <2>2, <2>3, WholeAgrees
  <1>13. ASSUME Shaped(f) PROVE Shaped(g)
    <2>1. PICK b : Whole(f, b) /\ Loose(f, b)
        BY <1>13 DEF Shaped
    <2>2. Whole(g, b) /\ b \in Nat /\ b <= n
        BY <1>12, <2>1
    <2>3. ASSUME NEW i \in b + 1 .. Len(g) PROVE g[i].part < Size(g[i].rec)
      <3>1. CASE i <= n
        <4>1. i \in b + 1 .. Len(f) /\ i \in 1 .. n
            BY <1>7, <2>2, <3>1
        <4>2. f[i].part < Size(f[i].rec)
            BY <2>1, <4>1, Zenon DEF Loose
        <4>3. QED
            BY <1>8, <4>1, <4>2
      <3>2. CASE ~(i <= n)
        <4>1. i \in n + 1 .. Len(g)
            BY <1>6, <2>2, <3>2
        <4>2. g[i].rec = Fragment /\ g[i].part = i - n /\ i - n \in 1 .. 3
            BY <1>11, <4>1
        <4>3. i - n < 14
            BY <4>2
        <4>4. QED
            BY <1>0, <4>2, <4>3, Zenon
      <3>3. QED
          BY <3>1, <3>2
    <2>4. QED
        BY <2>2, <2>3, Zenon DEF Shaped, Loose
  <1>14. ASSUME Sound(f) PROVE Straight(g) /\ Unhurt(g)
    <2>1. Whole(g, n)
        BY <1>7, <1>12, <1>14 DEF Sound
    <2>2. Simple(g, n)
      <3>1. ASSUME NEW i \in n + 1 .. Len(g)
            PROVE  g[i].rec = g[n + 1].rec /\ g[i].part = i - n /\ i - n < Size(g[n + 1].rec)
        <4>1. n + 1 \in n + 1 .. Len(g)
            BY <1>6, <1>7
        <4>2. g[n + 1].rec = Fragment /\ g[i].rec = Fragment /\ g[i].part = i - n /\ i - n \in 1 .. 3
            BY <1>11, <4>1
        <4>3. Size(g[n + 1].rec) = 14 /\ g[i].rec = g[n + 1].rec
            BY <1>0, <4>2, Zenon
        <4>4. i - n < 14
            BY <4>2
        <4>5. QED
            BY <4>2, <4>3, <4>4, Zenon
      <3>2. QED
          BY <3>1, Zenon DEF Simple
    <2>3. ASSUME NEW i \in 1 .. Len(g) PROVE ~g[i].bad
      <3>1. CASE i <= n
        <4>1. i \in 1 .. n /\ i \in 1 .. Len(f)
            BY <1>7, <3>1
        <4>2. QED
            BY <1>8, <1>14, <4>1 DEF Sound, Unhurt
      <3>2. CASE ~(i <= n)
        <4>1. i \in n + 1 .. Len(g)
            BY <1>6, <1>7, <3>2
        <4>2. QED
            BY <1>11, <4>1
      <3>3. QED
          BY <3>1, <3>2
    <2>4. QED
        BY <2>1, <2>2, <2>3, Zenon DEF Straight, Unhurt
  <1>15. Len(f) <= Len(g)
      BY <1>0, <1>6
  <1>16. QED
      BY <1>6, <1>10, <1>13, <1>14, <1>15

\* What is owed of a queue is among X or ends in the first n units of f.
Covered(a, X, f, n) == \A x \in Owed(a) : x \in X \/ \E i \in 1 .. n : EndsAt(f, i, x)

\* Somebody changes the log of a server that is not there, and answers for what
\* that takes away.
LEMMA OfflineBase ==
    ASSUME NEW D, Base(D), ~Alive, NEW a \in Name, NEW g \in Seq(Unit), Shaped(g),
           NEW s \in Nat, s <= Len(g), dirent[a] # "none", NEW E,
           file' = [file EXCEPT ![a] = g], synced' = [synced EXCEPT ![a] = s],
           dirent' = dirent, UNCHANGED <<server, told>>,
           \A z \in Name : D[z] \subseteq E[z],
           Covered(a, E[a], g, s)
    PROVE  /\ Base(E)' /\ file'[a] = g /\ synced'[a] = s /\ \A z \in Name : z # a => file'[z] = file[z]
  <1>1. /\ DiskType /\ ServerType /\ ToldType /\ ModesInv
        /\ \A q \in Name : Owing(D, q) /\ Kept(q) /\ Made(q) /\ Usable(q)
      BY BaseFacts
  <1>2. Base(E)
    <2>1. ASSUME NEW q \in Name PROVE Owing(E, q)
      <3>1. D[q] \subseteq E[q] /\ Owing(D, q)
          BY <1>1
      <3>2. QED
          BY <3>1, Zenon DEF Owing
    <2>2. QED
        BY <1>1, <2>1, Zenon DEF Base, Types, QueueInv
  <1>3. /\ proc' = proc /\ todo' = todo /\ queues' = queues /\ creating' = creating
        /\ waiting' = waiting /\ botched' = botched /\ UNCHANGED told
      BY Zenon DEF server
  <1>4. todo = {} /\ queues = {} /\ creating = NoCreate /\ waiting = {}
      BY <1>1, Zenon DEF ModesInv
  <1>5. /\ Len(g) \in Nat /\ s \in Nat /\ s <= Len(g)
        /\ file \in [Name -> Seq(Unit)] /\ synced \in [Name -> Nat]
      BY <1>1 DEF DiskType
  <1>6. file' \in [Name -> Seq(Unit)] /\ file'[a] = g /\ \A z \in Name : z # a => file'[z] = file[z]
      BY <1>5
  <1>7. /\ synced' \in [Name -> Nat] /\ synced'[a] = s
        /\ \A z \in Name : z # a => synced'[z] = synced[z]
      BY <1>5
  <1>8. DiskType'
    <2>1. ASSUME NEW z \in Name PROVE synced'[z] <= Len(file'[z])
      <3>1. CASE z = a
          BY <1>5, <1>6, <1>7, <3>1
      <3>2. CASE z # a
          BY <1>1, <1>6, <1>7, <3>2 DEF DiskType
      <3>3. QED
          BY <3>1, <3>2
    <2>2. QED
        BY <1>1, <1>6, <1>7, <2>1 DEF DiskType
  <1>9. ServerType'
      BY <1>1, <1>3, Zenon DEF ServerType
  <1>10. ToldType' /\ \A z : Owed(z)' = Owed(z)
      BY <1>1, <1>3, OwedSame DEF ToldType, told
  <1>11. ModesInv'
      BY <1>1, <1>3, Zenon DEF ModesInv, Alive
  <1>12. ~Alive' /\ \A z : ~PassedOver(z)'
      BY <1>3 DEF PassedOver, Alive
  <1>13. StepOf(a)' = "none"
    <2>1. a # 0
        BY NameFacts
    <2>2. QED
        BY <1>3, <1>4, <2>1 DEF StepOf, NoCreate
  <1>14. Owing(E, a)'
    <2>1. Owing(E, a)
        BY <1>2, BaseFacts
    <2>2. QED
        BY <1>6, <1>7, <1>10, <1>12, <2>1, Zenon DEF Owing, Covered
  <1>15. Kept(a)'
      BY <1>3, <1>4, <1>6 DEF Kept
  <1>16. Made(a)'
      BY <1>13 DEF Made
  <1>17. Usable(a)'
      BY <1>12, Zenon DEF Usable
  <1>18. ASSUME NEW z \in Name, z # a
         PROVE  /\ file'[z] = file[z] /\ synced'[z] = synced[z] /\ dirent'[z] = dirent[z]
                /\ last'[z] = last[z] /\ confirmed'[z] = confirmed[z]
                /\ (z \in created' <=> z \in created)
                /\ (z \in queues' => z \in queues) /\ (z \in waiting' => z \in waiting)
                /\ StepOf(z)' = StepOf(z) /\ (PassedOver(z)' => PassedOver(z))
                /\ (z \in botched => z \in botched')
    <2>1. last' = last /\ confirmed' = confirmed /\ created' = created
        BY <1>3, Zenon DEF told
    <2>2. StepOf(z)' = StepOf(z)
        BY <1>3, Zenon DEF StepOf
    <2>3. QED
        BY <1>3, <1>6, <1>7, <1>12, <1>18, <2>1, <2>2
  <1>19. Base(E)'
      BY <1>2, <1>8, <1>9, <1>10, <1>11, <1>14, <1>15, <1>16, <1>17, <1>18, OneQueue, Zenon
  <1>20. QED
      BY <1>6, <1>7, <1>19

\* The request that is handled: EnsureQueues and the lab name only queues.
LabInv ==
    /\ lab \in [do : {"none", "kill", "start", "midlog", "tail", "repair"},
                q : Name \cup {0}, clean : BOOLEAN, left : SUBSET Name,
                at : {"idle", "kill", "reap", "act", "copy", "cut", "sync",
                      "start", "wait", "ensure", "create"}]
    /\ lab.do \in {"midlog", "tail", "repair"} => lab.q \in Name
    /\ lab.at \in {"copy", "cut", "sync"} => lab.do = "repair"

LEMMA GotoLab ==
    ASSUME LabInv, NEW at \in {"idle", "kill", "reap", "act", "copy", "cut", "sync",
                               "start", "wait", "ensure", "create"},
           at \in {"copy", "cut", "sync"} => lab.do = "repair", Goto(at)
    PROVE  /\ LabInv' /\ lab'.at = at /\ lab'.do = lab.do /\ lab'.q = lab.q
           /\ lab'.clean = lab.clean
  BY DEF LabInv, Goto

LEMMA DoneLab ==
    ASSUME Done
    PROVE  LabInv' /\ lab'.at = "idle"
  BY DEF Done, Idle, LabInv

\* Where each step of the lab takes the request.
LEMMA LabMoves ==
    ASSUME LabInv, LabStep
    PROVE  /\ LabInv'
           /\ lab'.at \in {"start", "wait"} /\ lab'.do \in {"midlog", "tail"} =>
                \/ FlipByteMidLog \/ TruncateTailMidRecord
                \/ /\ lab.at = "start" /\ lab'.at = "wait" /\ ~running /\ StartServer
                   /\ lab'.do = lab.do /\ lab'.q = lab.q /\ lab'.clean = lab.clean
           /\ lab'.at \in {"copy", "cut", "sync"} => LabRepairs \/ RepairCopies \/ RepairCuts
  <1>1. ASSUME NEW at \in {"reap", "act", "ensure", "create"}, Goto(at)
        PROVE  LabInv' /\ lab'.at \notin {"start", "wait", "copy", "cut", "sync"}
    <2>1. at \in {"idle", "kill", "reap", "act", "start", "wait", "ensure", "create"}
        BY <1>1
    <2>2. LabInv' /\ lab'.at = at
        BY <1>1, <2>1, GotoLab
    <2>3. QED
        BY <2>2
  <1>2. ASSUME Done PROVE LabInv' /\ lab'.at \notin {"start", "wait", "copy", "cut", "sync"}
      BY <1>2, DoneLab
  <1>3. ASSUME Started PROVE LabInv' /\ lab'.at \notin {"start", "wait", "copy", "cut", "sync"}
      BY <1>3 DEF Started, LabInv
  <1>4. CASE LabKills
    <2>1. Goto("reap")
        BY <1>4, Zenon DEF LabKills
    <2>2. QED
        BY <1>1, <2>1
  <1>5. CASE LabKilled
    <2>1. Done \/ Goto("act")
        BY <1>5, Zenon DEF LabKilled
    <2>2. QED
        BY <1>1, <1>2, <2>1
  <1>6. CASE LabRefused \/ LabHasNothingToRepair \/ RepairFails \/ LabStartFails \/ LabEnsured
    <2>1. Done
        BY <1>6, Zenon DEF LabRefused, LabHasNothingToRepair, RepairFails, LabStartFails,
           LabEnsured
    <2>2. QED
        BY <1>2, <2>1
  <1>7. CASE FlipByteMidLog \/ TruncateTailMidRecord
    <2>1. Done \/ lab' = [lab EXCEPT !.at = "start", !.clean = AllClean]
        BY <1>7, Zenon DEF FlipByteMidLog, TruncateTailMidRecord, Damage
    <2>2. ASSUME lab' = [lab EXCEPT !.at = "start", !.clean = AllClean] PROVE LabInv' /\ lab'.at = "start"
      <3>1. AllClean \in BOOLEAN
          BY Zenon DEF AllClean
      <3>2. PICK c \in BOOLEAN : lab' = [lab EXCEPT !.at = "start", !.clean = c]
          BY <2>2, <3>1, Zenon
      <3>3. QED
          BY <3>2 DEF LabInv
    <2>3. QED
        BY <1>2, <1>7, <2>1, <2>2
  <1>8. CASE LabRepairs \/ RepairCopies \/ RepairCuts \/ RepairSyncs
    <2>1. PICK at \in {"copy", "cut", "sync", "start"} :
             /\ Goto(at)
             /\ at \in {"copy", "cut", "sync"} => LabRepairs \/ RepairCopies \/ RepairCuts
        BY <1>8, Zenon DEF LabRepairs, RepairCopies, RepairCuts, RepairSyncs
    <2>2. lab.do = "repair"
      <3>1. lab.do = "repair" \/ lab.at \in {"copy", "cut", "sync"}
          BY <1>8, Zenon DEF LabRepairs, RepairCopies, RepairCuts, RepairSyncs
      <3>2. QED
          BY <3>1 DEF LabInv
    <2>3. at \in {"idle", "kill", "reap", "act", "copy", "cut", "sync",
                  "start", "wait", "ensure", "create"}
        BY <2>1
    <2>4. LabInv' /\ lab'.at = at /\ lab'.do = "repair"
        BY <2>1, <2>2, <2>3, GotoLab
    <2>5. QED
        BY <2>1, <2>4
  <1>9. CASE LabStarts
    <2>1. CASE running
      <3>1. Started
          BY <1>9, <2>1, Zenon DEF LabStarts
      <3>2. QED
          BY <1>3, <3>1
    <2>2. CASE ~running
      <3>1. StartServer /\ Goto("wait") /\ lab.at = "start"
          BY <1>9, <2>2, Zenon DEF LabStarts
      <3>2. /\ LabInv' /\ lab'.at = "wait" /\ lab'.do = lab.do /\ lab'.q = lab.q
            /\ lab'.clean = lab.clean
          BY <3>1, GotoLab
      <3>3. QED
          BY <2>2, <3>1, <3>2
    <2>3. QED
        BY <2>1, <2>2
  <1>10. CASE LabStarted
    <2>1. Started
        BY <1>10, Zenon DEF LabStarted
    <2>2. QED
        BY <1>3, <2>1
  <1>11. CASE LabStartTimesOut
    <2>1. lab' = [lab EXCEPT !.at = "reap", !.do = "start"]
        BY <1>11, Zenon DEF LabStartTimesOut
    <2>2. LabInv' /\ lab'.at = "reap"
        BY <2>1 DEF LabInv
    <2>3. QED
        BY <2>2
  <1>12. CASE LabCreates
    <2>1. Goto("create")
        BY <1>12, Zenon DEF LabCreates
    <2>2. QED
        BY <1>1, <2>1
  <1>13. CASE LabCreated
    <2>1. Done \/ lab' = [lab EXCEPT !.at = "ensure", !.left = lab.left \ {Min(lab.left)}]
        BY <1>13, Zenon DEF LabCreated
    <2>2. PICK m : m = Min(lab.left)
        OBVIOUS
    <2>3. ASSUME lab' = [lab EXCEPT !.at = "ensure", !.left = lab.left \ {m}]
          PROVE  LabInv' /\ lab'.at = "ensure"
        BY <2>3 DEF LabInv
    <2>4. QED
        BY <1>2, <2>1, <2>2, <2>3
  <1>14. QED
      BY <1>4, <1>5, <1>6, <1>7, <1>8, <1>9, <1>10, <1>11, <1>12, <1>13, Zenon DEF LabStep

LEMMA AskLab ==
    ASSUME LabInv, \/ \E do \in {"kill", "start"} : Ask(do, 0)
                   \/ \E do \in {"midlog", "tail", "repair"}, q \in Name : Ask(do, q)
    PROVE  /\ LabInv' /\ lab'.at \notin {"copy", "cut", "sync"}
           /\ ~(lab'.at \in {"start", "wait"} /\ lab'.do \in {"midlog", "tail"})
  <1>1. ASSUME NEW do \in {"kill", "start", "midlog", "tail", "repair"}, NEW q \in Name \cup {0},
               do \in {"midlog", "tail", "repair"} => q \in Name, Ask(do, q)
        PROVE  /\ LabInv' /\ lab'.at \notin {"copy", "cut", "sync"}
               /\ ~(lab'.at \in {"start", "wait"} /\ lab'.do \in {"midlog", "tail"})
    <2>1. PICK at : at = CASE do = "kill" -> "kill"
                           [] do = "start" -> "start"
                           [] OTHER -> IF running THEN "kill" ELSE "act"
        OBVIOUS
    <2>2. at \in {"kill", "start", "act"} /\ (do \in {"midlog", "tail"} => at # "start")
        BY <1>1, <2>1
    <2>3. lab' = [Idle EXCEPT !.do = do, !.q = q, !.at = at]
        BY <1>1, <2>1, Zenon DEF Ask
    <2>4. lab' = [do |-> do, q |-> q, at |-> at, clean |-> FALSE, left |-> {}]
        BY <2>3 DEF Idle
    <2>5. QED
        BY <1>1, <2>2, <2>4 DEF LabInv
  <1>2. CASE \E do \in {"kill", "start"} : Ask(do, 0)
      BY <1>1, <1>2
  <1>3. CASE \E do \in {"midlog", "tail", "repair"}, q \in Name : Ask(do, q)
      BY <1>1, <1>3
  <1>4. QED
      BY <1>2, <1>3

LEMMA NextLab == LabInv /\ [OpNext]_opvars => LabInv'
  <1> SUFFICES ASSUME LabInv, [OpNext]_opvars PROVE LabInv'
      OBVIOUS
  <1>1. CASE UNCHANGED lab
      BY <1>1, Zenon DEF LabInv
  <1>2. CASE (\E do \in {"kill", "start"} : Ask(do, 0))
             \/ \E do \in {"midlog", "tail", "repair"}, q \in Name : Ask(do, q)
      BY <1>2, AskLab
  <1>3. CASE LabStep
      BY <1>3, LabMoves
  <1>4. CASE OpNext /\ UNCHANGED lab
      BY <1>1, <1>4
  <1>5. QED
    <2>1. \/ \E do \in {"kill", "start"} : Ask(do, 0)
          \/ \E do \in {"midlog", "tail", "repair"}, q \in Name : Ask(do, q)
          \/ LabStep \/ UNCHANGED lab
        BY Zenon DEF OpNext, Reap, opvars
    <2>2. QED
        BY <1>1, <1>2, <1>3, <2>1

-----------------------------------------------------------------------------
\* What a step of the whole system is to the server and its logs.
LEMMA OpSplit ==
    ASSUME LabInv, [OpNext]_opvars
    PROVE  \/ UNCHANGED vars /\ UNCHANGED dropped
           \/ ServerStep /\ UNCHANGED dropped
           \/ (FlipByteMidLog \/ TruncateTailMidRecord) /\ UNCHANGED dropped
           \/ RepairCuts \/ RepairSyncs
  <1>1. CASE (\E do \in {"kill", "start"} : Ask(do, 0))
             \/ \E do \in {"midlog", "tail", "repair"}, q \in Name : Ask(do, q)
      BY <1>1, Zenon DEF Ask
  <1>2. CASE LabStep
    <2>1. CASE LabKills \/ LabStarts \/ LabStartTimesOut
        BY <2>1, Zenon DEF LabKills, LabStarts, LabStartTimesOut, ServerStep, Kill
    <2>2. CASE LabCreates
      <3>1. \/ UNCHANGED vars /\ UNCHANGED dropped
            \/ /\ CreateRefused(Min(lab.left)) \/ CreateBegins(Min(lab.left))
               /\ UNCHANGED dropped /\ lab.left # {}
          BY <2>2, Zenon DEF LabCreates
      <3>2. lab.left \subseteq Nat /\ lab.left \subseteq Name
          BY NameFacts DEF LabInv
      <3>3. lab.left # {} => Min(lab.left) \in Name
          BY <3>2, MinFacts
      <3>4. QED
          BY <3>1, <3>3, Zenon DEF ServerStep
    <2>3. CASE FlipByteMidLog \/ TruncateTailMidRecord
        BY <2>3, Zenon DEF FlipByteMidLog, TruncateTailMidRecord, Damage
    <2>4. CASE \/ LabKilled \/ LabRefused \/ LabHasNothingToRepair \/ LabStarted
               \/ LabStartFails \/ LabCreated \/ LabEnsured
               \/ LabRepairs \/ RepairCopies \/ RepairFails
        BY <2>4, Zenon DEF LabKilled, LabRefused, LabHasNothingToRepair, LabStarted,
           LabStartFails, LabCreated, LabEnsured, LabRepairs, RepairCopies, RepairFails
    <2>5. QED
        BY <1>2, <2>1, <2>2, <2>3, <2>4, Zenon DEF LabStep
  <1>3. CASE Reap
      BY <1>3, Zenon DEF Reap
  <1>4. CASE /\ Boot \/ CreateStep \/ Kill \/ \E q \in Name : Enqueue(q) \/ Confirm(q)
             /\ UNCHANGED <<running, lab, backup, dropped, damage>>
      BY <1>4, Zenon DEF ServerStep
  <1>5. CASE UNCHANGED opvars
      BY <1>5, Zenon DEF opvars
  <1>6. QED
      BY <1>1, <1>2, <1>3, <1>4, <1>5, Zenon DEF OpNext

\* The damage done, written out.
LEMMA DamageIs ==
    ASSUME LabInv, NEW g, Damage(g)
    PROVE  /\ file' = [file EXCEPT ![lab.q] = g] /\ synced' = [synced EXCEPT ![lab.q] = Len(g)]
           /\ dirent' = dirent /\ UNCHANGED <<server, told>> /\ running' = running
           /\ lab'.do = lab.do /\ lab'.q = lab.q /\ lab'.at = "start" /\ (lab'.clean => AllClean)
  <1>1. file' = [file EXCEPT ![lab.q] = g]
      BY Zenon DEF Damage
  <1>2. synced' = [synced EXCEPT ![lab.q] = Len(g)]
      BY Zenon DEF Damage
  <1>3. dirent' = dirent /\ UNCHANGED <<server, told>> /\ running' = running
      BY Zenon DEF Damage
  <1>4. lab' = [lab EXCEPT !.at = "start", !.clean = AllClean]
      BY Zenon DEF Damage
  <1>5. PICK c \in BOOLEAN : c = AllClean
      BY Zenon DEF AllClean
  <1>6. lab' = [lab EXCEPT !.at = "start", !.clean = c]
      BY <1>4, <1>5, Zenon
  <1>7. lab'.do = lab.do /\ lab'.q = lab.q /\ lab'.at = "start" /\ lab'.clean = c
      BY <1>6 DEF LabInv
  <1>8. lab'.clean => AllClean
      BY <1>5, <1>7
  <1>9. QED
      BY <1>1, <1>2, <1>3, <1>7, <1>8, Zenon

\* The damage the lab does, on a log that is as the server left it.
LEMMA DamageFacts ==
    ASSUME NEW D, Base(D), LabInv, RunningInv, FlipByteMidLog \/ TruncateTailMidRecord,
           ~UNCHANGED vars \/ lab'.at = "start"
    PROVE  \E g \in Seq(Unit) :
             /\ lab.q \in Name /\ ~Alive /\ ~running /\ dirent[lab.q] # "none"
             /\ file' = [file EXCEPT ![lab.q] = g] /\ synced' = [synced EXCEPT ![lab.q] = Len(g)]
             /\ dirent' = dirent /\ UNCHANGED <<server, told>> /\ running' = running
             /\ Len(file[lab.q]) <= Len(g) /\ Agrees(file[lab.q], g, Len(file[lab.q])) /\ Shaped(g)
             /\ lab'.do = lab.do /\ lab'.q = lab.q /\ lab'.at = "start" /\ (lab'.clean => AllClean)
             /\ lab.do = "midlog" /\ Sound(file[lab.q]) => Replay(g).corrupt
             /\ lab.do = "tail" /\ Sound(file[lab.q]) => Straight(g) /\ Unhurt(g)
             /\ lab.do \in {"midlog", "tail"}
  <1>1. DiskType /\ \A q \in Name : Kept(q)
      BY BaseFacts
  <1>2. ~running /\ lab.at = "act" /\ lab.do \in {"midlog", "tail"}
      BY DEF FlipByteMidLog, TruncateTailMidRecord
  <1>3. ~Alive
      BY <1>2 DEF RunningInv
  <1>4. PICK a \in Name : a = lab.q
      BY <1>2 DEF LabInv
  <1>5. PICK f : f = file[a]
      OBVIOUS
  <1>6. f \in Seq(Unit) /\ Shaped(f) /\ (dirent[a] = "none" => f = <<>>) /\ Len(f) \in Nat
      BY <1>1, <1>5 DEF DiskType, Kept
  <1>7. ~(Done /\ UNCHANGED <<vars, running, backup, dropped, damage>>)
    <2> SUFFICES ASSUME Done, UNCHANGED vars PROVE FALSE
        BY Zenon
    <2>1. lab'.at = "idle"
        BY DoneLab
    <2>2. QED
        BY <2>1
  <1>8. ASSUME NEW g, Damage(g)
        PROVE  /\ file' = [file EXCEPT ![lab.q] = g] /\ synced' = [synced EXCEPT ![lab.q] = Len(g)]
               /\ dirent' = dirent /\ UNCHANGED <<server, told>> /\ running' = running
               /\ lab'.do = lab.do /\ lab'.q = lab.q /\ lab'.at = "start" /\ (lab'.clean => AllClean)
    BY <1>8, DamageIs, Zenon
  <1>9. CASE FlipByteMidLog
    <2>1. /\ lab.do = "midlog" /\ Len(f) >= HeaderSize + PayloadLen(Meta)
          /\ \E mid \in HeaderSize + 1 .. Len(f) : Damage([f EXCEPT ![mid].bad = ~@])
        BY <1>4, <1>5, <1>7, <1>9, Zenon DEF FlipByteMidLog
    <2>2. PICK k \in HeaderSize + 1 .. Len(f) : Damage([f EXCEPT ![k].bad = ~@])
        BY <2>1
    <2>3. k \in 1 .. Len(f) /\ f # <<>>
        BY <1>6 DEF HeaderSize
    <2>4. f[k] \in Unit
        BY <1>6, <2>3
    <2>5. PICK u : u = [f[k] EXCEPT !.bad = ~@]
        OBVIOUS
    <2>6. u \in Unit /\ u.rec = f[k].rec /\ u.part = f[k].part /\ (~f[k].bad => u.bad)
        BY <2>4, <2>5, FlippedUnit
    <2>7. PICK g : g = SetUnit(f, k, u)
        OBVIOUS
    <2>8. Damage(g)
      <3>1. g = [f EXCEPT ![k].bad = ~@]
          BY <2>5, <2>7, Zenon DEF SetUnit
      <3>2. QED
          BY <2>2, <3>1, Zenon
    <2>9. /\ g \in Seq(Unit) /\ Len(g) = Len(f) /\ Agrees(f, g, Len(f)) /\ g[k] = u /\ Shaped(g)
        BY <1>6, <2>3, <2>6, <2>7, FlipShape
    <2>10. ASSUME Sound(f) PROVE Replay(g).corrupt
      <3>1. Whole(f, Len(f)) /\ ~f[k].bad
          BY <2>3, <2>10 DEF Sound, Unhurt
      <3>2. Whole(g, Len(g)) /\ k \in 1 .. Len(g) /\ g[k].bad
        <4>1. Len(f) <= Len(g)
            BY <1>6, <2>9
        <4>2. Whole(g, Len(f))
            BY <1>6, <2>9, <3>1, <4>1, WholeAgrees
        <4>3. QED
            BY <2>3, <2>6, <2>9, <3>1, <4>2
      <3>3. QED
          BY <2>9, <3>2, HurtLog
    <2>11. Len(f) <= Len(g) /\ dirent[a] # "none" /\ lab.do # "tail"
        BY <1>6, <2>1, <2>3, <2>9
    <2>12. QED
        BY <1>2, <1>3, <1>4, <1>5, <1>8, <2>8, <2>9, <2>10, <2>11, Zenon
  <1>10. CASE TruncateTailMidRecord
    <2>1. /\ lab.do = "tail" /\ dirent[a] # "none"
          /\ Damage(f \o SubSeq(Encode(Fragment), 1, HeaderSize + 1))
        BY <1>4, <1>5, <1>7, <1>10, Zenon DEF TruncateTailMidRecord
    <2>2. PICK g : g = f \o SubSeq(Encode(Fragment), 1, HeaderSize + 1)
        OBVIOUS
    <2>3. /\ g \in Seq(Unit) /\ Len(f) <= Len(g) /\ Agrees(f, g, Len(f))
          /\ Shaped(g) /\ (Sound(f) => Straight(g) /\ Unhurt(g))
        BY <1>6, <2>2, FragmentLog
    <2>4. Damage(g) /\ lab.do # "midlog"
        BY <2>1, <2>2
    <2>5. QED
        BY <1>2, <1>3, <1>4, <1>5, <1>8, <2>1, <2>3, <2>4, Zenon
  <1>11. QED
      BY <1>9, <1>10

-----------------------------------------------------------------------------
LEMMA InitOpBase == OpInit => Base(dropped) /\ LabInv
  <1> SUFFICES ASSUME OpInit PROVE Base(dropped) /\ LabInv
      OBVIOUS
  <1>1. /\ \A q \in Name : /\ file[q] = Encode(Meta) /\ synced[q] = 4 /\ dirent[q] = "stable"
                           /\ last[q] = 0 /\ confirmed[q] = {}
        /\ proc = "up" /\ todo = {} /\ queues = Name /\ creating = NoCreate /\ waiting = {}
        /\ created = Name
      BY MetaLog DEF OpInit
  <1>2. DiskType
    <2>1. /\ file \in [Name -> Seq(Unit)] /\ synced \in [Name -> Nat]
          /\ dirent \in [Name -> {"none", "cached", "stable"}]
        BY MetaLog DEF OpInit
    <2>2. \A q \in Name : synced[q] <= Len(file[q])
        BY <1>1, MetaLog
    <2>3. QED
        BY <2>1, <2>2 DEF DiskType
  <1>3. ServerType
      BY <1>1 DEF ServerType, NoCreate
  <1>4. ToldType
      BY ManagerAssumption DEF ToldType, OpInit
  <1>5. ModesInv
      BY <1>1 DEF ModesInv, NoCreate, Alive
  <1>6. ASSUME NEW q \in Name PROVE QueueInv(dropped, q)
    <2>1. Owed(q) = {Meta} /\ ~PassedOver(q)
        BY <1>1 DEF Owed, PassedOver, Alive
    <2>2. StepOf(q) = "none"
      <3>1. q # 0
          BY NameFacts
      <3>2. QED
          BY <1>1, <3>1 DEF StepOf, NoCreate
    <2>3. Owing(dropped, q)
      <3>1. 4 \in 1 .. synced[q] /\ EndsAt(file[q], 4, Meta)
          BY <1>1, MetaLog
      <3>2. dirent[q] # "cached"
          BY <1>1
      <3>3. QED
          BY <2>1, <3>1, <3>2 DEF Owing
    <2>4. Kept(q)
      <3>1. Shaped(Encode(Meta))
          BY MetaLog, WholeStraight, StraightShaped DEF Sound
      <3>2. dirent[q] # "none" /\ dirent[q] = "stable" /\ q \notin waiting
          BY <1>1
      <3>3. Sound(file[q]) /\ Shaped(file[q])
          BY <1>1, <3>1, MetaLog
      <3>4. QED
          BY <3>2, <3>3, Zenon DEF Kept
    <2>5. Made(q) /\ Usable(q)
        BY <2>1, <2>2 DEF Made, Usable
    <2>6. QED
        BY <2>3, <2>4, <2>5 DEF QueueInv
  <1>7. LabInv
    <2>1. lab = Idle
        BY DEF OpInit
    <2>2. QED
        BY <2>1 DEF LabInv, Idle
  <1>8. QED
      BY <1>2, <1>3, <1>4, <1>5, <1>6, <1>7 DEF Base, Types

LEMMA BaseAfter ==
    ASSUME NEW E, E = dropped', Base(E)'
    PROVE  Base(dropped)'
  BY Zenon DEF Base, QueueInv, Owing

\* The offset at which repair cuts is one of some log.
LEMMA OffsetFacts ==
    ASSUME NEW D, Base(D), Failing # {}
    PROVE  parseOffset \in Nat
  <1>1. Failing \subseteq Nat /\ Failing \subseteq Name
      BY NameFacts DEF Failing
  <1>2. PICK m \in Name : m = Min(Failing)
      BY <1>1, MinFacts
  <1>3. DiskType /\ Kept(m)
      BY BaseFacts
  <1>4. PICK f \in Seq(Unit) : f = file[m] /\ Shaped(f)
      BY <1>3 DEF DiskType, Kept
  <1>5. PICK b : Whole(f, b) /\ Loose(f, b)
      BY <1>4 DEF Shaped
  <1>6. Finds(f, b, 0, Replay(f)) /\ b \in Nat
      BY <1>5, ReplayFinds DEF Whole
  <1>7. Replay(f).valid \in 0 .. b
      BY <1>6, Zenon DEF Finds
  <1>8. Replay(f).valid \in Nat
      BY <1>6, <1>7
  <1>9. QED
      BY <1>2, <1>4, <1>8, Zenon DEF parseOffset

\* A repair goes on only while no server runs, and cuts only what it has copied.
RepairInv ==
    /\ lab.at \in {"copy", "cut", "sync"} => ~running
    /\ lab.at \in {"copy", "cut"} => CanRepair
    /\ lab.at = "cut" => Held(file[lab.q]) \subseteq backup[lab.q]

\* What repair has cut off, at whatever offset, it has copied before.
CopyInv ==
    /\ DOMAIN backup = Name /\ DOMAIN dropped = Name
    /\ \A q \in Name : dropped[q] \subseteq backup[q]

LEMMA InitRepair == OpInit => RepairInv /\ CopyInv
  BY DEF OpInit, Idle, RepairInv, CopyInv

\* The steps the server takes by itself while a request is handled.
OwnStep == Boot \/ CreateStep \/ Kill \/ \E q \in Name : Enqueue(q) \/ Confirm(q)

LEMMA OwnAlive ==
    ASSUME OwnStep
    PROVE  Alive
  <1>1. Alive \/ proc = "booting" \/ proc = "up"
      BY Zenon DEF OwnStep, Boot, LoadRefuses, LoadSkips, LoadOpens, LoadFails, Loading, Serving,
         CreateStep, CreateOpens, CreateSyncsDir, CreateWritesMeta, CreateSyncs, CreateFails, At,
         Kill, Killed, Enqueue, Confirm
  <1>2. QED
      BY <1>1 DEF Alive

LEMMA NextRepair == LabInv /\ RunningInv /\ CopyInv /\ RepairInv /\ [OpNext]_opvars => RepairInv'
  <1> SUFFICES ASSUME LabInv, RunningInv, CopyInv, RepairInv, [OpNext]_opvars,
                      lab'.at \in {"copy", "cut", "sync"}
               PROVE  RepairInv'
      BY Zenon DEF RepairInv
  <1>1. ASSUME UNCHANGED <<file, dirent>>, lab'.q = lab.q, CanRepair
        PROVE  CanRepair'
      BY <1>1, Zenon DEF CanRepair, Failing, parseOffset
  <1>2. CASE LabRepairs
    <2>1. ~running /\ running' = running /\ UNCHANGED <<file, dirent>> /\ CanRepair /\ Goto("copy")
        BY <1>2, Zenon DEF LabRepairs, vars, disk
    <2>2. lab'.q = lab.q /\ lab'.at = "copy"
        BY <2>1 DEF Goto, LabInv
    <2>3. QED
        BY <1>1, <2>1, <2>2 DEF RepairInv
  <1>3. CASE RepairCopies
    <2>1. /\ running' = running /\ UNCHANGED <<file, dirent>> /\ Goto("cut") /\ lab.at = "copy"
          /\ backup' = [backup EXCEPT ![lab.q] = @ \cup Held(file[lab.q])]
        BY <1>3, Zenon DEF RepairCopies, vars, disk
    <2>2. lab'.q = lab.q /\ lab'.at = "cut" /\ ~running /\ CanRepair
        BY <2>1 DEF Goto, LabInv, RepairInv
    <2>3. PICK a \in Name : a = lab.q
        BY <2>1 DEF LabInv
    <2>4. PICK H : H = Held(file[a]) /\ backup' = [backup EXCEPT ![a] = @ \cup H]
        BY <2>1, <2>3
    <2>5. H \subseteq backup'[a]
        BY <2>4 DEF CopyInv
    <2>6. Held(file'[lab'.q]) \subseteq backup'[lab'.q]
        BY <2>1, <2>2, <2>3, <2>4, <2>5
    <2>7. QED
        BY <1>1, <2>1, <2>2, <2>6 DEF RepairInv
  <1>4. CASE RepairCuts
    <2>1. running' = running /\ Goto("sync") /\ lab.at = "cut"
        BY <1>4, Zenon DEF RepairCuts
    <2>2. lab'.at = "sync" /\ ~running
        BY <2>1 DEF Goto, LabInv, RepairInv
    <2>3. QED
        BY <2>1, <2>2 DEF RepairInv
  <1>5. CASE UNCHANGED <<vars, lab, backup>> /\ (running' = running \/ running' = FALSE)
    <2>1. UNCHANGED <<file, dirent>> /\ lab' = lab /\ backup' = backup
        BY <1>5, Zenon DEF vars, disk
    <2>2. QED
        BY <1>1, <1>5, <2>1 DEF RepairInv
  <1>6. CASE OwnStep /\ UNCHANGED <<running, lab, backup>>
    <2>1. running
        BY <1>6, OwnAlive DEF RunningInv
    <2>2. QED
        BY <1>6, <2>1 DEF RepairInv
  <1>7. QED
    <2>1. \/ \E do \in {"kill", "start"} : Ask(do, 0)
          \/ \E do \in {"midlog", "tail", "repair"}, q \in Name : Ask(do, q)
          \/ LabStep
          \/ UNCHANGED <<vars, lab, backup>> /\ (running' = running \/ running' = FALSE)
          \/ OwnStep /\ UNCHANGED <<running, lab, backup>>
        BY Zenon DEF OpNext, Reap, opvars, OwnStep
    <2>2. QED
        BY <1>2, <1>3, <1>4, <1>5, <1>6, <2>1, LabMoves, AskLab

\* A record that ends behind the cut is among those that end in the log.
LEMMA HeldEnds ==
    ASSUME NEW f, NEW x
    PROVE  x \in Held(f) <=> x # Fragment /\ \E i \in 1 .. Len(f) : EndsAt(f, i, x)
  BY DEF Held, EndsAt, Size

LEMMA RestFacts ==
    ASSUME NEW f \in Seq(Unit), NEW n \in Nat, n <= Len(f), NEW r, r = SubSeq(f, n + 1, Len(f))
    PROVE  /\ r \in Seq(Unit) /\ Len(r) = Len(f) - n
           /\ \A j \in 1 .. Len(f) - n : r[j] = f[n + j]
  <1>1. Len(f) \in Nat /\ n \in Nat
      OBVIOUS
  <1>2. Len(r) = Len(f) - n
      BY <1>1
  <1>3. QED
      BY <1>1, <1>2

LEMMA RestHeld ==
    ASSUME NEW f \in Seq(Unit), NEW n \in Nat, n <= Len(f), NEW r, r = SubSeq(f, n + 1, Len(f))
    PROVE  /\ Held(r) \subseteq Held(f)
           /\ \A i \in n + 1 .. Len(f) : \A x : EndsAt(f, i, x) /\ x # Fragment => x \in Held(r)
  <1>1. /\ Len(r) = Len(f) - n /\ \A j \in 1 .. Len(f) - n : r[j] = f[n + j]
        /\ Len(f) \in Nat /\ n \in Nat
      BY RestFacts
  <1>2. ASSUME NEW x \in Held(r) PROVE x \in Held(f)
    <2>1. PICK j \in 1 .. Len(r) : EndsAt(r, j, x)
        BY <1>2, HeldEnds
    <2>2. n + j \in 1 .. Len(f) /\ r[j] = f[n + j]
        BY <1>1
    <2>3. EndsAt(f, n + j, x) /\ x # Fragment
        BY <1>2, <2>1, <2>2, HeldEnds, Zenon DEF EndsAt
    <2>4. QED
        BY <2>2, <2>3, HeldEnds
  <1>3. ASSUME NEW i \in n + 1 .. Len(f), NEW x, EndsAt(f, i, x), x # Fragment
        PROVE  x \in Held(r)
    <2>1. i - n \in 1 .. Len(r) /\ r[i - n] = f[n + (i - n)] /\ n + (i - n) = i
        BY <1>1
    <2>2. EndsAt(r, i - n, x)
        BY <1>3, <2>1, Zenon DEF EndsAt
    <2>3. QED
        BY <1>3, <2>1, <2>2, HeldEnds
  <1>4. QED
      BY <1>2, <1>3

\* The cut, written out.
LEMMA CutIs ==
    ASSUME NEW D, Base(D), LabInv, RunningInv, RepairInv, RepairCuts
    PROVE  \E a \in Name, n \in Nat, f \in Seq(Unit) :
             /\ a = lab.q /\ f = file[a] /\ n \in 0 .. Len(f) /\ ~Alive /\ dirent[a] # "none"
             /\ file' = [file EXCEPT ![a] = SubSeq(f, 1, n)]
             /\ synced' = [synced EXCEPT ![a] = Min({synced[a], n})]
             /\ dropped' = [dropped EXCEPT ![a] = @ \cup Held(SubSeq(f, n + 1, Len(f)))]
             /\ dirent' = dirent /\ backup' = backup /\ UNCHANGED <<server, told>>
             /\ Held(f) \subseteq backup[a]
  <1>1. /\ lab.at = "cut"
        /\ file' = [file EXCEPT ![lab.q] = SubSeq(file[lab.q], 1, parseOffset)]
        /\ synced' = [synced EXCEPT ![lab.q] = Min({@, parseOffset})]
        /\ dropped' = [dropped EXCEPT ![lab.q] =
                         @ \cup Held(SubSeq(file[lab.q], parseOffset + 1, Len(file[lab.q])))]
        /\ dirent' = dirent /\ backup' = backup /\ UNCHANGED <<server, told>>
      BY Zenon DEF RepairCuts
  <1>2. PICK a \in Name : a = lab.q
      BY <1>1 DEF LabInv
  <1>3. ~running /\ CanRepair /\ Held(file[a]) \subseteq backup[a]
      BY <1>1, <1>2 DEF RepairInv
  <1>4. ~Alive
      BY <1>3 DEF RunningInv
  <1>5. Failing # {} /\ dirent[a] # "none" /\ parseOffset <= Len(file[a])
      BY <1>2, <1>3, Zenon DEF CanRepair
  <1>6. PICK n \in Nat : n = parseOffset
      BY <1>5, OffsetFacts
  <1>7. PICK f \in Seq(Unit) : f = file[a]
      BY BaseFacts DEF DiskType
  <1>8. n \in 0 .. Len(f)
    <2>1. n <= Len(f) /\ Len(f) \in Nat
        BY <1>5, <1>6, <1>7
    <2>2. QED
        BY <2>1
  <1>9. QED
      BY <1>1, <1>2, <1>3, <1>4, <1>5, <1>6, <1>7, <1>8, Zenon

\* A set added to one value of a function.
LEMMA AddFacts ==
    ASSUME NEW F, NEW G, NEW a, NEW H, G = [F EXCEPT ![a] = @ \cup H]
    PROVE  /\ DOMAIN G = DOMAIN F /\ \A z \in DOMAIN F : F[z] \subseteq G[z]
           /\ \A z \in DOMAIN F : G[z] = IF z = a THEN F[z] \cup H ELSE F[z]
  <1>1. G = [z \in DOMAIN F |-> IF z = a THEN F[a] \cup H ELSE F[z]]
      BY Zenon
  <1>2. QED
      BY <1>1

LEMMA NextCopy ==
    ASSUME NEW D, Base(D), LabInv, RunningInv, RepairInv, CopyInv, [OpNext]_opvars
    PROVE  CopyInv'
  <1>1. CASE UNCHANGED <<backup, dropped>>
      BY <1>1 DEF CopyInv
  <1>2. CASE RepairCopies
    <2>1. PICK a, H : backup' = [backup EXCEPT ![a] = @ \cup H] /\ dropped' = dropped
        BY <1>2, Zenon DEF RepairCopies
    <2>2. PICK B : B = backup' /\ B = [backup EXCEPT ![a] = @ \cup H]
        BY <2>1
    <2>3. DOMAIN B = DOMAIN backup /\ \A z \in DOMAIN backup : backup[z] \subseteq B[z]
        BY <2>2, AddFacts
    <2>4. QED
        BY <2>1, <2>2, <2>3 DEF CopyInv
  <1>3. CASE RepairCuts
    <2>1. PICK a \in Name, n \in Nat, f \in Seq(Unit) :
             /\ a = lab.q /\ f = file[a] /\ n \in 0 .. Len(f) /\ ~Alive /\ dirent[a] # "none"
             /\ file' = [file EXCEPT ![a] = SubSeq(f, 1, n)]
             /\ synced' = [synced EXCEPT ![a] = Min({synced[a], n})]
             /\ dropped' = [dropped EXCEPT ![a] = @ \cup Held(SubSeq(f, n + 1, Len(f)))]
             /\ dirent' = dirent /\ backup' = backup /\ UNCHANGED <<server, told>>
             /\ Held(f) \subseteq backup[a]
        BY <1>3, CutIs
    <2>2. PICK H : H = Held(SubSeq(f, n + 1, Len(f)))
        OBVIOUS
    <2>3. H \subseteq Held(f)
      <3>1. PICK r : r = SubSeq(f, n + 1, Len(f)) /\ H = Held(r)
          BY <2>2
      <3>2. n <= Len(f)
          BY <2>1
      <3>3. Held(r) \subseteq Held(f)
          BY <3>1, <3>2, RestHeld, Zenon
      <3>4. QED
          BY <3>1, <3>3
    <2>4. H \subseteq backup[a] /\ dropped' = [dropped EXCEPT ![a] = @ \cup H]
        BY <2>1, <2>2, <2>3
    <2>5. PICK B : B = dropped' /\ B = [dropped EXCEPT ![a] = @ \cup H]
        BY <2>4
    <2>6. /\ DOMAIN B = DOMAIN dropped
          /\ \A z \in DOMAIN dropped : B[z] = IF z = a THEN dropped[z] \cup H ELSE dropped[z]
        BY <2>5, AddFacts
    <2>7. QED
        BY <2>1, <2>4, <2>5, <2>6 DEF CopyInv
  <1>4. CASE OpNext /\ ~RepairCopies /\ ~RepairCuts
      BY <1>1, <1>4, Zenon DEF OpNext, Ask, LabStep, LabKills, LabKilled, LabRefused,
         FlipByteMidLog, TruncateTailMidRecord, Damage, LabHasNothingToRepair, LabStarts,
         LabStarted, LabStartFails, LabStartTimesOut, LabCreates, LabCreated, LabEnsured, Reap,
         LabRepairs, RepairSyncs, RepairFails
  <1>5. CASE UNCHANGED opvars
      BY <1>1, <1>5, Zenon DEF opvars
  <1>6. QED
      BY <1>2, <1>3, <1>4, <1>5

\* The cut, wherever it is: what was owed and is not in the log any more is among
\* what has been cut off.
LEMMA CutBase ==
    ASSUME Base(dropped), LabInv, RunningInv, RepairInv, CopyInv, RepairCuts
    PROVE  Base(dropped)'
  <1>1. PICK D, E : D = dropped /\ E = dropped'
      OBVIOUS
  <1>2. Base(D)
      BY <1>1
  <1>3. DiskType /\ ToldType /\ \A q \in Name : Kept(q) /\ Owing(D, q)
      BY <1>2, BaseFacts
  <1>4. PICK a \in Name, n \in Nat, f \in Seq(Unit) :
             /\ f = file[a] /\ n \in 0 .. Len(f) /\ ~Alive /\ dirent[a] # "none"
             /\ file' = [file EXCEPT ![a] = SubSeq(f, 1, n)]
             /\ synced' = [synced EXCEPT ![a] = Min({synced[a], n})]
             /\ dropped' = [dropped EXCEPT ![a] = @ \cup Held(SubSeq(f, n + 1, Len(f)))]
             /\ dirent' = dirent /\ UNCHANGED <<server, told>>
      BY <1>2, CutIs, Zenon
  <1>5. PICK g, H, s : /\ g = SubSeq(f, 1, n) /\ H = Held(SubSeq(f, n + 1, Len(f)))
                      /\ s = Min({synced[a], n})
      OBVIOUS
  <1>6. g \in Seq(Unit) /\ Len(g) = n /\ Len(g) <= Len(f) /\ Agrees(f, g, Len(g))
      BY <1>4, <1>5, CutFacts
  <1>7. Shaped(g)
      BY <1>3, <1>4, <1>6, CutShape DEF Kept
  <1>8. /\ s \in Nat /\ s <= Len(g) /\ synced[a] \in Nat /\ synced[a] <= Len(f)
        /\ \A i \in 1 .. synced[a] : i <= n => i \in 1 .. s
    <2>1. synced[a] \in Nat /\ synced[a] <= Len(f) /\ n \in Nat
        BY <1>3, <1>4 DEF DiskType
    <2>2. s \in {synced[a], n} /\ s <= synced[a] /\ s <= n
      <3>1. {synced[a], n} \subseteq Nat /\ {synced[a], n} # {}
          BY <2>1
      <3>2. QED
          BY <1>5, <3>1, MinFacts
    <2>3. QED
        BY <1>6, <2>1, <2>2
  <1>9. E = [D EXCEPT ![a] = @ \cup H] /\ DOMAIN D = Name
      BY <1>1, <1>4, <1>5 DEF CopyInv
  <1>10. E[a] = D[a] \cup H /\ \A z \in Name : D[z] \subseteq E[z]
      BY <1>9
  <1>11. ASSUME NEW x \in Owed(a), x \notin E[a]
         PROVE  \E i \in 1 .. s : EndsAt(g, i, x)
    <2>1. PICK i \in 1 .. synced[a] : EndsAt(f, i, x)
        BY <1>3, <1>4, <1>10, <1>11, Zenon DEF Owing
    <2>2. x # Fragment
      <3>1. x \in {Meta} \cup 1 .. MaxRecs
          BY <1>3, OwedFacts
      <3>2. QED
          BY <3>1, ManagerAssumption DEF Meta, Fragment
    <2>3. i <= n
      <3>1. SUFFICES ASSUME i > n PROVE FALSE
          BY <1>4
      <3>2. i \in n + 1 .. Len(f)
          BY <1>4, <1>8, <3>1
      <3>3. x \in H
        <4>1. PICK r : r = SubSeq(f, n + 1, Len(f)) /\ H = Held(r)
            BY <1>5
        <4>2. \A j \in n + 1 .. Len(f) : \A y : EndsAt(f, j, y) /\ y # Fragment => y \in Held(r)
          <5>1. n <= Len(f)
              BY <1>4
          <5>2. QED
              BY <4>1, <5>1, RestHeld, Zenon
        <4>3. QED
            BY <2>1, <2>2, <3>2, <4>1, <4>2, Zenon
      <3>4. QED
          BY <1>10, <1>11, <3>3
    <2>4. i \in 1 .. s /\ i \in 1 .. Len(g)
        BY <1>6, <1>8, <2>3
    <2>5. EndsAt(g, i, x)
        BY <1>6, <2>1, <2>4, EndsAgrees
    <2>6. QED
        BY <2>4, <2>5
  <1>12. /\ file' = [file EXCEPT ![a] = g] /\ synced' = [synced EXCEPT ![a] = s]
         /\ dirent[a] # "none" /\ dirent' = dirent /\ UNCHANGED <<server, told>> /\ ~Alive
      BY <1>4, <1>5, Zenon
  <1>13. Base(E)'
    <2>1. Covered(a, E[a], g, s)
        BY <1>11, Zenon DEF Covered
    <2>2. \A z \in Name : D[z] \subseteq E[z]
        BY <1>10
    <2>3. QED
        BY <1>2, <1>6, <1>7, <1>8, <1>12, <2>1, <2>2, OfflineBase
  <1>14. QED
      BY <1>1, <1>13, BaseAfter

LEMMA SyncBase ==
    ASSUME NEW D, Base(D), LabInv, RunningInv, RepairInv, RepairSyncs
    PROVE  Base(D)'
  <1>1. DiskType /\ \A q \in Name : Kept(q) /\ Owing(D, q)
      BY BaseFacts
  <1>2. /\ lab.at = "sync" /\ synced' = [synced EXCEPT ![lab.q] = Len(file[lab.q])]
        /\ file' = file /\ dirent' = dirent /\ UNCHANGED <<server, told>>
      BY Zenon DEF RepairSyncs
  <1>3. PICK a \in Name : a = lab.q
      BY <1>2 DEF LabInv
  <1>4. ~Alive
      BY <1>2 DEF RepairInv, RunningInv
  <1>5. PICK f \in Seq(Unit) : f = file[a] /\ Shaped(f) /\ (dirent[a] = "none" => f = <<>>)
      BY <1>1 DEF DiskType, Kept
  <1>6. synced[a] \in Nat /\ synced[a] <= Len(f) /\ Len(f) <= Len(f) /\ Len(f) \in Nat
      BY <1>1, <1>5 DEF DiskType
  <1>7. file' = [file EXCEPT ![a] = f] /\ synced' = [synced EXCEPT ![a] = Len(f)]
    <2>1. file = [file EXCEPT ![a] = file[a]]
        BY <1>1 DEF DiskType
    <2>2. QED
        BY <1>2, <1>3, <1>5, <2>1
  <1>8. ASSUME NEW x \in Owed(a), x \notin D[a]
        PROVE  \E i \in 1 .. Len(f) : EndsAt(f, i, x)
    <2>1. PICK i \in 1 .. synced[a] : EndsAt(f, i, x)
        BY <1>1, <1>5, <1>8, Zenon DEF Owing
    <2>2. i \in 1 .. Len(f)
        BY <1>6
    <2>3. QED
        BY <2>1, <2>2
  <1>9. CASE dirent[a] # "none"
    <2>1. Covered(a, D[a], f, Len(f))
        BY <1>8, Zenon DEF Covered
    <2>2. \A z \in Name : D[z] \subseteq D[z]
        OBVIOUS
    <2>3. /\ dirent' = dirent /\ UNCHANGED <<server, told>> /\ Shaped(f)
          /\ Len(f) \in Nat /\ Len(f) <= Len(f)
        BY <1>2, <1>5, <1>6
    <2>4. QED
        BY <1>4, <1>7, <1>9, <2>1, <2>2, <2>3, OfflineBase
  <1>10. CASE dirent[a] = "none"
    <2>1. Len(f) = 0 /\ synced[a] = Len(f)
        BY <1>5, <1>6, <1>10, EmptyLog
    <2>2. synced' = synced
        BY <1>1, <1>7, <2>1 DEF DiskType
    <2>3. UNCHANGED vars
        BY <1>2, <2>2, Zenon DEF vars, disk
    <2>4. QED
        BY <2>3, StutterBase
  <1>11. QED
      BY <1>9, <1>10

\* Damage takes nothing that is owed out of the records' bounds.
LEMMA DamageBase ==
    ASSUME NEW D, Base(D), LabInv, RunningInv, FlipByteMidLog \/ TruncateTailMidRecord
    PROVE  Base(D)'
  <1>1. CASE UNCHANGED vars
      BY <1>1, StutterBase
  <1>2. CASE ~UNCHANGED vars
    <2>1. PICK g \in Seq(Unit) :
             /\ lab.q \in Name /\ ~Alive /\ dirent[lab.q] # "none"
             /\ file' = [file EXCEPT ![lab.q] = g] /\ synced' = [synced EXCEPT ![lab.q] = Len(g)]
             /\ dirent' = dirent /\ UNCHANGED <<server, told>>
             /\ Len(file[lab.q]) <= Len(g) /\ Agrees(file[lab.q], g, Len(file[lab.q])) /\ Shaped(g)
        BY <1>2, DamageFacts, Zenon
    <2>2. PICK a \in Name : a = lab.q
        BY <2>1
    <2>3. DiskType /\ Owing(D, a)
        BY BaseFacts
    <2>4. PICK f \in Seq(Unit) : f = file[a] /\ synced[a] \in Nat /\ synced[a] <= Len(f)
        BY <2>3 DEF DiskType
    <2>5. ASSUME NEW x \in Owed(a), x \notin D[a]
          PROVE  \E i \in 1 .. Len(g) : EndsAt(g, i, x)
      <3>1. PICK i \in 1 .. synced[a] : EndsAt(f, i, x)
          BY <2>3, <2>4, <2>5, Zenon DEF Owing
      <3>2. Len(f) <= Len(g) /\ Agrees(f, g, Len(f))
          BY <2>1, <2>2, <2>4
      <3>3. i \in 1 .. Len(f) /\ i \in 1 .. Len(g)
          BY <2>4, <3>2
      <3>4. EndsAt(g, i, x)
          BY <3>1, <3>2, <3>3, EndsAgrees
      <3>5. QED
          BY <3>3, <3>4
    <2>6. /\ ~Alive /\ dirent[a] # "none" /\ Shaped(g)
          /\ file' = [file EXCEPT ![a] = g] /\ synced' = [synced EXCEPT ![a] = Len(g)]
          /\ dirent' = dirent /\ UNCHANGED <<server, told>>
        BY <2>1, <2>2, Zenon
    <2>7. Covered(a, D[a], g, Len(g))
        BY <2>5, Zenon DEF Covered
    <2>8. (\A z \in Name : D[z] \subseteq D[z]) /\ Len(g) \in Nat /\ Len(g) <= Len(g)
      <3>1. Len(g) \in Nat
          OBVIOUS
      <3>2. QED
          BY <3>1
    <2>9. QED
        BY <2>6, <2>7, <2>8, OfflineBase
  <1>3. QED
      BY <1>1, <1>2

\* The whole system's invariant, for the logs and what is owed of them.
OpInv == Base(dropped) /\ LabInv /\ RunningInv /\ RepairInv /\ CopyInv

LEMMA InitOp == OpInit => OpInv
  BY InitOpBase, InitRunning, InitRepair DEF OpInv

LEMMA NextOp == OpInv /\ [OpNext]_opvars => OpInv'
  <1> SUFFICES ASSUME OpInv, [OpNext]_opvars PROVE OpInv'
      OBVIOUS
  <1>1. Base(dropped) /\ LabInv /\ RunningInv /\ RepairInv /\ CopyInv
      BY DEF OpInv
  <1>2. LabInv' /\ RunningInv' /\ RepairInv' /\ CopyInv'
      BY <1>1, NextLab, NextRunning, NextRepair, NextCopy
  <1>3. PICK D : D = dropped /\ Base(D)
      BY <1>1
  <1>4. ASSUME UNCHANGED dropped, Base(D)' PROVE Base(dropped)'
      BY <1>3, <1>4, BaseAfter
  <1>5. Base(dropped)'
    <2>1. CASE RepairCuts
        BY <1>1, <2>1, CutBase
    <2>6. CASE RepairSyncs
      <3>1. UNCHANGED dropped
          BY <2>6, Zenon DEF RepairSyncs
      <3>2. QED
          BY <1>1, <1>3, <1>4, <2>6, <3>1, SyncBase
    <2>2. CASE (FlipByteMidLog \/ TruncateTailMidRecord) /\ UNCHANGED dropped
        BY <1>1, <1>3, <1>4, <2>2, DamageBase
    <2>3. CASE ServerStep /\ UNCHANGED dropped
        BY <1>3, <1>4, <2>3, ServerBase
    <2>4. CASE UNCHANGED vars /\ UNCHANGED dropped
        BY <1>3, <1>4, <2>4, StutterBase
    <2>5. QED
        BY <1>1, <2>1, <2>2, <2>3, <2>4, <2>6, OpSplit
  <1>6. QED
      BY <1>2, <1>5, Zenon DEF OpInv

\* FlipByteMidLog, TruncateTailMidRecord and the cut of a repair change a log only
\* when no server has it open, although running lags behind the child, Kill stops
\* waiting after two seconds, a start may time out in between, and the child may
\* die between the steps of a repair.
THEOREM LabWorksOffline == OpSpec => LogsChangedOffline
  <1>1. OpInv /\ [OpNext]_opvars
        => [FlipByteMidLog \/ TruncateTailMidRecord \/ RepairCuts
              => file' = file \/ ~Alive]_opvars
    <2> SUFFICES ASSUME OpInv, FlipByteMidLog \/ TruncateTailMidRecord \/ RepairCuts
                 PROVE  ~Alive
        OBVIOUS
    <2>1. RunningInv /\ RepairInv
        BY DEF OpInv
    <2>2. ~running \/ lab.at = "cut"
        BY Zenon DEF FlipByteMidLog, TruncateTailMidRecord, RepairCuts
    <2>3. QED
        BY <2>1, <2>2 DEF RepairInv, RunningInv
  <1>2. QED
      BY InitOp, NextOp, <1>1, PTL DEF OpSpec, LogsChangedOffline

\* At every step of a repair, and however one ends, each queue and each confirmed
\* message is in its log, damaged or not, or in a copy that repair has saved.
THEOREM NothingIsDestroyed == OpSpec => []NothingDestroyed
  <1>1. OpInv => NothingDestroyed
    <2> SUFFICES ASSUME OpInv, NEW q \in created, NEW x \in confirmed[q] \cup {Meta}
                 PROVE  x \in Held(file[q]) \cup backup[q]
        BY DEF NothingDestroyed
    <2>1. Base(dropped) /\ CopyInv
        BY DEF OpInv
    <2>2. PICK D : D = dropped /\ Base(D)
        BY <2>1
    <2>3. DiskType /\ ToldType /\ \A z \in Name : Owing(D, z)
        BY <2>2, BaseFacts
    <2>4. q \in Name /\ x \in Owed(q)
        BY <2>3 DEF ToldType, Owed
    <2>5. CASE x \in D[q]
        BY <2>1, <2>2, <2>4, <2>5 DEF CopyInv
    <2>6. CASE x \notin D[q]
      <3>1. PICK i \in 1 .. synced[q] : EndsAt(file[q], i, x)
          BY <2>3, <2>4, <2>6, Zenon DEF Owing
      <3>2. i \in 1 .. Len(file[q])
          BY <2>3, <2>4 DEF DiskType
      <3>3. x # Fragment
        <4>1. x \in {Meta} \cup 1 .. MaxRecs
            BY <2>3, <2>4, OwedFacts
        <4>2. QED
            BY <4>1, ManagerAssumption DEF Meta, Fragment
      <3>4. x \in Held(file[q])
          BY <3>1, <3>2, <3>3, HeldEnds
      <3>5. QED
          BY <3>4
    <2>7. QED
        BY <2>5, <2>6
  <1>2. QED
      BY InitOp, NextOp, <1>1, PTL DEF OpSpec

\* A server that starts under the demo's supervisor serves every queue and every
\* confirmed message but for what an operator's repair has cut off: no sequence
\* of kills, flipped bytes, torn tails and repairs, at whatever offset verify
\* reported, makes OpenManager drop one by itself.
THEOREM StartupDropsNothing == OpSpec => []RefuseOrServe
  <1>1. OpInv => RefuseOrServe
    <2> SUFFICES ASSUME OpInv, proc = "up", NEW q \in created, NEW x \in confirmed[q] \cup {Meta}
                 PROVE  x \in Served(q) \cup dropped[q]
        BY DEF RefuseOrServe
    <2>1. PICK D : D = dropped /\ Base(D)
        BY DEF OpInv
    <2>2. q \in Name
        BY <2>1 DEF Base, Types, ToldType
    <2>3. x \in Owed(q)
        BY DEF Owed
    <2>4. x \in D[q] \/ (q \in queues /\ x \in Records(file[q]))
        BY <2>1, <2>2, <2>3, ServesOwed
    <2>5. QED
        BY <2>1, <2>4, Zenon DEF Served
  <1>2. QED
      BY InitOp, NextOp, <1>1, PTL DEF OpSpec

-----------------------------------------------------------------------------
(***************************************************************************)
(* What the lab says of the start that follows the damage.                 *)
(***************************************************************************)
\* A log that cannot be loaded, and will not be touched until it is.
Barred(a) ==
    /\ Replay(file[a]).corrupt /\ synced[a] = Len(file[a]) /\ dirent[a] # "none"
    /\ proc \notin {"up", "closing"} /\ (Alive => a \in todo)

Intact == \A q \in Name : Straight(file[q]) /\ Unhurt(file[q])

ClaimInv ==
    lab.at \in {"start", "wait"} /\ lab.clean /\ lab.do \in {"midlog", "tail"} =>
        /\ lab.do = "midlog" => Barred(lab.q)
        /\ lab.do = "tail" => Intact /\ (lab.at = "wait" => proc # "refused")
        /\ lab.at = "start" => ~running

LEMMA BarredStays ==
    ASSUME NEW D, Base(D), NEW a \in Name, Barred(a), OwnStep
    PROVE  Barred(a)'
  <1>1. DiskType /\ ServerType /\ ModesInv
      BY BaseFacts
  <1>2. creating = NoCreate /\ waiting = {}
    <2>1. ~Alive \/ proc = "booting"
        BY DEF Barred, Alive
    <2>2. QED
        BY <1>1, <2>1, Zenon DEF ModesInv
  <1>3. PICK f, s : f = file[a] /\ s = synced[a]
      OBVIOUS
  <1>4. f \in Seq(Unit) /\ s = Len(f) /\ s \in Nat /\ Replay(f).corrupt
      BY <1>1, <1>3 DEF DiskType, Barred
  <1>5. ASSUME file'[a] = f, synced'[a] = s, dirent'[a] # "none", proc' \in {"down", "refused"}
        PROVE  Barred(a)'
    <2>1. ~Alive'
        BY <1>5 DEF Alive
    <2>2. proc' \notin {"up", "closing"}
        BY <1>5
    <2>3. QED
        BY <1>4, <1>5, <2>1, <2>2, Zenon DEF Barred
  <1>6. CASE Kill
    <2>1. /\ \A q \in Name : file'[q] \in Cut(q)
          /\ synced' = synced /\ dirent' = dirent /\ proc' = "down"
        BY <1>6, Zenon DEF Kill, Killed
    <2>2. PICK n \in s .. Len(f) : file'[a] = SubSeq(f, 1, n)
        BY <1>3, <2>1, Zenon DEF Cut
    <2>3. n = Len(f)
        BY <1>4
    <2>4. SubSeq(f, 1, Len(f)) = f
        BY <1>4
    <2>5. file'[a] = f
        BY <2>2, <2>3, <2>4, Zenon
    <2>6. synced'[a] = s /\ dirent'[a] # "none" /\ proc' \in {"down", "refused"}
        BY <1>3, <2>1 DEF Barred
    <2>7. QED
        BY <1>5, <2>5, <2>6
  <1>7. CASE LoadRefuses \/ LoadFails
    <2>1. /\ file' = file /\ synced' = synced /\ dirent' = dirent
          /\ proc' = "down" \/ proc' = "refused"
        BY <1>7, Zenon DEF LoadRefuses, LoadFails, disk
    <2>2. file'[a] = f /\ synced'[a] = s /\ dirent'[a] # "none" /\ proc' \in {"down", "refused"}
        BY <1>3, <2>1 DEF Barred
    <2>3. QED
        BY <1>5, <2>2
  <1>8. CASE LoadSkips \/ LoadOpens
    <2>1. PICK m : m = Min(todo)
        OBVIOUS
    <2>2. Loading /\ ~Replay(file[m]).corrupt /\ proc' = proc /\ todo' = todo \ {m}
        BY <1>8, <2>1, Zenon DEF LoadSkips, LoadOpens
    <2>3. m # a
        BY <1>3, <1>4, <2>2, Zenon
    <2>4. m \in Name
        BY <1>1, <2>1, <2>2, NextName
    <2>5. file'[a] = f /\ synced'[a] = s /\ dirent'[a] = dirent[a]
      <3>1. CASE LoadSkips
          BY <1>3, <3>1, Zenon DEF LoadSkips, disk
      <3>2. CASE LoadOpens
        <4>1. PICK F, Y, E : /\ file' = [file EXCEPT ![m] = F]
                             /\ synced' = [synced EXCEPT ![m] = Y]
                             /\ dirent' = [dirent EXCEPT ![m] = E]
            BY <2>1, <3>2, Zenon DEF LoadOpens
        <4>2. QED
            BY <1>1, <1>3, <2>3, <2>4, <4>1 DEF DiskType
      <3>3. QED
          BY <1>8, <3>1, <3>2
    <2>6. (Alive' => Alive) /\ proc' \notin {"up", "closing"}
        BY <2>2 DEF Alive, Barred
    <2>7. Alive' => a \in todo'
        BY <2>2, <2>3, <2>6 DEF Barred
    <2>8. dirent'[a] # "none" /\ synced'[a] = Len(file'[a]) /\ Replay(file'[a]).corrupt
        BY <1>4, <2>5 DEF Barred
    <2>9. QED
        BY <2>6, <2>7, <2>8, Zenon DEF Barred
  <1>9. CASE Serving
    <2>1. proc = "booting" /\ todo = {}
        BY <1>9, Zenon DEF Serving
    <2>2. QED
        BY <2>1 DEF Barred, Alive
  <1>10. CASE CreateStep
    <2>1. creating # NoCreate \/ creating.step \in {"open", "dirsync", "write", "sync"}
      <3>1. \/ creating.step = "open" \/ creating.step = "dirsync" \/ creating.step = "write"
            \/ creating.step = "sync" \/ creating # NoCreate
          BY <1>10, Zenon DEF CreateStep, CreateOpens, CreateSyncsDir, CreateWritesMeta,
             CreateSyncs, CreateFails, At
      <3>2. QED
          BY <3>1
    <2>2. QED
        BY <1>2, <2>1 DEF NoCreate
  <1>11. CASE \E q \in Name : Enqueue(q) \/ Confirm(q)
    <2>1. proc = "up" \/ \E q : q \in waiting
        BY <1>11, Zenon DEF Enqueue, Confirm
    <2>2. QED
        BY <1>2, <2>1 DEF Barred
  <1>12. QED
      BY <1>6, <1>7, <1>8, <1>9, <1>10, <1>11, Zenon DEF OwnStep, Boot

LEMMA IntactStays ==
    ASSUME NEW D, Base(D), Intact, OwnStep
    PROVE  Intact' /\ (proc # "refused" => proc' # "refused")
  <1>1. DiskType /\ ServerType
      BY BaseFacts
  <1>2. ServerStep
      BY Zenon DEF OwnStep, ServerStep
  <1>3. \A q \in Name : Edit(file[q], file'[q])
      BY <1>2, ServerBase
  <1>4. ASSUME NEW q \in Name PROVE Straight(file'[q]) /\ Unhurt(file'[q])
    <2>1. PICK f, g : f = file[q] /\ g = file'[q]
        OBVIOUS
    <2>2. f \in Seq(Unit) /\ Edit(f, g) /\ Straight(f) /\ Unhurt(f)
        BY <1>1, <1>3, <2>1 DEF DiskType, Intact
    <2>3. Straight(g) /\ Unhurt(g)
        BY <2>2, EditShape
    <2>4. QED
        BY <2>1, <2>3
  <1>5. ~LoadRefuses
    <2> SUFFICES ASSUME LoadRefuses PROVE FALSE
        OBVIOUS
    <2>1. PICK m : m = Min(todo)
        OBVIOUS
    <2>2. Loading /\ Replay(file[m]).corrupt
        BY <2>1, Zenon DEF LoadRefuses
    <2>3. m \in Name
        BY <1>1, <2>1, <2>2, NextName
    <2>4. PICK f \in Seq(Unit) : f = file[m] /\ Straight(f) /\ Unhurt(f)
        BY <1>1, <2>3 DEF DiskType, Intact
    <2>5. \E i \in 1 .. Len(f) : f[i].bad
        BY <2>2, <2>4, RefusedLog
    <2>6. QED
        BY <2>4, <2>5 DEF Unhurt
  <1>6. ASSUME proc # "refused" PROVE proc' # "refused"
    <2>1. proc' = proc \/ proc' = "down" \/ proc' = "up"
        BY <1>5, Zenon DEF OwnStep, Boot, LoadSkips, LoadOpens, LoadFails, Serving, Kill, Killed,
           CreateStep, CreateOpens, CreateSyncsDir, CreateWritesMeta, CreateSyncs, CreateFails,
           Enqueue, Confirm
    <2>2. QED
        BY <1>6, <2>1
  <1>7. QED
      BY <1>4, <1>6, Zenon DEF Intact

\* The damage itself: on logs that were all sound, a flipped byte bars the log
\* and the beginning of a record hurts nothing.
LEMMA DamageClaim ==
    ASSUME NEW D, Base(D), LabInv, RunningInv, FlipByteMidLog \/ TruncateTailMidRecord,
           lab'.at \in {"start", "wait"}, lab'.clean
    PROVE  /\ lab'.do = "midlog" => Barred(lab.q)'
           /\ lab'.do = "tail" => Intact'
           /\ lab'.at = "start" /\ ~running'
  <1>1. lab'.at = "start"
    <2>1. CASE Done
        BY <2>1, DoneLab
    <2>2. ASSUME NEW g, Damage(g) PROVE lab'.at = "start"
        BY <2>2, DamageIs, Zenon
    <2>3. Done \/ \E g : Damage(g)
        BY Zenon DEF FlipByteMidLog, TruncateTailMidRecord
    <2>4. QED
        BY <2>1, <2>2, <2>3
  <1>2. PICK g \in Seq(Unit) :
             /\ lab.q \in Name /\ ~Alive /\ ~running /\ dirent[lab.q] # "none"
             /\ file' = [file EXCEPT ![lab.q] = g] /\ synced' = [synced EXCEPT ![lab.q] = Len(g)]
             /\ dirent' = dirent /\ UNCHANGED <<server, told>> /\ running' = running
             /\ lab'.do = lab.do /\ lab'.q = lab.q /\ (lab'.clean => AllClean)
             /\ lab.do = "midlog" /\ Sound(file[lab.q]) => Replay(g).corrupt
             /\ lab.do = "tail" /\ Sound(file[lab.q]) => Straight(g) /\ Unhurt(g)
      BY <1>1, DamageFacts, Zenon
  <1>3. DiskType /\ \A q \in Name : Kept(q)
      BY BaseFacts
  <1>4. ASSUME NEW q \in Name PROVE file[q] \in Seq(Unit) /\ Sound(file[q])
    <2>1. PICK f \in Seq(Unit) : f = file[q] /\ Shaped(f)
        BY <1>3 DEF DiskType, Kept
    <2>2. ~Replay(f).corrupt /\ ~Replay(f).torn
        BY <1>2, <2>1, Zenon DEF AllClean
    <2>3. Sound(f)
        BY <2>1, <2>2, CleanLog
    <2>4. QED
        BY <2>1, <2>3
  <1>5. PICK a \in Name : a = lab.q
      BY <1>2
  <1>6. /\ file' = [file EXCEPT ![a] = g] /\ synced' = [synced EXCEPT ![a] = Len(g)]
        /\ dirent' = dirent /\ dirent[a] # "none" /\ ~Alive /\ lab'.q = a
      BY <1>2, <1>5, Zenon
  <1>7. file'[a] = g /\ synced'[a] = Len(g) /\ \A z \in Name : z # a => file'[z] = file[z]
      BY <1>3, <1>6 DEF DiskType
  <1>8. ~Alive' /\ proc' \notin {"up", "closing"}
    <2>1. proc' = proc
        BY <1>2, Zenon DEF server
    <2>2. QED
        BY <1>6, <2>1 DEF Alive
  <1>9. ASSUME lab'.do = "midlog" PROVE Barred(lab.q)'
    <2>1. Replay(g).corrupt
        BY <1>2, <1>4, <1>9, Zenon
    <2>2. Replay(file'[a]).corrupt /\ synced'[a] = Len(file'[a]) /\ dirent'[a] # "none"
        BY <1>6, <1>7, <2>1, Zenon
    <2>3. Barred(a)'
        BY <1>8, <2>2, Zenon DEF Barred
    <2>4. QED
        BY <1>6, <2>2, <1>8, Zenon DEF Barred
  <1>10. ASSUME lab'.do = "tail" PROVE Intact'
    <2>1. Straight(g) /\ Unhurt(g)
        BY <1>2, <1>4, <1>10, Zenon
    <2>2. ASSUME NEW z \in Name, z # a PROVE Straight(file[z]) /\ Unhurt(file[z])
        BY <1>4, WholeStraight DEF Sound
    <2>3. QED
        BY <1>7, <2>1, <2>2, Zenon DEF Intact
  <1>11. QED
      BY <1>1, <1>2, <1>9, <1>10, Zenon

LEMMA NextClaim == OpInv /\ ClaimInv /\ [OpNext]_opvars => ClaimInv'
  <1> SUFFICES ASSUME OpInv, ClaimInv, [OpNext]_opvars,
                      lab'.at \in {"start", "wait"}, lab'.clean, lab'.do \in {"midlog", "tail"}
               PROVE  /\ lab'.do = "midlog" => Barred(lab.q)'
                      /\ lab'.do = "tail" => Intact' /\ (lab'.at = "wait" => proc' # "refused")
                      /\ lab'.at = "start" => ~running'
      BY Zenon DEF ClaimInv
  <1>1. PICK D : Base(D) /\ LabInv /\ RunningInv
      BY DEF OpInv
  <1>2. CASE (\E do \in {"kill", "start"} : Ask(do, 0))
             \/ \E do \in {"midlog", "tail", "repair"}, q \in Name : Ask(do, q)
      BY <1>1, <1>2, AskLab
  <1>3. CASE LabStep
    <2>1. CASE FlipByteMidLog \/ TruncateTailMidRecord
        BY <1>1, <2>1, DamageClaim
    <2>2. CASE /\ lab.at = "start" /\ lab'.at = "wait" /\ ~running /\ StartServer
               /\ lab'.do = lab.do /\ lab'.q = lab.q /\ lab'.clean = lab.clean
      <3>1. lab.clean /\ lab.do \in {"midlog", "tail"} /\ lab.at \in {"start", "wait"}
          BY <2>2
      <3>2. /\ lab.do = "midlog" => Barred(lab.q)
            /\ lab.do = "tail" => Intact
          BY <3>1, Zenon DEF ClaimInv
      <3>3. /\ proc' = "booting" /\ todo' = {q \in Name : dirent[q] # "none"}
            /\ file' = file /\ synced' = synced /\ dirent' = dirent
          BY <2>2, Zenon DEF StartServer, disk
      <3>4. PICK a \in Name : a = lab.q /\ a = lab'.q
          BY <1>1, <2>2, <3>1 DEF LabInv
      <3>5. ASSUME Barred(a) PROVE Barred(a)'
        <4>1. a \in todo' /\ proc' \notin {"up", "closing"}
            BY <3>3, <3>5 DEF Barred
        <4>2. QED
            BY <3>3, <3>5, <4>1, Zenon DEF Barred
      <3>6. Intact => Intact'
          BY <3>3, Zenon DEF Intact
      <3>7. lab'.do = "midlog" => Barred(lab.q)'
        <4>1. lab'.do = "midlog" => Barred(a)'
            BY <2>2, <3>2, <3>4, <3>5, Zenon
        <4>2. QED
            BY <3>4, <4>1, Zenon DEF Barred
      <3>8. QED
          BY <2>2, <3>2, <3>3, <3>6, <3>7
    <2>3. QED
        BY <1>1, <1>3, <2>1, <2>2, LabMoves
  <1>4. ASSUME lab' = lab
        PROVE  /\ lab.do = "midlog" => Barred(lab.q)
               /\ lab.do = "tail" => Intact /\ (lab.at = "wait" => proc # "refused")
               /\ lab.at = "start" => ~running
               /\ lab.do \in {"midlog", "tail"} /\ lab.q \in Name
    <2>1. lab.at \in {"start", "wait"} /\ lab.clean /\ lab.do \in {"midlog", "tail"}
        BY <1>4
    <2>2. lab.q \in Name
        BY <1>1, <2>1 DEF LabInv
    <2>3. QED
        BY <2>1, <2>2, Zenon DEF ClaimInv
  <1>5. CASE UNCHANGED <<vars, lab>> /\ (running' = running \/ running' = FALSE)
    <2>1. /\ lab' = lab /\ file' = file /\ synced' = synced /\ dirent' = dirent
          /\ proc' = proc /\ todo' = todo
        BY <1>5, Zenon DEF vars, disk, server
    <2>2. \A a : Barred(a) => Barred(a)'
        BY <2>1, Zenon DEF Barred, Alive
    <2>3. Intact => Intact'
        BY <2>1, Zenon DEF Intact
    <2>4. PICK a : a = lab.q /\ a = lab'.q
        BY <2>1
    <2>5. lab'.do = "midlog" => Barred(lab.q)'
      <3>1. lab'.do = "midlog" => Barred(a)'
          BY <1>4, <2>1, <2>2, <2>4, Zenon
      <3>2. QED
          BY <2>4, <3>1, Zenon DEF Barred
    <2>6. QED
        BY <1>4, <1>5, <2>1, <2>3, <2>5
  <1>6. CASE OwnStep /\ UNCHANGED <<running, lab>>
    <2>1. lab' = lab /\ running' = running
        BY <1>6
    <2>2. PICK a \in Name : a = lab.q /\ a = lab'.q
        BY <1>4, <2>1
    <2>3. lab'.do = "midlog" => Barred(lab.q)'
      <3>1. Barred(a) => Barred(a)'
          BY <1>1, <1>6, BarredStays
      <3>2. lab'.do = "midlog" => Barred(a)'
          BY <1>4, <2>1, <2>2, <3>1, Zenon
      <3>3. QED
          BY <2>2, <3>2, Zenon DEF Barred
    <2>4. Intact => Intact' /\ (proc # "refused" => proc' # "refused")
        BY <1>1, <1>6, IntactStays
    <2>5. QED
        BY <1>4, <2>1, <2>3, <2>4
  <1>7. QED
    <2>1. \/ \E do \in {"kill", "start"} : Ask(do, 0)
          \/ \E do \in {"midlog", "tail", "repair"}, q \in Name : Ask(do, q)
          \/ LabStep
          \/ UNCHANGED <<vars, lab>> /\ (running' = running \/ running' = FALSE)
          \/ OwnStep /\ UNCHANGED <<running, lab>>
        BY Zenon DEF OpNext, Reap, opvars, OwnStep
    <2>2. QED
        BY <1>2, <1>3, <1>5, <1>6, <2>1

\* The corruption lab's explanation holds on a directory that was sound: after a
\* flipped byte the server it starts never comes up, and after a torn tail it is
\* never refused, whatever kills, time-outs and enqueues happen meanwhile.
THEOREM LabExplainsTheStart == OpSpec => []LabAsExplained
  <1>1. OpInit => ClaimInv
    <2> SUFFICES ASSUME OpInit PROVE ClaimInv
        OBVIOUS
    <2>1. lab.at = "idle"
        BY DEF OpInit, Idle
    <2>2. QED
        BY <2>1 DEF ClaimInv
  <1>2. ClaimInv => LabAsExplained
    <2> SUFFICES ASSUME ClaimInv, lab.at = "wait", lab.clean
                 PROVE  /\ lab.do = "midlog" => proc # "up"
                        /\ lab.do = "tail" => proc # "refused"
        BY DEF LabAsExplained
    <2>1. ASSUME lab.do = "midlog" PROVE proc # "up"
      <3>1. Barred(lab.q)
          BY <2>1 DEF ClaimInv
      <3>2. QED
          BY <3>1 DEF Barred
    <2>2. lab.do = "tail" => proc # "refused"
        BY DEF ClaimInv
    <2>3. QED
        BY <2>1, <2>2
  <1>3. QED
      BY InitOp, NextOp, NextClaim, <1>1, <1>2, PTL DEF OpSpec
=============================================================================
