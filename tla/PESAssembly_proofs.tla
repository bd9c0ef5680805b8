-------------------------- MODULE PESAssembly_proofs --------------------------
(***************************************************************************)
(* Theorems about PESAssembly: its types, and that units are held and      *)
(* handed out whole, for every choice of units, header sizes and payloads. *)
(***************************************************************************)
EXTENDS PESAssembly, TLAPS

-----------------------------------------------------------------------------
(* Sequences. *)

LEMMA EmptyInSeq == ASSUME NEW T PROVE <<>> \in Seq(T) /\ Len(<<>>) = 0
  OBVIOUS

LEMMA ConcatInSeq ==
    ASSUME NEW T, NEW s \in Seq(T), NEW t \in Seq(T)
    PROVE  s \o t \in Seq(T) /\ Len(s \o t) = Len(s) + Len(t)
  OBVIOUS

LEMMA PartInSeq ==
    ASSUME NEW T, NEW s \in Seq(T), NEW m \in Nat, NEW n \in Nat,
           m >= 1, n <= Len(s)
    PROVE  SubSeq(s, m, n) \in Seq(T)
  OBVIOUS

LEMMA PartAt ==
    ASSUME NEW T, NEW s \in Seq(T), NEW m \in Nat, NEW n \in Nat,
           m >= 1, m <= n + 1, n <= Len(s)
    PROVE  /\ Len(SubSeq(s, m, n)) = n - m + 1
           /\ \A i \in 1..(n - m + 1) : SubSeq(s, m, n)[i] = s[m + i - 1]
  OBVIOUS

LEMMA SameSeq ==
    ASSUME NEW T, NEW s \in Seq(T), NEW t \in Seq(T), Len(s) = Len(t),
           \A i \in 1..Len(s) : s[i] = t[i]
    PROVE  s = t
  OBVIOUS

\* A part of a part.
LEMMA PartOfPart ==
    ASSUME NEW T, NEW s \in Seq(T), NEW a \in Nat, NEW b \in Nat,
           NEW m \in Nat, NEW n \in Nat,
           a >= 1, a <= b + 1, b <= Len(s), m >= 1, m <= n + 1, n <= b - a + 1
    PROVE  SubSeq(SubSeq(s, a, b), m, n) = SubSeq(s, a + m - 1, a + n - 1)
  <1> DEFINE p == SubSeq(s, a, b)
             q == SubSeq(p, m, n)
             r == SubSeq(s, a + m - 1, a + n - 1)
  <1>1. p \in Seq(T) /\ Len(p) = b - a + 1
    BY PartInSeq, PartAt
  <1>2. \A i \in 1..(b - a + 1) : p[i] = s[a + i - 1]
    BY PartAt
  <1> HIDE DEF p
  <1>3. /\ q \in Seq(T) /\ Len(q) = n - m + 1
        /\ \A i \in 1..(n - m + 1) : q[i] = p[m + i - 1]
    BY <1>1, PartInSeq, PartAt
  <1>4. /\ r \in Seq(T) /\ Len(r) = n - m + 1
        /\ \A i \in 1..(n - m + 1) : r[i] = s[a + m + i - 2]
    <2>1. a + m - 1 \in Nat /\ a + n - 1 \in Nat
      OBVIOUS
    <2>2. /\ a + m - 1 >= 1 /\ a + m - 1 <= (a + n - 1) + 1
          /\ a + n - 1 <= Len(s)
          /\ (a + n - 1) - (a + m - 1) + 1 = n - m + 1
      OBVIOUS
    <2>3. \A i \in 1..(n - m + 1) : (a + m - 1) + i - 1 = a + m + i - 2
      OBVIOUS
    <2> QED BY <2>1, <2>2, <2>3, PartInSeq, PartAt
  <1> HIDE DEF q, r
  <1>5. \A i \in 1..(n - m + 1) :
            /\ m + i - 1 \in 1..(b - a + 1)
            /\ a + (m + i - 1) - 1 = a + m + i - 2
    OBVIOUS
  <1>6. \A i \in 1..(n - m + 1) : q[i] = r[i]
    BY <1>2, <1>3, <1>4, <1>5
  <1>7. q = r
    BY <1>3, <1>4, <1>6, SameSeq
  <1> QED BY <1>7 DEF p, q, r

\* Two adjacent parts.
LEMMA JoinParts ==
    ASSUME NEW T, NEW s \in Seq(T), NEW n \in Nat, NEW k \in Nat,
           n + k <= Len(s)
    PROVE  SubSeq(s, 1, n) \o SubSeq(s, n + 1, n + k) = SubSeq(s, 1, n + k)
  OBVIOUS

-----------------------------------------------------------------------------
(* Units and their headers. *)

LEMMA CellsType ==
    ASSUME NEW u \in Unit
    PROVE  /\ Cells(u) \in Seq(Cell)
           /\ Len(Cells(u)) = Size[u]
           /\ Size[u] \in Nat /\ Size[u] >= 1
           /\ \A i \in 1..Size[u] : Cells(u)[i].unit = u
  <1>1. Size[u] \in Nat /\ Size[u] >= 1
    BY UnitsAssumption
  <1>2. \A i \in 1..Size[u] : [unit |-> u, pos |-> i] \in Cell
    BY <1>1 DEF Cell
  <1>3. Cells(u) \in [1..Size[u] -> Cell]
    BY <1>2 DEF Cells
  <1>4. \A i \in 1..Size[u] : Cells(u)[i].unit = u
    BY DEF Cells
  <1> QED BY <1>1, <1>3, <1>4

LEMMA HeaderType ==
    ASSUME NEW u \in Unit
    PROVE  /\ HeaderOf[u] \in Header
           /\ HeaderOf[u].start_code
           /\ getHeaderSize(HeaderOf[u]) \in Nat
           /\ FixedSize <= getHeaderSize(HeaderOf[u])
           /\ getHeaderSize(HeaderOf[u]) <= Size[u]
           /\ HeaderOf[u].has_optional_fields =>
                 /\ getHeaderSize(HeaderOf[u]) =
                       FlagsSize + HeaderOf[u].header_data_length
                 /\ HeaderOf[u].timestamps * TimestampSize
                       <= HeaderOf[u].header_data_length
           /\ ~HeaderOf[u].has_optional_fields =>
                 getHeaderSize(HeaderOf[u]) = FixedSize
           /\ HeaderOf[u].length = 0 \/ FixedSize + HeaderOf[u].length = Size[u]
           /\ HeaderOf[u].length \in Nat
           /\ HeaderOf[u].header_data_length \in Nat
           /\ HeaderOf[u].timestamps \in 0..2
  <1>1. HeaderOf[u] \in Header
    BY UnitsAssumption
  <1>2. /\ HeaderOf[u].length \in Nat
        /\ HeaderOf[u].header_data_length \in Nat
        /\ HeaderOf[u].timestamps \in 0..2
        /\ HeaderOf[u].has_optional_fields \in BOOLEAN
    BY <1>1 DEF Header
  <1>3. /\ HeaderOf[u].start_code
        /\ getHeaderSize(HeaderOf[u]) <= Size[u]
        /\ HeaderOf[u].has_optional_fields =>
              HeaderOf[u].timestamps * TimestampSize
                  <= HeaderOf[u].header_data_length
        /\ HeaderOf[u].length = 0 \/ FixedSize + HeaderOf[u].length = Size[u]
    BY UnitsAssumption
  <1>4. CASE HeaderOf[u].has_optional_fields
    <2>1. getHeaderSize(HeaderOf[u]) =
              FlagsSize + HeaderOf[u].header_data_length
      BY <1>4 DEF getHeaderSize
    <2> QED BY <1>1, <1>2, <1>3, <1>4, <2>1, SizesAssumption
  <1>5. CASE ~HeaderOf[u].has_optional_fields
    <2>1. getHeaderSize(HeaderOf[u]) = FixedSize
      BY <1>5 DEF getHeaderSize
    <2> QED BY <1>1, <1>2, <1>3, <1>5, <2>1, SizesAssumption
  <1> QED BY <1>4, <1>5

\* The first n cells of unit u.
First(u, n) == SubSeq(Cells(u), 1, n)

LEMMA FirstType ==
    ASSUME NEW u \in Unit, NEW n \in Nat, n <= Size[u]
    PROVE  First(u, n) \in Seq(Cell) /\ Len(First(u, n)) = n
  BY CellsType, PartInSeq, PartAt DEF First

\* What is read from the first bytes of a unit is what its header says.
LEMMA FirstSays ==
    ASSUME NEW u \in Unit, NEW n \in Nat, n <= Size[u],
           NEW k \in Nat, k >= 1, k <= n
    PROVE  Says(First(u, n), k) = HeaderOf[u]
  <1> DEFINE whose == {v \in Unit :
                          /\ k <= Size[v]
                          /\ SubSeq(First(u, n), 1, k) = SubSeq(Cells(v), 1, k)}
  <1>1. SubSeq(First(u, n), 1, k) = First(u, k)
    BY CellsType, PartOfPart DEF First
  <1>2. \A v \in Unit : k <= Size[v] => First(v, k)[1].unit = v
    <2> SUFFICES ASSUME NEW v \in Unit, k <= Size[v]
                 PROVE  First(v, k)[1].unit = v
      OBVIOUS
    <2>1. First(v, k)[1] = Cells(v)[1]
      BY CellsType, PartAt DEF First
    <2> QED BY <2>1, CellsType
  <1>3. u \in whose
    BY <1>1, CellsType DEF First
  <1>4. \A v \in whose : v = u
    <2> SUFFICES ASSUME NEW v \in whose PROVE v = u
      OBVIOUS
    <2>1. v \in Unit /\ k <= Size[v] /\ First(u, k) = First(v, k)
      BY <1>1 DEF First
    <2>2. First(u, k)[1].unit = u /\ First(v, k)[1].unit = v
      BY <1>2, <1>3, <2>1
    <2> QED BY Zenon, <2>1, <2>2
  <1>5. whose = {u}
    BY <1>3, <1>4
  <1>6. Says(First(u, n), k) = HeaderOf[CHOOSE v \in whose : TRUE]
    BY <1>5 DEF Says
  <1>7. (CHOOSE v \in whose : TRUE) \in whose
    BY <1>3
  <1> HIDE DEF whose
  <1> QED BY <1>5, <1>6, <1>7

LEMMA FirstHeader ==
    ASSUME NEW u \in Unit, NEW n \in Nat, n <= Size[u], FixedSize <= n
    PROVE  LET h == HeaderIn(First(u, n))
           IN  /\ h.start_code
               /\ h.length = HeaderOf[u].length
               /\ h.has_optional_fields = HeaderOf[u].has_optional_fields
               /\ FlagsSize <= n =>
                     /\ h.header_data_length = HeaderOf[u].header_data_length
                     /\ h.timestamps = HeaderOf[u].timestamps
  <1>1. Len(First(u, n)) = n
    BY FirstType
  <1>2. /\ Says(First(u, n), StartCodeSize) = HeaderOf[u]
        /\ Says(First(u, n), FixedSize) = HeaderOf[u]
        /\ FlagsSize <= n => Says(First(u, n), FlagsSize) = HeaderOf[u]
    BY FirstSays, SizesAssumption
  <1>3. FlagsSize <= n => ~(n < FlagsSize)
    BY SizesAssumption
  <1> QED BY <1>1, <1>2, <1>3, HeaderType DEF HeaderIn

\* parseHeader() succeeds exactly when all of the header is there.
LEMMA FirstParses ==
    ASSUME NEW u \in Unit, NEW n \in Nat, n <= Size[u]
    PROVE  parseHeader(First(u, n)) <=> n >= getHeaderSize(HeaderOf[u])
  <1> DEFINE h == HeaderOf[u]
             b == First(u, n)
             H == HeaderIn(b)
  <1>1. Len(b) = n
    BY FirstType
  <1>2. /\ getHeaderSize(h) \in Nat /\ FixedSize <= getHeaderSize(h)
        /\ h.has_optional_fields =>
              /\ getHeaderSize(h) = FlagsSize + h.header_data_length
              /\ h.timestamps * TimestampSize <= h.header_data_length
        /\ ~h.has_optional_fields => getHeaderSize(h) = FixedSize
        /\ h.header_data_length \in Nat /\ h.timestamps \in 0..2
    BY HeaderType
  <1>3. CASE n < FixedSize
    <2>1. ~parseHeader(b)
      BY <1>1, <1>3, SizesAssumption DEF parseHeader
    <2> QED BY <2>1, <1>2, <1>3, SizesAssumption
  <1>4. CASE n >= FixedSize
    <2>1. /\ H.start_code
          /\ H.has_optional_fields = h.has_optional_fields
          /\ FlagsSize <= n =>
                /\ H.header_data_length = h.header_data_length
                /\ H.timestamps = h.timestamps
      BY <1>4, FirstHeader, SizesAssumption
    <2>2. parseHeader(b) <=>
             (h.has_optional_fields =>
                /\ n >= FlagsSize
                /\ n >= FlagsSize + H.header_data_length
                /\ n >= FlagsSize + H.timestamps * TimestampSize)
      <3> HIDE DEF b, h
      <3>1. parseHeader(b) <=>
               /\ H.start_code
               /\ H.has_optional_fields =>
                     /\ n >= FlagsSize
                     /\ n >= FlagsSize + H.header_data_length
                     /\ n >= FlagsSize + H.timestamps * TimestampSize
        BY ZenonT(30), <1>1, <1>4 DEF parseHeader
      <3> HIDE DEF H
      <3> QED BY Zenon, <2>1, <3>1
    <2>3. CASE ~h.has_optional_fields
      BY <1>2, <1>4, <2>2, <2>3
    <2>4. CASE h.has_optional_fields /\ n < FlagsSize
      BY <1>2, <2>2, <2>4, SizesAssumption
    <2>5. CASE h.has_optional_fields /\ n >= FlagsSize
      <3>1. parseHeader(b) <=>
                /\ n >= FlagsSize + h.header_data_length
                /\ n >= FlagsSize + h.timestamps * TimestampSize
        BY <2>1, <2>2, <2>5, SizesAssumption
      <3>2. h.timestamps * TimestampSize \in Nat
        BY <1>2, SizesAssumption
      <3>3. h.timestamps * TimestampSize <= h.header_data_length
        BY <1>2, <2>5
      <3>4. (/\ n >= FlagsSize + h.header_data_length
             /\ n >= FlagsSize + h.timestamps * TimestampSize)
              <=> n >= FlagsSize + h.header_data_length
        BY <1>2, <3>2, <3>3, SizesAssumption
      <3>5. getHeaderSize(h) = FlagsSize + h.header_data_length
        BY <1>2, <2>5
      <3> QED BY Zenon, <3>1, <3>4, <3>5
    <2> QED BY <2>3, <2>4, <2>5, SizesAssumption
  <1> QED BY <1>3, <1>4, SizesAssumption

LEMMA FirstComplete ==
    ASSUME NEW u \in Unit, NEW n \in Nat, n <= Size[u], FixedSize <= n
    PROVE  CompleteAt(First(u, n), HeaderIn(First(u, n)))
              <=> CompletePrefix(u, n)
  <1>1. HeaderIn(First(u, n)).length = HeaderOf[u].length
    BY FirstHeader
  <1>2. Len(First(u, n)) = n
    BY FirstType
  <1>3. Size[u] \in Nat
    BY CellsType
  <1>4. HeaderOf[u].length = 0 \/ FixedSize + HeaderOf[u].length = Size[u]
    BY HeaderType
  <1>5. parseHeader(First(u, n)) <=> n >= getHeaderSize(HeaderOf[u])
    BY FirstParses
  <1>6. CASE HeaderOf[u].length = 0
    BY <1>1, <1>5, <1>6 DEF CompleteAt, CompletePrefix, Unbounded
  <1>7. CASE HeaderOf[u].length # 0
    BY <1>1, <1>2, <1>3, <1>4, <1>7
       DEF CompleteAt, CompletePrefix, Unbounded
  <1> QED BY <1>6, <1>7

\* Without its fixed header no unit is complete.
LEMMA ShortIncomplete ==
    ASSUME NEW u \in Unit, NEW n \in Nat, n < FixedSize
    PROVE  ~CompletePrefix(u, n)
  BY HeaderType, CellsType, SizesAssumption DEF CompletePrefix

LEMMA CompleteStays ==
    ASSUME NEW u \in Unit, NEW n \in Nat, NEW m \in Nat, n <= m, m <= Size[u],
           CompletePrefix(u, n)
    PROVE  CompletePrefix(u, m)
  BY HeaderType, CellsType DEF CompletePrefix

-----------------------------------------------------------------------------
(* The accumulator. *)

LEMMA SaysType ==
    ASSUME garbage \in GarbageHeaders, NEW b, NEW n
    PROVE  Says(b, n) \in Header
  <1> DEFINE whose == {u \in Unit :
                          /\ n <= Size[u]
                          /\ SubSeq(b, 1, n) = SubSeq(Cells(u), 1, n)}
  <1>1. CASE whose = {}
    <2>1. Says(b, n) = garbage
      BY <1>1 DEF Says
    <2> QED BY <2>1, UnitsAssumption
  <1>2. CASE whose # {}
    <2>1. Says(b, n) = HeaderOf[CHOOSE u \in whose : TRUE]
      BY <1>2 DEF Says
    <2>2. (CHOOSE u \in whose : TRUE) \in whose
      BY <1>2
    <2>3. (CHOOSE u \in whose : TRUE) \in Unit
      BY <2>2
    <2> HIDE DEF whose
    <2> QED BY <2>1, <2>3, UnitsAssumption
  <1> QED BY <1>1, <1>2

LEMMA HeaderInType ==
    ASSUME garbage \in GarbageHeaders, NEW b
    PROVE  HeaderIn(b) \in Header
  <1> DEFINE a == Says(b, StartCodeSize)
             f == Says(b, FixedSize)
             g == Says(b, FlagsSize)
  <1>1. a \in Header /\ f \in Header /\ g \in Header
    BY SaysType
  <1>2. HeaderIn(b) =
          [start_code |-> a.start_code, length |-> f.length,
           has_optional_fields |-> f.has_optional_fields,
           header_data_length |-> IF Len(b) < FlagsSize THEN 0
                                  ELSE g.header_data_length,
           timestamps |-> IF Len(b) < FlagsSize THEN 0 ELSE g.timestamps]
    BY DEF HeaderIn
  <1> HIDE DEF a, f, g
  <1> QED BY <1>1, <1>2 DEF Header

LEMMA ResetType ==
    /\ Reset \in Accumulator /\ Started \in Accumulator
    /\ Reset.buffer = <<>> /\ Started.buffer = <<>>
    /\ ~Reset.synced /\ Started.synced
    /\ ~Reset.complete /\ ~Started.complete
  BY EmptyInSeq DEF Reset, Started, Accumulator

LEMMA CheckedType ==
    ASSUME garbage \in GarbageHeaders, NEW acc \in Accumulator
    PROVE  /\ Checked(acc) \in Accumulator
           /\ Checked(acc).synced => acc.synced
           /\ Checked(acc).complete => Checked(acc).synced \/ ~acc.synced
  <1> DEFINE h == HeaderIn(acc.buffer)
             c == acc.complete \/ CompleteAt(acc.buffer, h)
             e == IF h.length > 0 THEN FixedSize + h.length
                  ELSE acc.expected_length
  <1>1. h \in Header
    BY HeaderInType
  <1>2. h.length \in Nat
    BY <1>1 DEF Header
  <1>3. /\ acc.buffer \in Seq(Cell) /\ acc.expected_length \in Nat
        /\ acc.synced \in BOOLEAN /\ acc.complete \in BOOLEAN
    BY DEF Accumulator
  <1>5. c \in BOOLEAN
    BY Zenon
  <1>6. e \in Nat
    BY <1>2, <1>3, SizesAssumption
  <1>7. Checked(acc) =
          IF Len(acc.buffer) < FixedSize THEN acc
          ELSE IF ~h.start_code THEN Reset
          ELSE [buffer |-> acc.buffer, expected_length |-> e,
                synced |-> acc.synced, complete |-> c]
    BY DEF Checked
  <1>8. CASE Checked(acc) = acc
    BY <1>8, <1>3
  <1>9. CASE Checked(acc) = Reset
    BY <1>9, ResetType
  <1>10. CASE Checked(acc) = [buffer |-> acc.buffer, expected_length |-> e,
                              synced |-> acc.synced, complete |-> c]
    <2> HIDE DEF c, e
    <2>1. Checked(acc) \in Accumulator
      BY <1>3, <1>5, <1>6, <1>10 DEF Accumulator
    <2>2. Checked(acc).synced = acc.synced
      BY <1>10
    <2> QED BY <1>3, <2>1, <2>2
  <1> QED BY <1>7, <1>8, <1>9, <1>10

\* Accumulator acc holds exactly the first n cells of unit u.
Holds(acc, u, n) ==
    /\ acc \in Accumulator
    /\ acc.synced
    /\ n \in Nat /\ 1 <= n /\ n <= Size[u]
    /\ acc.buffer = First(u, n)
    /\ acc.complete <=> CompletePrefix(u, n)

LEMMA CheckedHolds ==
    ASSUME garbage \in GarbageHeaders, NEW acc \in Accumulator, acc.synced,
           NEW u \in Unit, NEW n \in Nat, 1 <= n, n <= Size[u],
           acc.buffer = First(u, n), acc.complete => CompletePrefix(u, n)
    PROVE  Holds(Checked(acc), u, n)
  <1>1. Checked(acc) \in Accumulator
    BY CheckedType
  <1>2. Len(acc.buffer) = n
    BY FirstType
  <1>3. /\ acc.synced \in BOOLEAN /\ acc.complete \in BOOLEAN
        /\ acc.buffer \in Seq(Cell)
    BY DEF Accumulator
  <1>4. CASE n < FixedSize
    <2>1. Checked(acc) = acc
      BY <1>2, <1>4 DEF Checked
    <2>2. ~CompletePrefix(u, n)
      BY <1>4, ShortIncomplete
    <2> QED BY <1>3, <2>1, <2>2 DEF Holds
  <1>5. CASE FixedSize <= n
    <2> DEFINE h == HeaderIn(acc.buffer)
               c == acc.complete \/ CompleteAt(acc.buffer, h)
    <2>1. h.start_code
      BY <1>5, FirstHeader
    <2>2. c <=> CompletePrefix(u, n)
      BY Zenon, <1>5, FirstComplete
    <2>3. ~(Len(acc.buffer) < FixedSize)
      BY <1>2, <1>5, SizesAssumption
    <2>4. /\ Checked(acc).buffer = acc.buffer
          /\ Checked(acc).synced = acc.synced
          /\ Checked(acc).complete = c
      BY <2>1, <2>3 DEF Checked
    <2> HIDE DEF c, h
    <2> QED BY <1>1, <2>2, <2>4 DEF Holds
  <1> QED BY <1>4, <1>5, SizesAssumption

LEMMA AppendType ==
    ASSUME NEW acc \in Accumulator, NEW data \in Seq(Cell)
    PROVE  LET more == [acc EXCEPT !.buffer = @ \o data]
           IN  /\ more \in Accumulator
               /\ more.buffer = acc.buffer \o data
               /\ more.synced = acc.synced
               /\ more.complete = acc.complete
  <1>1. acc.buffer \o data \in Seq(Cell)
    BY ConcatInSeq DEF Accumulator
  <1> QED BY <1>1 DEF Accumulator

\* One call of addData() on any accumulator.
LEMMA addDataType ==
    ASSUME garbage \in GarbageHeaders, NEW acc \in Accumulator,
           NEW data \in Seq(Cell), NEW start \in BOOLEAN,
           acc.complete => acc.synced
    PROVE  LET new == addData(acc, data, start)
           IN  /\ new \in Accumulator
               /\ new.complete => new.synced
               /\ new.synced => acc.synced \/ start
  <1> DEFINE s == IF start THEN Started ELSE acc
             more == [s EXCEPT !.buffer = @ \o data]
  <1>1. /\ s \in Accumulator
        /\ s.complete => s.synced
        /\ s.synced => acc.synced \/ start
    BY ResetType
  <1>2. addData(acc, data, start) =
            IF data = <<>> THEN acc ELSE IF ~s.synced THEN s ELSE Checked(more)
    BY DEF addData
  <1> HIDE DEF s
  <1>3. /\ more \in Accumulator
        /\ more.synced = s.synced /\ more.complete = s.complete
    BY <1>1, AppendType
  <1> HIDE DEF more
  <1>4. /\ Checked(more) \in Accumulator
        /\ Checked(more).synced => more.synced
        /\ Checked(more).complete => Checked(more).synced \/ ~more.synced
    BY <1>3, CheckedType
  <1> QED BY <1>1, <1>2, <1>3, <1>4

LEMMA AddStart ==
    ASSUME garbage \in GarbageHeaders, NEW acc \in Accumulator,
           NEW u \in Unit, NEW k \in Nat, 1 <= k, k <= Size[u]
    PROVE  Holds(addData(acc, First(u, k), TRUE), u, k)
  <1> DEFINE more == [Started EXCEPT !.buffer = @ \o First(u, k)]
  <1>1. First(u, k) \in Seq(Cell) /\ First(u, k) # <<>>
    BY FirstType
  <1>2. addData(acc, First(u, k), TRUE) = Checked(more)
    BY <1>1, ResetType DEF addData
  <1>3. /\ more \in Accumulator /\ more.synced /\ ~more.complete
        /\ more.buffer = <<>> \o First(u, k)
    BY <1>1, ResetType, AppendType
  <1>4. <<>> \o First(u, k) = First(u, k)
    BY <1>1
  <1> HIDE DEF more
  <1> QED BY <1>2, <1>3, <1>4, CheckedHolds

\* The cells of unit u from the n-th on.
Behind(u, n) == SubSeq(Cells(u), n + 1, Size[u])

LEMMA BehindType ==
    ASSUME NEW u \in Unit, NEW n \in Nat, n <= Size[u]
    PROVE  /\ Behind(u, n) \in Seq(Cell)
           /\ Len(Behind(u, n)) = Size[u] - n
           /\ \A k \in Nat : k <= Size[u] - n =>
                 /\ SubSeq(Behind(u, n), 1, k) \in Seq(Cell)
                 /\ Len(SubSeq(Behind(u, n), 1, k)) = k
                 /\ SubSeq(Behind(u, n), k + 1, Len(Behind(u, n)))
                        = Behind(u, n + k)
                 /\ First(u, n) \o SubSeq(Behind(u, n), 1, k)
                        = First(u, n + k)
  <1>1. Size[u] \in Nat /\ Cells(u) \in Seq(Cell) /\ Len(Cells(u)) = Size[u]
    BY CellsType
  <1>2. /\ Behind(u, n) \in Seq(Cell)
        /\ Len(Behind(u, n)) = Size[u] - n
    BY <1>1, PartInSeq, PartAt DEF Behind
  <1>3. ASSUME NEW k \in Nat, k <= Size[u] - n
        PROVE  /\ SubSeq(Behind(u, n), 1, k) \in Seq(Cell)
               /\ Len(SubSeq(Behind(u, n), 1, k)) = k
               /\ SubSeq(Behind(u, n), k + 1, Len(Behind(u, n)))
                      = Behind(u, n + k)
               /\ First(u, n) \o SubSeq(Behind(u, n), 1, k)
                      = First(u, n + k)
    <2>1. SubSeq(Behind(u, n), 1, k) = SubSeq(Cells(u), n + 1, n + k)
      <3>1. SubSeq(SubSeq(Cells(u), n + 1, Size[u]), 1, k)
              = SubSeq(Cells(u), (n + 1) + 1 - 1, (n + 1) + k - 1)
        BY <1>1, <1>3, PartOfPart
      <3>2. (n + 1) + 1 - 1 = n + 1 /\ (n + 1) + k - 1 = n + k
        OBVIOUS
      <3> QED BY <3>1, <3>2 DEF Behind
    <2>2. SubSeq(Behind(u, n), k + 1, Len(Behind(u, n))) = Behind(u, n + k)
      <3> DEFINE l == Size[u] - n
      <3>1. /\ l \in Nat /\ n + 1 \in Nat /\ k + 1 \in Nat
            /\ n + 1 >= 1 /\ n + 1 <= Size[u] + 1 /\ Size[u] <= Len(Cells(u))
            /\ k + 1 >= 1 /\ k + 1 <= l + 1 /\ l <= Size[u] - (n + 1) + 1
        BY <1>1, <1>3
      <3>2. SubSeq(SubSeq(Cells(u), n + 1, Size[u]), k + 1, l)
              = SubSeq(Cells(u), (n + 1) + (k + 1) - 1, (n + 1) + l - 1)
        <4> HIDE DEF l
        <4> QED BY <1>1, <3>1, PartOfPart
      <3>3. (n + 1) + (k + 1) - 1 = (n + k) + 1 /\ (n + 1) + l - 1 = Size[u]
        BY <1>1
      <3> QED BY <1>2, <3>2, <3>3 DEF Behind
    <2>3. First(u, n) \o SubSeq(Cells(u), n + 1, n + k) = First(u, n + k)
      BY <1>1, <1>3, JoinParts DEF First
    <2>4. /\ SubSeq(Behind(u, n), 1, k) \in Seq(Cell)
          /\ Len(SubSeq(Behind(u, n), 1, k)) = k
      BY <1>1, <1>2, <1>3, PartInSeq, PartAt
    <2> QED BY <2>1, <2>2, <2>3, <2>4
  <1> QED BY <1>2, <1>3

LEMMA AddMore ==
    ASSUME garbage \in GarbageHeaders, NEW acc \in Accumulator,
           NEW u \in Unit, NEW n \in Nat, Holds(acc, u, n),
           NEW k \in Nat, 1 <= k, k <= Size[u] - n
    PROVE  Holds(addData(acc, SubSeq(Behind(u, n), 1, k), FALSE), u, n + k)
  <1> DEFINE data == SubSeq(Behind(u, n), 1, k)
             more == [acc EXCEPT !.buffer = @ \o data]
  <1>1. /\ n <= Size[u] /\ acc.synced /\ acc.buffer = First(u, n)
        /\ acc.complete <=> CompletePrefix(u, n)
    BY DEF Holds
  <1>2. /\ data \in Seq(Cell) /\ Len(data) = k
        /\ First(u, n) \o data = First(u, n + k)
    BY <1>1, BehindType
  <1>3. data # <<>>
    <2> HIDE DEF data
    <2> QED BY <1>2, EmptyInSeq
  <1>4. addData(acc, data, FALSE) = Checked(more)
    BY <1>1, <1>3 DEF addData
  <1>5. /\ more \in Accumulator /\ more.synced
        /\ more.buffer = First(u, n + k)
        /\ more.complete = acc.complete
    BY <1>1, <1>2, AppendType
  <1>6. Size[u] \in Nat /\ n + k \in Nat /\ 1 <= n + k /\ n + k <= Size[u]
    BY <1>1, CellsType
  <1>7. more.complete => CompletePrefix(u, n + k)
    BY <1>1, <1>5, <1>6, CompleteStays
  <1> HIDE DEF more, data
  <1>8. Holds(Checked(more), u, n + k)
    BY <1>5, <1>6, <1>7, CheckedHolds
  <1> QED BY <1>4, <1>8 DEF data

-----------------------------------------------------------------------------
(* What getPacket() hands out. *)

LEMMA TimestampPart ==
    ASSUME NEW b \in Seq(Cell), NEW k \in {1, 2},
           FlagsSize + k * TimestampSize <= Len(b)
    PROVE  Timestamp(b, k) \in Seq(Cell)
  <1> DEFINE l == FlagsSize + (k - 1) * TimestampSize + 1
             r == FlagsSize + k * TimestampSize
  <1>1. /\ l \in Nat /\ l >= 1
        /\ r \in Nat
    <2>1. CASE k = 1
      BY <2>1, SizesAssumption
    <2>2. CASE k = 2
      BY <2>2, SizesAssumption
    <2> QED BY <2>1, <2>2
  <1>2. r <= Len(b)
    OBVIOUS
  <1>3. Timestamp(b, k) = SubSeq(b, l, r)
    BY DEF Timestamp
  <1> HIDE DEF l, r
  <1> QED BY <1>1, <1>2, <1>3, PartInSeq

LEMMA IntoType ==
    ASSUME garbage \in GarbageHeaders, NEW p \in PESPacket,
           NEW b \in Seq(Cell)
    PROVE  HeaderInto(p, b) \in PESPacket
  <1> DEFINE h == HeaderIn(b)
             flags == h.has_optional_fields /\ Len(b) >= FlagsSize
             fits(k) == /\ flags
                        /\ h.timestamps >= k
                        /\ Len(b) >= FlagsSize + h.header_data_length
                        /\ Len(b) >= FlagsSize + k * TimestampSize
             ts == IF flags THEN h.timestamps ELSE p.timestamps
             pts == IF fits(1) THEN Timestamp(b, 1) ELSE p.pts
             dts == IF fits(2) THEN Timestamp(b, 2) ELSE p.dts
             o == h.has_optional_fields
  <1>1. h \in Header
    BY HeaderInType
  <1>2. o \in BOOLEAN /\ h.timestamps \in 0..2
    BY <1>1 DEF Header
  <1>3. ts \in 0..2
    <2> HIDE DEF flags
    <2> QED BY <1>2 DEF PESPacket
  <1>4. pts \in Seq(Cell)
    <2>1. CASE fits(1)
      <3>1. FlagsSize + 1 * TimestampSize <= Len(b)
        BY <2>1, SizesAssumption
      <3>2. Timestamp(b, 1) \in Seq(Cell)
        BY <3>1, TimestampPart
      <3> QED BY <2>1, <3>2
    <2>2. CASE ~fits(1)
      BY <2>2 DEF PESPacket
    <2> QED BY <2>1, <2>2
  <1>5. dts \in Seq(Cell)
    <2>1. CASE fits(2)
      <3>1. FlagsSize + 2 * TimestampSize <= Len(b)
        BY <2>1, SizesAssumption
      <3>2. Timestamp(b, 2) \in Seq(Cell)
        BY <3>1, TimestampPart
      <3> QED BY <2>1, <3>2
    <2>2. CASE ~fits(2)
      BY <2>2 DEF PESPacket
    <2> QED BY <2>1, <2>2
  <1>6. HeaderInto(p, b) =
          [p EXCEPT !.has_optional_fields = o, !.timestamps = ts,
                    !.pts = pts, !.dts = dts]
    BY Zenon DEF HeaderInto
  <1> HIDE DEF ts, pts, dts, o
  <1> QED BY <1>2, <1>3, <1>4, <1>5, <1>6 DEF PESPacket

LEMMA PayloadType ==
    ASSUME garbage \in GarbageHeaders, NEW b \in Seq(Cell), parseHeader(b)
    PROVE  Payload(b) \in Seq(Cell)
  <1> DEFINE h == HeaderIn(b)
  <1>1. h \in Header
    BY HeaderInType
  <1>2. h.header_data_length \in Nat /\ h.has_optional_fields \in BOOLEAN
    BY <1>1 DEF Header
  <1>3. getHeaderSize(h) \in Nat
    BY <1>2, SizesAssumption DEF getHeaderSize
  <1>4. Payload(b) = SubSeq(b, getHeaderSize(h) + 1, Len(b))
    BY DEF Payload
  <1> HIDE DEF h
  <1> QED BY <1>3, <1>4, PartInSeq

LEMMA parsePacketType ==
    ASSUME garbage \in GarbageHeaders, NEW p \in PESPacket,
           NEW b \in Seq(Cell)
    PROVE  parsePacket(p, b) \in PESPacket
  <1>1. HeaderInto(p, b) \in PESPacket
    BY IntoType
  <1>2. CASE parseHeader(b)
    <2>1. Payload(b) \in Seq(Cell)
      BY <1>2, PayloadType
    <2>2. [HeaderInto(p, b) EXCEPT !.payload = Payload(b)] \in PESPacket
      BY <1>1, <2>1 DEF PESPacket
    <2> QED BY <1>2, <2>2 DEF parsePacket
  <1>3. CASE ~parseHeader(b)
    BY <1>1, <1>3 DEF parsePacket
  <1> QED BY <1>2, <1>3

\* The header of a buffer that begins with all of a unit's header.
LEMMA WholeHeader ==
    ASSUME NEW u \in Unit, NEW n \in Nat, n <= Size[u],
           n >= getHeaderSize(HeaderOf[u])
    PROVE  LET h == HeaderIn(First(u, n))
           IN  /\ h.has_optional_fields = HeaderOf[u].has_optional_fields
               /\ getHeaderSize(h) = getHeaderSize(HeaderOf[u])
               /\ h.has_optional_fields =>
                     /\ n >= FlagsSize
                     /\ h.timestamps = HeaderOf[u].timestamps
                     /\ h.header_data_length = HeaderOf[u].header_data_length
  <1> DEFINE h == HeaderIn(First(u, n))
  <1>1. FixedSize <= n
    BY HeaderType, SizesAssumption
  <1>2. h.has_optional_fields = HeaderOf[u].has_optional_fields
    BY <1>1, FirstHeader
  <1>3. HeaderOf[u].has_optional_fields => FlagsSize <= n
    BY HeaderType, SizesAssumption
  <1>4. HeaderOf[u].has_optional_fields =>
            /\ h.timestamps = HeaderOf[u].timestamps
            /\ h.header_data_length = HeaderOf[u].header_data_length
    BY <1>1, <1>3, FirstHeader
  <1> HIDE DEF h
  <1>5. getHeaderSize(h) = getHeaderSize(HeaderOf[u])
    BY <1>2, <1>4 DEF getHeaderSize
  <1>6. FlagsSize <= n => n >= FlagsSize
    BY SizesAssumption
  <1> QED BY <1>2, <1>3, <1>4, <1>5, <1>6 DEF h

LEMMA FirstTimestamp ==
    ASSUME NEW u \in Unit, NEW n \in Nat, n <= Size[u], NEW k \in {1, 2},
           FlagsSize + k * TimestampSize <= n
    PROVE  Timestamp(First(u, n), k) = Timestamp(Cells(u), k)
  <1> DEFINE l == FlagsSize + (k - 1) * TimestampSize + 1
             r == FlagsSize + k * TimestampSize
  <1>1. /\ l \in Nat /\ l >= 1 /\ r \in Nat
        /\ l <= r + 1
    <2>1. CASE k = 1
      BY <2>1, SizesAssumption
    <2>2. CASE k = 2
      BY <2>2, SizesAssumption
    <2> QED BY <2>1, <2>2
  <1>2. r <= n
    OBVIOUS
  <1>3. /\ Timestamp(First(u, n), k) = SubSeq(SubSeq(Cells(u), 1, n), l, r)
        /\ Timestamp(Cells(u), k) = SubSeq(Cells(u), l, r)
    BY DEF Timestamp, First
  <1> HIDE DEF l, r
  <1>4. Cells(u) \in Seq(Cell) /\ Len(Cells(u)) = Size[u] /\ Size[u] \in Nat
    BY CellsType
  <1>5. SubSeq(SubSeq(Cells(u), 1, n), l, r)
            = SubSeq(Cells(u), 1 + l - 1, 1 + r - 1)
    BY <1>1, <1>2, <1>4, PartOfPart
  <1>6. 1 + l - 1 = l /\ 1 + r - 1 = r
    BY <1>1
  <1> QED BY <1>3, <1>5, <1>6

\* What a packet taken from a buffer that holds n cells of u has in it.
TakenFrom(p, u, n) ==
    /\ p.payload = SubSeq(Cells(u), getHeaderSize(HeaderOf[u]) + 1, n)
    /\ p.has_optional_fields = HeaderOf[u].has_optional_fields
    /\ HeaderOf[u].has_optional_fields =>
          /\ p.timestamps = HeaderOf[u].timestamps
          /\ HeaderOf[u].timestamps >= 1 => p.pts = Timestamp(Cells(u), 1)
          /\ HeaderOf[u].timestamps = 2 => p.dts = Timestamp(Cells(u), 2)

LEMMA FirstTaken ==
    ASSUME NEW u \in Unit, NEW n \in Nat, n <= Size[u], NEW p \in PESPacket,
           parseHeader(First(u, n)), garbage \in GarbageHeaders
    PROVE  TakenFrom(parsePacket(p, First(u, n)), u, n)
  <1> DEFINE b == First(u, n)
             h == HeaderIn(b)
             t == HeaderOf[u]
             into == HeaderInto(p, b)
             new == [into EXCEPT !.payload = Payload(b)]
             s == getHeaderSize(t)
  <1>1. n >= s
    BY FirstParses
  <1>2. /\ h.has_optional_fields = t.has_optional_fields
        /\ getHeaderSize(h) = s
        /\ h.has_optional_fields =>
              /\ n >= FlagsSize
              /\ h.timestamps = t.timestamps
              /\ h.header_data_length = t.header_data_length
    BY <1>1, WholeHeader
  <1>3. b \in Seq(Cell) /\ Len(b) = n
    BY FirstType
  <1>4. parsePacket(p, b) = new
    BY DEF parsePacket
  <1>5. into \in PESPacket
    BY <1>3, IntoType
  <1>6. /\ new.payload = Payload(b)
        /\ new.has_optional_fields = into.has_optional_fields
        /\ new.timestamps = into.timestamps
        /\ new.pts = into.pts /\ new.dts = into.dts
    <2> HIDE DEF into
    <2> QED BY <1>5 DEF PESPacket
  <1>7. Payload(b) = SubSeq(Cells(u), s + 1, n)
    <2>1. Payload(b) = SubSeq(SubSeq(Cells(u), 1, n), s + 1, n)
      BY <1>2, <1>3 DEF Payload, First
    <2>2. s \in Nat /\ s + 1 \in Nat /\ s + 1 >= 1 /\ s + 1 <= n + 1
      BY <1>1, HeaderType
    <2>3. /\ Cells(u) \in Seq(Cell) /\ Len(Cells(u)) = Size[u]
          /\ Size[u] \in Nat
      BY CellsType
    <2> HIDE DEF s
    <2>4. SubSeq(SubSeq(Cells(u), 1, n), s + 1, n)
             = SubSeq(Cells(u), 1 + (s + 1) - 1, 1 + n - 1)
      BY <2>2, <2>3, PartOfPart
    <2>5. 1 + (s + 1) - 1 = s + 1 /\ 1 + n - 1 = n
      BY <2>2
    <2> QED BY <2>1, <2>4, <2>5
  <1>8. into.has_optional_fields = h.has_optional_fields
    BY DEF HeaderInto, PESPacket
  <1>9. ASSUME t.has_optional_fields
        PROVE  /\ into.timestamps = t.timestamps
               /\ t.timestamps >= 1 => into.pts = Timestamp(Cells(u), 1)
               /\ t.timestamps = 2 => into.dts = Timestamp(Cells(u), 2)
    <2> DEFINE flags == h.has_optional_fields /\ Len(b) >= FlagsSize
               fits(k) == /\ flags
                          /\ h.timestamps >= k
                          /\ Len(b) >= FlagsSize + h.header_data_length
                          /\ Len(b) >= FlagsSize + k * TimestampSize
    <2>1. flags
      BY <1>2, <1>3, <1>9
    <2>2. /\ t.timestamps \in 0..2 /\ t.header_data_length \in Nat
          /\ s = FlagsSize + t.header_data_length
          /\ t.timestamps * TimestampSize <= t.header_data_length
      BY <1>9, HeaderType
    <2>3. Len(b) >= FlagsSize + h.header_data_length
      BY <1>1, <1>2, <1>3, <1>9, <2>2
    <2>4. t.timestamps >= 1 => FlagsSize + 1 * TimestampSize <= n
      BY <1>1, <2>2, SizesAssumption
    <2>5. t.timestamps = 2 => FlagsSize + 2 * TimestampSize <= n
      BY <1>1, <2>2, SizesAssumption
    <2>6. t.timestamps >= 1 => fits(1)
      BY <1>2, <1>3, <1>9, <2>1, <2>3, <2>4, SizesAssumption
    <2>7. t.timestamps = 2 => fits(2)
      BY <1>2, <1>3, <1>9, <2>1, <2>3, <2>5, SizesAssumption
    <2>8. /\ into.timestamps = IF flags THEN h.timestamps ELSE p.timestamps
          /\ into.pts = IF fits(1) THEN Timestamp(b, 1) ELSE p.pts
          /\ into.dts = IF fits(2) THEN Timestamp(b, 2) ELSE p.dts
      <3>1. into =
              [p EXCEPT !.has_optional_fields = h.has_optional_fields,
                 !.timestamps = IF flags THEN h.timestamps ELSE p.timestamps,
                 !.pts = IF fits(1) THEN Timestamp(b, 1) ELSE p.pts,
                 !.dts = IF fits(2) THEN Timestamp(b, 2) ELSE p.dts]
        BY Zenon DEF HeaderInto
      <3> HIDE DEF into, h, flags, fits, b
      <3> QED BY <3>1 DEF PESPacket
    <2>9. t.timestamps >= 1 => Timestamp(b, 1) = Timestamp(Cells(u), 1)
      BY <2>4, FirstTimestamp
    <2>10. t.timestamps = 2 => Timestamp(b, 2) = Timestamp(Cells(u), 2)
      BY <2>5, FirstTimestamp
    <2> HIDE DEF into, fits, flags, h, b
    <2> QED BY <1>2, <1>9, <2>1, <2>6, <2>7, <2>8, <2>9, <2>10
  <1> HIDE DEF into, new, h, b, s
  <1>10. TakenFrom(new, u, n)
    BY <1>2, <1>6, <1>7, <1>8, <1>9 DEF TakenFrom, s
  <1> QED BY <1>4, <1>10 DEF b

-----------------------------------------------------------------------------
(* The inductive invariant. *)

\* Accumulator acc of a PID, with what whole, clean and rest say of the PID.
AccumulatorOK(acc, w, c) ==
    /\ acc \in Accumulator
    /\ acc.complete => acc.synced
    /\ c /\ acc.synced => w # {}

PidOK(pid) ==
    /\ pid \in DOMAIN accumulators =>
          AccumulatorOK(accumulators[pid], whole[pid], clean[pid])
    /\ \A w \in whole[pid] :
          /\ w \in Whole
          /\ pid \in DOMAIN accumulators
          /\ Holds(accumulators[pid], w.unit, w.n)
          /\ clean[pid] => rest[pid] = Behind(w.unit, w.n)
    /\ \/ rest[pid] = <<>>
       \/ \E u \in Unit, n \in Nat : n <= Size[u] /\ rest[pid] = Behind(u, n)

TakenOK ==
    \A t \in taken :
        /\ t.clean => t.whole # {}
        /\ \A w \in t.whole : /\ CompletePrefix(w.unit, w.n)
                              /\ TakenFrom(packet, w.unit, w.n)

IInv == Types /\ (\A pid \in Pid : PidOK(pid)) /\ TakenOK

\* A step that leaves alone all that PidOK speaks of.
LEMMA OtherPid ==
    ASSUME NEW q \in Pid, PidOK(q),
           q \in DOMAIN accumulators' <=> q \in DOMAIN accumulators,
           q \in DOMAIN accumulators => accumulators'[q] = accumulators[q],
           whole'[q] = whole[q], clean'[q] = clean[q], rest'[q] = rest[q]
    PROVE  PidOK(q)'
  BY DEF PidOK

\* What getAccumulator() gives, existing or new.
LEMMA GetType ==
    ASSUME NEW pid \in Pid, PidOK(pid)
    PROVE  LET acc == getAccumulator(pid)
           IN  /\ acc \in Accumulator
               /\ acc.complete => acc.synced
               /\ clean[pid] /\ acc.synced => whole[pid] # {}
  <1>1. CASE pid \in DOMAIN accumulators
    BY <1>1 DEF PidOK, AccumulatorOK, getAccumulator
  <1>2. CASE pid \notin DOMAIN accumulators
    BY <1>2, ResetType DEF getAccumulator
  <1> QED BY <1>1, <1>2

LEMMA WithType ==
    ASSUME Types, NEW pid \in Pid, NEW acc \in Accumulator,
           accumulators' = With(pid, acc)
    PROVE  /\ DOMAIN accumulators' \subseteq Pid
           /\ accumulators' \in [DOMAIN accumulators' -> Accumulator]
           /\ pid \in DOMAIN accumulators' /\ accumulators'[pid] = acc
           /\ \A q \in Pid \ {pid} :
                 /\ q \in DOMAIN accumulators' <=> q \in DOMAIN accumulators
                 /\ q \in DOMAIN accumulators =>
                       accumulators'[q] = accumulators[q]
  BY DEF Types, With

\* A payload of the sender, whatever becomes of it: data is the beginning of
\* a unit, or of what is left of one.
Payloads(pid, u, data, start) ==
    /\ data \in Seq(Cell) /\ Len(data) >= 1
    /\ IF start
       THEN \E k \in Nat : /\ 1 <= k /\ k <= Size[u]
                           /\ data = First(u, k)
                           /\ rest' = [rest EXCEPT ![pid] = Behind(u, k)]
       ELSE \E v \in Unit, n \in Nat, k \in Nat :
               /\ 1 <= k /\ k <= Size[v] - n /\ n <= Size[v]
               /\ rest[pid] = Behind(v, n)
               /\ data = SubSeq(Behind(v, n), 1, k)
               /\ rest' = [rest EXCEPT ![pid] = Behind(v, n + k)]

LEMMA RestKeeps ==
    ASSUME IInv, NEW pid \in Pid, NEW u \in Unit, NEW data,
           NEW start \in BOOLEAN, Payloads(pid, u, data, start)
    PROVE  /\ rest' \in [Pid -> Seq(Cell)]
           /\ \A q \in Pid \ {pid} : rest'[q] = rest[q]
           /\ \E v \in Unit, n \in Nat :
                 n <= Size[v] /\ rest'[pid] = Behind(v, n)
  <1>1. rest \in [Pid -> Seq(Cell)]
    BY DEF IInv, Types
  <1>2. PICK v \in Unit, n \in Nat :
            n <= Size[v] /\ rest' = [rest EXCEPT ![pid] = Behind(v, n)]
    <2>1. CASE start
      BY <2>1 DEF Payloads
    <2>2. CASE ~start
      <3>1. PICK v \in Unit, n \in Nat, k \in Nat :
                /\ k <= Size[v] - n /\ n <= Size[v]
                /\ rest' = [rest EXCEPT ![pid] = Behind(v, n + k)]
        BY <2>2 DEF Payloads
      <3>2. n + k \in Nat /\ n + k <= Size[v]
        BY <3>1, CellsType
      <3> QED BY <3>1, <3>2
    <2> QED BY <2>1, <2>2
  <1>3. Behind(v, n) \in Seq(Cell)
    BY <1>2, BehindType
  <1> QED BY <1>1, <1>2, <1>3

\* whole after a payload that was added once.
LEMMA AddedKeeps ==
    ASSUME IInv, NEW pid \in Pid, NEW u \in Unit, NEW data,
           NEW start \in BOOLEAN, Payloads(pid, u, data, start),
           Arrives(pid, u, data, start)
    PROVE  /\ PidOK(pid)'
           /\ DOMAIN accumulators' \subseteq Pid
           /\ accumulators' \in [DOMAIN accumulators' -> Accumulator]
           /\ \A q \in Pid \ {pid} :
                 /\ q \in DOMAIN accumulators' <=> q \in DOMAIN accumulators
                 /\ q \in DOMAIN accumulators =>
                       accumulators'[q] = accumulators[q]
           /\ whole'[pid] \in SUBSET Whole
  <1> DEFINE old == getAccumulator(pid)
             new == addData(old, data, start)
  <1>1. PidOK(pid) /\ garbage \in GarbageHeaders /\ data \in Seq(Cell)
    BY DEF IInv, Types, Payloads
  <1>2. /\ old \in Accumulator
        /\ old.complete => old.synced
        /\ clean[pid] /\ old.synced => whole[pid] # {}
    BY <1>1, GetType
  <1> HIDE DEF old
  <1>3. /\ new \in Accumulator
        /\ new.complete => new.synced
        /\ new.synced => old.synced \/ start
    BY <1>1, <1>2, addDataType
  <1> HIDE DEF new
  <1>4. accumulators' = With(pid, new)
    BY DEF Arrives, Added, new, old
  <1>5. /\ DOMAIN accumulators' \subseteq Pid
        /\ accumulators' \in [DOMAIN accumulators' -> Accumulator]
        /\ pid \in DOMAIN accumulators' /\ accumulators'[pid] = new
        /\ \A q \in Pid \ {pid} :
              /\ q \in DOMAIN accumulators' <=> q \in DOMAIN accumulators
              /\ q \in DOMAIN accumulators =>
                    accumulators'[q] = accumulators[q]
    BY <1>3, <1>4, WithType DEF IInv
  <1>6. /\ clean'[pid] <=> start \/ clean[pid]
        /\ whole'[pid] =
              IF start THEN {[unit |-> u, n |-> Len(data)]}
              ELSE IF clean[pid]
              THEN {[w EXCEPT !.n = @ + Len(data)] : w \in whole[pid]}
              ELSE {}
    BY DEF Arrives, IInv, Types
  <1>7. \E v \in Unit, n \in Nat : n <= Size[v] /\ rest'[pid] = Behind(v, n)
    BY RestKeeps
  <1>8. \A w \in whole'[pid] :
            /\ w \in Whole
            /\ Holds(new, w.unit, w.n)
            /\ clean'[pid] => rest'[pid] = Behind(w.unit, w.n)
    <2>1. CASE start
      <3>1. PICK k \in Nat : /\ 1 <= k /\ k <= Size[u]
                             /\ data = First(u, k)
                             /\ rest' = [rest EXCEPT ![pid] = Behind(u, k)]
        BY <2>1 DEF Payloads
      <3>2. Len(data) = k
        BY <3>1, FirstType
      <3>3. rest'[pid] = Behind(u, k)
        BY <3>1 DEF IInv, Types
      <3>4. Holds(new, u, k)
        BY <1>1, <1>2, <2>1, <3>1, AddStart DEF new
      <3>5. whole'[pid] = {[unit |-> u, n |-> k]}
        BY <1>6, <2>1, <3>2
      <3> QED BY <3>3, <3>4, <3>5 DEF Whole
    <2>2. CASE ~start /\ clean[pid]
      <3> SUFFICES ASSUME NEW w \in whole'[pid]
                   PROVE  /\ w \in Whole
                          /\ Holds(new, w.unit, w.n)
                          /\ clean'[pid] => rest'[pid] = Behind(w.unit, w.n)
        OBVIOUS
      <3>0. PICK o \in whole[pid] : w = [o EXCEPT !.n = @ + Len(data)]
        BY <1>6, <2>2
      <3>1. /\ o \in Whole /\ pid \in DOMAIN accumulators
            /\ Holds(accumulators[pid], o.unit, o.n)
            /\ rest[pid] = Behind(o.unit, o.n)
        BY <1>1, <2>2 DEF PidOK
      <3>2. o.unit \in Unit /\ o.n \in Nat
        BY <3>1 DEF Whole
      <3>3. old = accumulators[pid]
        BY <3>1 DEF getAccumulator, old
      <3>4. PICK v \in Unit, n \in Nat, k \in Nat :
               /\ 1 <= k /\ k <= Size[v] - n /\ n <= Size[v]
               /\ rest[pid] = Behind(v, n)
               /\ data = SubSeq(Behind(v, n), 1, k)
               /\ rest' = [rest EXCEPT ![pid] = Behind(v, n + k)]
        BY <2>2 DEF Payloads
      <3>5. o.n <= Size[o.unit]
        BY <3>1 DEF Holds
      <3>6. /\ Len(rest[pid]) = Size[v] - n
            /\ Len(rest[pid]) = Size[o.unit] - o.n
            /\ Len(data) = k
        <4>1. /\ Len(Behind(v, n)) = Size[v] - n
              /\ Len(SubSeq(Behind(v, n), 1, k)) = k
          BY <3>4, BehindType
        <4>2. Len(Behind(o.unit, o.n)) = Size[o.unit] - o.n
          BY <3>2, <3>5, BehindType
        <4> QED BY Zenon, <3>1, <3>4, <4>1, <4>2
      <3>7. k <= Size[o.unit] - o.n
        BY <3>4, <3>6
      <3>8. data = SubSeq(Behind(o.unit, o.n), 1, k)
        BY <3>1, <3>4
      <3>9. Holds(new, o.unit, o.n + k)
        <4>1. start = FALSE
          BY <2>2
        <4> QED BY <1>1, <1>2, <3>1, <3>2, <3>3, <3>4, <3>7, <3>8, <4>1,
                   AddMore DEF new
      <3>10. rest'[pid] = Behind(o.unit, o.n + k)
        <4>1. rest'[pid] = Behind(v, n + k)
          BY <3>4 DEF IInv, Types
        <4>2. SubSeq(Behind(v, n), k + 1, Len(Behind(v, n)))
                 = Behind(v, n + k)
          BY <3>4, BehindType
        <4>3. SubSeq(Behind(o.unit, o.n), k + 1, Len(Behind(o.unit, o.n)))
                 = Behind(o.unit, o.n + k)
          BY <3>2, <3>4, <3>5, <3>7, BehindType
        <4>4. Behind(v, n) = Behind(o.unit, o.n)
          BY Zenon, <3>1, <3>4
        <4> QED BY Zenon, <4>1, <4>2, <4>3, <4>4
      <3>11. w \in Whole /\ w.unit = o.unit /\ w.n = o.n + k
        BY <3>0, <3>1, <3>4, <3>6 DEF Whole
      <3> QED BY <3>9, <3>10, <3>11
    <2>3. CASE ~start /\ ~clean[pid]
      BY <1>6, <2>3
    <2> QED BY <2>1, <2>2, <2>3
  <1>9. clean'[pid] /\ new.synced => whole'[pid] # {}
    <2>1. CASE start
      BY <1>6, <2>1
    <2>2. CASE ~start
      BY ZenonT(60), <1>2, <1>3, <1>6, <2>2
    <2> QED BY <2>1, <2>2
  <1>10. PidOK(pid)'
    BY <1>3, <1>5, <1>7, <1>8, <1>9 DEF PidOK, AccumulatorOK
  <1> QED BY <1>5, <1>8, <1>10

\* A payload that was added twice.
LEMMA AddedTwiceKeeps ==
    ASSUME IInv, NEW pid \in Pid, NEW u \in Unit, NEW data,
           NEW start \in BOOLEAN, Payloads(pid, u, data, start),
           ArrivesTwice(pid, u, data, start)
    PROVE  /\ PidOK(pid)'
           /\ DOMAIN accumulators' \subseteq Pid
           /\ accumulators' \in [DOMAIN accumulators' -> Accumulator]
           /\ \A q \in Pid \ {pid} :
                 /\ q \in DOMAIN accumulators' <=> q \in DOMAIN accumulators
                 /\ q \in DOMAIN accumulators =>
                       accumulators'[q] = accumulators[q]
           /\ whole'[pid] \in SUBSET Whole
  <1> DEFINE old == getAccumulator(pid)
             mid == addData(old, data, start)
             new == addData(mid, data, start)
  <1>1. PidOK(pid) /\ garbage \in GarbageHeaders /\ data \in Seq(Cell)
    BY DEF IInv, Types, Payloads
  <1>2. old \in Accumulator /\ (old.complete => old.synced)
    BY <1>1, GetType
  <1> HIDE DEF old
  <1>3. mid \in Accumulator /\ (mid.complete => mid.synced)
    BY <1>1, <1>2, addDataType
  <1> HIDE DEF mid
  <1>4. new \in Accumulator /\ (new.complete => new.synced)
    BY <1>1, <1>3, addDataType
  <1> HIDE DEF new
  <1>5. accumulators' = With(pid, new)
    BY DEF ArrivesTwice, new, mid, old
  <1>6. /\ DOMAIN accumulators' \subseteq Pid
        /\ accumulators' \in [DOMAIN accumulators' -> Accumulator]
        /\ pid \in DOMAIN accumulators' /\ accumulators'[pid] = new
        /\ \A q \in Pid \ {pid} :
              /\ q \in DOMAIN accumulators' <=> q \in DOMAIN accumulators
              /\ q \in DOMAIN accumulators =>
                    accumulators'[q] = accumulators[q]
    BY <1>4, <1>5, WithType DEF IInv
  <1>7. /\ clean'[pid] = start
        /\ whole'[pid] = IF start THEN {[unit |-> u, n |-> Len(data)]} ELSE {}
    BY DEF ArrivesTwice, IInv, Types
  <1>8. \E v \in Unit, n \in Nat : n <= Size[v] /\ rest'[pid] = Behind(v, n)
    BY RestKeeps
  <1>9. CASE start
    <2>1. PICK k \in Nat : /\ 1 <= k /\ k <= Size[u]
                           /\ data = First(u, k)
                           /\ rest' = [rest EXCEPT ![pid] = Behind(u, k)]
      BY <1>9 DEF Payloads
    <2>2. Len(data) = k
      BY <2>1, FirstType
    <2>3. rest'[pid] = Behind(u, k)
      BY <2>1 DEF IInv, Types
    <2>4. Holds(new, u, k)
      BY <1>1, <1>3, <1>9, <2>1, AddStart DEF new
    <2>5. whole'[pid] = {[unit |-> u, n |-> k]}
      BY <1>7, <1>9, <2>2
    <2>6. \A w \in whole'[pid] :
              /\ w \in Whole
              /\ Holds(new, w.unit, w.n)
              /\ rest'[pid] = Behind(w.unit, w.n)
      BY <2>3, <2>4, <2>5 DEF Whole
    <2>7. whole'[pid] # {}
      BY <2>5
    <2>8. PidOK(pid)'
      BY <1>4, <1>6, <1>8, <2>6, <2>7 DEF PidOK, AccumulatorOK
    <2> QED BY <1>6, <2>6, <2>8
  <1>10. CASE ~start
    <2>1. whole'[pid] = {} /\ ~clean'[pid]
      BY <1>7, <1>10
    <2>2. PidOK(pid)'
      BY <1>4, <1>6, <1>8, <2>1 DEF PidOK, AccumulatorOK
    <2> QED BY <1>6, <2>1, <2>2
  <1> QED BY <1>9, <1>10

\* A step that leaves alone all but one PID.
LEMMA OnePid ==
    ASSUME IInv, NEW pid \in Pid, PidOK(pid)',
           \A q \in Pid \ {pid} :
              /\ q \in DOMAIN accumulators' <=> q \in DOMAIN accumulators
              /\ q \in DOMAIN accumulators =>
                    accumulators'[q] = accumulators[q]
              /\ whole'[q] = whole[q] /\ clean'[q] = clean[q]
              /\ rest'[q] = rest[q]
    PROVE  \A q \in Pid : PidOK(q)'
  <1> SUFFICES ASSUME NEW q \in Pid, q # pid PROVE PidOK(q)'
    OBVIOUS
  <1>1. PidOK(q)
    BY DEF IInv
  <1> QED BY <1>1, OtherPid

LEMMA SendKeeps ==
    ASSUME IInv, NEW pid \in Pid, NEW u \in Unit, NEW data,
           NEW start \in BOOLEAN, Payloads(pid, u, data, start),
           Send(pid, u, data, start)
    PROVE  IInv'
  <1>1. Types /\ PidOK(pid) /\ TakenOK
    BY DEF IInv
  <1>2. /\ rest' \in [Pid -> Seq(Cell)]
        /\ \A q \in Pid \ {pid} : rest'[q] = rest[q]
        /\ \E v \in Unit, n \in Nat :
              n <= Size[v] /\ rest'[pid] = Behind(v, n)
    BY RestKeeps
  <1>3. /\ PidOK(pid)'
        /\ DOMAIN accumulators' \subseteq Pid
        /\ accumulators' \in [DOMAIN accumulators' -> Accumulator]
        /\ \A q \in Pid \ {pid} :
              /\ q \in DOMAIN accumulators' <=> q \in DOMAIN accumulators
              /\ q \in DOMAIN accumulators =>
                    accumulators'[q] = accumulators[q]
        /\ whole'[pid] \in SUBSET Whole
    <2>1. CASE Arrives(pid, u, data, start)
      BY <2>1, AddedKeeps
    <2>2. CASE IsLost(pid)
      <3>1. /\ accumulators' = accumulators /\ whole' = whole
            /\ ~clean'[pid]
        BY <1>1, <2>2 DEF IsLost, Types
      <3>2. PidOK(pid)'
        BY <1>1, <1>2, <3>1 DEF PidOK, AccumulatorOK
      <3> QED BY <1>1, <3>1, <3>2 DEF Types
    <2>3. CASE ArrivesTwice(pid, u, data, start)
      BY <2>3, AddedTwiceKeeps
    <2> QED BY <2>1, <2>2, <2>3 DEF Send
  <1>4. /\ \E W : whole' = [whole EXCEPT ![pid] = W]
        /\ \E C \in BOOLEAN : clean' = [clean EXCEPT ![pid] = C]
        /\ disturbances' \in 0..MaxDisturbances
    <2>1. CASE Arrives(pid, u, data, start)
      <3> DEFINE W == IF start THEN {[unit |-> u, n |-> Len(data)]}
                      ELSE IF clean[pid]
                      THEN {[w EXCEPT !.n = @ + Len(data)] : w \in whole[pid]}
                      ELSE {}
                 C == start \/ clean[pid]
      <3>1. C \in BOOLEAN
        BY Zenon
      <3>2. /\ whole' = [whole EXCEPT ![pid] = W]
            /\ clean' = [clean EXCEPT ![pid] = C]
            /\ disturbances' = disturbances
        BY Zenon, <2>1 DEF Arrives
      <3> HIDE DEF W, C
      <3> QED BY <1>1, <3>1, <3>2 DEF Types
    <2>2. CASE IsLost(pid)
      <3>1. whole' = [whole EXCEPT ![pid] = whole[pid]]
        BY <1>1, <2>2 DEF IsLost, Types
      <3>2. clean' = [clean EXCEPT ![pid] = FALSE]
        BY <2>2 DEF IsLost
      <3>3. disturbances' \in 0..MaxDisturbances
        BY <1>1, <2>2, SizesAssumption DEF IsLost, Types
      <3> QED BY Zenon, <3>1, <3>2, <3>3
    <2>3. CASE ArrivesTwice(pid, u, data, start)
      <3> DEFINE W == IF start THEN {[unit |-> u, n |-> Len(data)]} ELSE {}
      <3>1. /\ whole' = [whole EXCEPT ![pid] = W]
            /\ clean' = [clean EXCEPT ![pid] = start]
        BY Zenon, <2>3 DEF ArrivesTwice
      <3>2. disturbances' \in 0..MaxDisturbances
        BY <1>1, <2>3, SizesAssumption DEF ArrivesTwice, Types
      <3> QED BY Zenon, <3>1, <3>2
    <2> QED BY <2>1, <2>2, <2>3 DEF Send
  <1>5. /\ whole' \in [Pid -> SUBSET Whole]
        /\ clean' \in [Pid -> BOOLEAN]
        /\ \A q \in Pid \ {pid} :
              whole'[q] = whole[q] /\ clean'[q] = clean[q]
    BY <1>1, <1>3, <1>4 DEF Types
  <1>6. /\ packets' \in 0..MaxPackets
        /\ packet' = packet /\ garbage' = garbage /\ taken' = taken
    BY <1>1, SizesAssumption DEF Send, Types
  <1>7. Types'
    BY <1>1, <1>2, <1>3, <1>4, <1>5, <1>6 DEF Types
  <1>8. \A q \in Pid : PidOK(q)'
    BY <1>2, <1>3, <1>5, OnePid
  <1>9. TakenOK'
    BY <1>1, <1>6 DEF TakenOK
  <1> QED BY <1>7, <1>8, <1>9 DEF IInv

LEMMA StartKeeps ==
    ASSUME IInv, NEW pid \in Pid, NEW u \in Unit, NEW k \in 1..PayloadSize,
           StartUnit(pid, u, k)
    PROVE  IInv'
  <1>1. /\ k \in Nat /\ 1 <= k /\ k <= Size[u]
        /\ rest' = [rest EXCEPT ![pid] = Behind(u, k)]
        /\ Send(pid, u, First(u, k), TRUE)
    <2>1. k \in Nat /\ 1 <= k /\ k <= Size[u]
      BY SizesAssumption DEF StartUnit
    <2>2. /\ rest' = [rest EXCEPT ![pid] = Behind(u, k)]
          /\ Send(pid, u, First(u, k), TRUE)
      BY Zenon DEF StartUnit, Behind, First
    <2> QED BY <2>1, <2>2
  <1>2. First(u, k) \in Seq(Cell) /\ Len(First(u, k)) = k
    BY <1>1, FirstType
  <1>3. Payloads(pid, u, First(u, k), TRUE)
    BY <1>1, <1>2 DEF Payloads
  <1> QED BY <1>1, <1>3, SendKeeps

LEMMA ContinueKeeps ==
    ASSUME IInv, NEW pid \in Pid, NEW k \in 1..PayloadSize,
           ContinueUnit(pid, k)
    PROVE  IInv'
  <1> DEFINE r == rest[pid]
             u == Head(r).unit
             data == SubSeq(r, 1, k)
  <1>1. /\ k \in Nat /\ 1 <= k /\ k <= Len(r) /\ r \in Seq(Cell)
        /\ rest' = [rest EXCEPT ![pid] = SubSeq(r, k + 1, Len(r))]
        /\ Send(pid, u, data, FALSE)
    <2>1. k \in Nat /\ 1 <= k /\ k <= Len(r) /\ r \in Seq(Cell)
      BY SizesAssumption DEF ContinueUnit, IInv, Types
    <2>2. Send(pid, u, data, FALSE)
      BY Zenon DEF ContinueUnit
    <2>3. rest' = [rest EXCEPT ![pid] = SubSeq(@, k + 1, Len(@))]
      BY Zenon DEF ContinueUnit
    <2>4. rest' = [rest EXCEPT ![pid] = SubSeq(r, k + 1, Len(r))]
      BY <2>3
    <2> QED BY <2>1, <2>2, <2>4
  <1>2. r # <<>>
    BY <1>1
  <1>3. Head(r) \in Cell
    BY <1>1, <1>2
  <1>4. u \in Unit
    BY <1>3 DEF Cell
  <1>5. PICK v \in Unit, n \in Nat : n <= Size[v] /\ r = Behind(v, n)
    BY <1>2 DEF IInv, PidOK
  <1> HIDE DEF u, r
  <1>6. Len(Behind(v, n)) = Size[v] - n
    BY <1>5, BehindType
  <1>7. k <= Size[v] - n
    BY <1>1, <1>5, <1>6
  <1>8. /\ SubSeq(Behind(v, n), 1, k) \in Seq(Cell)
        /\ Len(SubSeq(Behind(v, n), 1, k)) = k
        /\ SubSeq(Behind(v, n), k + 1, Len(Behind(v, n))) = Behind(v, n + k)
    BY <1>1, <1>5, <1>7, BehindType
  <1>9. Payloads(pid, u, data, FALSE)
    <2>1. /\ rest[pid] = Behind(v, n) /\ data = SubSeq(Behind(v, n), 1, k)
          /\ rest' = [rest EXCEPT ![pid] = Behind(v, n + k)]
      BY Zenon, <1>1, <1>5, <1>8 DEF r
    <2>2. data \in Seq(Cell) /\ Len(data) >= 1
      BY <1>1, <1>8, <2>1
    <2> HIDE DEF data
    <2> QED BY <1>1, <1>5, <1>7, <2>1, <2>2 DEF Payloads
  <1> QED BY <1>1, <1>4, <1>9, SendKeeps

\* A step that changes at most the accumulator of one PID, to one that is
\* empty or not there, and says so.
LEMMA EmptiedKeeps ==
    ASSUME IInv, NEW pid \in Pid,
           DOMAIN accumulators' \subseteq Pid,
           accumulators' \in [DOMAIN accumulators' -> Accumulator],
           pid \in DOMAIN accumulators' => accumulators'[pid] = Reset,
           \A q \in Pid \ {pid} :
              /\ q \in DOMAIN accumulators' <=> q \in DOMAIN accumulators
              /\ q \in DOMAIN accumulators =>
                    accumulators'[q] = accumulators[q],
           whole' = [whole EXCEPT ![pid] = {}],
           UNCHANGED <<sender, clean>>
    PROVE  /\ \A q \in Pid : PidOK(q)'
           /\ packet' \in PESPacket
                 /\ taken' \in SUBSET [whole : SUBSET Whole, clean : BOOLEAN]
                 => Types'
  <1>1. Types /\ PidOK(pid)
    BY DEF IInv
  <1>2. /\ whole' \in [Pid -> SUBSET Whole] /\ whole'[pid] = {}
        /\ \A q \in Pid \ {pid} : whole'[q] = whole[q]
    BY <1>1 DEF Types
  <1>3. clean' = clean /\ rest' = rest
    BY DEF sender
  <1>4. PidOK(pid)'
    BY <1>1, <1>2, <1>3, ResetType DEF PidOK, AccumulatorOK
  <1>5. \A q \in Pid : PidOK(q)'
    BY <1>2, <1>3, <1>4, OnePid
  <1>6. packet' \in PESPacket
           /\ taken' \in SUBSET [whole : SUBSET Whole, clean : BOOLEAN]
           => Types'
    BY <1>1, <1>2, <1>3 DEF Types, sender
  <1> QED BY <1>5, <1>6

LEMMA ResetKeeps ==
    ASSUME IInv, NEW pid \in Pid, ResetAccumulator(pid)
    PROVE  IInv'
  <1>1. Types /\ TakenOK
    BY DEF IInv
  <1>2. /\ accumulators' = With(pid, Reset)
        /\ whole' = [whole EXCEPT ![pid] = {}]
        /\ UNCHANGED <<packet, sender, clean, taken>>
    BY DEF ResetAccumulator
  <1>3. /\ DOMAIN accumulators' \subseteq Pid
        /\ accumulators' \in [DOMAIN accumulators' -> Accumulator]
        /\ accumulators'[pid] = Reset
        /\ \A q \in Pid \ {pid} :
              /\ q \in DOMAIN accumulators' <=> q \in DOMAIN accumulators
              /\ q \in DOMAIN accumulators =>
                    accumulators'[q] = accumulators[q]
    BY <1>1, <1>2, ResetType, WithType
  <1>4. (\A q \in Pid : PidOK(q)') /\ Types'
    BY <1>1, <1>2, <1>3, EmptiedKeeps DEF Types
  <1>5. TakenOK'
    BY <1>1, <1>2 DEF TakenOK
  <1> QED BY <1>4, <1>5 DEF IInv

LEMMA RemoveKeeps ==
    ASSUME IInv, NEW pid \in Pid, removeAccumulator(pid)
    PROVE  IInv'
  <1>1. Types /\ TakenOK
    BY DEF IInv
  <1>2. /\ accumulators' =
              [q \in DOMAIN accumulators \ {pid} |-> accumulators[q]]
        /\ whole' = [whole EXCEPT ![pid] = {}]
        /\ UNCHANGED <<packet, sender, clean, taken>>
    BY DEF removeAccumulator
  <1>3. /\ DOMAIN accumulators' \subseteq Pid
        /\ accumulators' \in [DOMAIN accumulators' -> Accumulator]
        /\ pid \notin DOMAIN accumulators'
        /\ \A q \in Pid \ {pid} :
              /\ q \in DOMAIN accumulators' <=> q \in DOMAIN accumulators
              /\ q \in DOMAIN accumulators =>
                    accumulators'[q] = accumulators[q]
    BY <1>1, <1>2 DEF Types
  <1>4. (\A q \in Pid : PidOK(q)') /\ Types'
    BY <1>1, <1>2, <1>3, EmptiedKeeps DEF Types
  <1>5. TakenOK'
    BY <1>1, <1>2 DEF TakenOK
  <1> QED BY <1>4, <1>5 DEF IInv

LEMMA ClearKeeps ==
    ASSUME IInv, ClearManager
    PROVE  IInv'
  <1>1. Types /\ TakenOK
    BY DEF IInv
  <1>2. /\ DOMAIN accumulators' = {}
        /\ accumulators' \in [{} -> Accumulator]
        /\ whole' \in [Pid -> SUBSET Whole]
        /\ \A pid \in Pid : whole'[pid] = {}
        /\ UNCHANGED <<packet, sender, clean, taken>>
    BY DEF ClearManager
  <1>3. \A pid \in Pid : PidOK(pid)'
    <2> SUFFICES ASSUME NEW pid \in Pid PROVE PidOK(pid)'
      OBVIOUS
    <2>1. PidOK(pid) /\ rest' = rest
      BY <1>2 DEF IInv, sender
    <2> QED BY <1>2, <2>1 DEF PidOK
  <1>4. Types'
    BY <1>1, <1>2 DEF Types, sender
  <1>5. TakenOK'
    BY <1>1, <1>2 DEF TakenOK
  <1> QED BY <1>3, <1>4, <1>5 DEF IInv

LEMMA EmptyPacketType == EmptyPacket \in PESPacket
  BY EmptyInSeq DEF EmptyPacket, PESPacket

LEMMA ClearPacketKeeps ==
    ASSUME IInv, ClearPacket
    PROVE  IInv'
  <1>1. Types /\ \A pid \in Pid : PidOK(pid)
    BY DEF IInv
  <1>2. /\ packet' = EmptyPacket /\ taken' = {}
        /\ UNCHANGED <<accumulators, sender, whole, clean>>
    BY DEF ClearPacket
  <1>3. Types'
    BY <1>1, <1>2, EmptyPacketType DEF Types, sender
  <1>4. \A pid \in Pid : PidOK(pid)'
    BY <1>1, <1>2 DEF PidOK, sender
  <1>5. TakenOK'
    BY <1>2 DEF TakenOK
  <1> QED BY <1>3, <1>4, <1>5 DEF IInv

LEMMA EmptyPayloadKeeps ==
    ASSUME IInv, NEW pid \in Pid, NEW start \in BOOLEAN,
           EmptyPayload(pid, start)
    PROVE  IInv'
  <1> DEFINE acc == getAccumulator(pid)
  <1>1. Types /\ PidOK(pid) /\ TakenOK
    BY DEF IInv
  <1>2. /\ acc \in Accumulator
        /\ acc.complete => acc.synced
        /\ clean[pid] /\ acc.synced => whole[pid] # {}
    BY <1>1, GetType
  <1>3. /\ accumulators' = With(pid, acc)
        /\ UNCHANGED <<packet, garbage, rest, history>>
    BY DEF EmptyPayload, Added, addData
  <1>4. pid \in DOMAIN accumulators => acc = accumulators[pid]
    BY DEF getAccumulator
  <1> HIDE DEF acc
  <1>5. /\ DOMAIN accumulators' \subseteq Pid
        /\ accumulators' \in [DOMAIN accumulators' -> Accumulator]
        /\ pid \in DOMAIN accumulators' /\ accumulators'[pid] = acc
        /\ \A q \in Pid \ {pid} :
              /\ q \in DOMAIN accumulators' <=> q \in DOMAIN accumulators
              /\ q \in DOMAIN accumulators =>
                    accumulators'[q] = accumulators[q]
    BY <1>1, <1>2, <1>3, WithType
  <1>6. whole' = whole /\ clean' = clean /\ rest' = rest /\ taken' = taken
    BY <1>3 DEF history
  <1>7. PidOK(pid)'
    BY <1>1, <1>2, <1>4, <1>5, <1>6 DEF PidOK, AccumulatorOK
  <1>8. \A q \in Pid : PidOK(q)'
    BY <1>5, <1>6, <1>7, OnePid
  <1>9. packets' \in 0..MaxPackets /\ disturbances' \in 0..MaxDisturbances
    BY <1>1, SizesAssumption DEF EmptyPayload, Types
  <1>10. Types'
    BY <1>1, <1>3, <1>5, <1>6, <1>9 DEF Types
  <1>11. TakenOK'
    BY <1>1, <1>3, <1>6 DEF TakenOK
  <1> QED BY <1>8, <1>10, <1>11 DEF IInv

LEMMA GetPacketKeeps ==
    ASSUME IInv, NEW pid \in Pid, GetPacket(pid)
    PROVE  IInv'
  <1> DEFINE acc == accumulators[pid]
             ok == parseHeader(acc.buffer)
             t == [whole |-> whole[pid], clean |-> clean[pid]]
  <1>1. Types /\ PidOK(pid) /\ garbage \in GarbageHeaders
    BY DEF IInv, Types
  <1>2. /\ pid \in DOMAIN accumulators /\ acc.complete
        /\ packet' = parsePacket(packet, acc.buffer)
        /\ UNCHANGED <<sender, clean>>
    BY DEF GetPacket
  <1>3. /\ acc \in Accumulator /\ acc.buffer \in Seq(Cell)
        /\ acc.complete => acc.synced
        /\ clean[pid] /\ acc.synced => whole[pid] # {}
    BY <1>1, <1>2 DEF PidOK, AccumulatorOK, Accumulator
  <1>4. packet' \in PESPacket
    BY <1>1, <1>2, <1>3, parsePacketType DEF Types
  <1>5. CASE ok
    <2>1. /\ accumulators' = With(pid, Reset)
          /\ whole' = [whole EXCEPT ![pid] = {}]
          /\ taken' = {t}
      BY Zenon, <1>5 DEF GetPacket
    <2>2. /\ DOMAIN accumulators' \subseteq Pid
          /\ accumulators' \in [DOMAIN accumulators' -> Accumulator]
          /\ accumulators'[pid] = Reset
          /\ \A q \in Pid \ {pid} :
                /\ q \in DOMAIN accumulators' <=> q \in DOMAIN accumulators
                /\ q \in DOMAIN accumulators =>
                      accumulators'[q] = accumulators[q]
      BY <1>1, <2>1, ResetType, WithType
    <2>3. taken' \in SUBSET [whole : SUBSET Whole, clean : BOOLEAN]
      BY <1>1, <2>1 DEF Types
    <2>4. (\A q \in Pid : PidOK(q)') /\ Types'
      BY <1>2, <1>4, <2>1, <2>2, <2>3, EmptiedKeeps
    <2>5. ASSUME NEW w \in whole[pid]
          PROVE  /\ CompletePrefix(w.unit, w.n)
                 /\ TakenFrom(packet', w.unit, w.n)
      <3>1. w \in Whole /\ Holds(acc, w.unit, w.n)
        BY <1>1 DEF PidOK
      <3>2. /\ w.unit \in Unit /\ w.n \in Nat /\ w.n <= Size[w.unit]
            /\ acc.buffer = First(w.unit, w.n)
            /\ CompletePrefix(w.unit, w.n)
        BY <1>2, <3>1 DEF Holds, Whole
      <3> HIDE DEF acc
      <3>3. TakenFrom(parsePacket(packet, First(w.unit, w.n)), w.unit, w.n)
        BY <1>1, <1>5, <3>2, FirstTaken DEF Types
      <3> QED BY <1>2, <3>2, <3>3
    <2>6. TakenOK'
      <3>1. /\ t.clean = clean[pid] /\ t.whole = whole[pid]
        OBVIOUS
      <3> HIDE DEF t
      <3> QED BY <1>2, <1>3, <2>1, <2>5, <3>1 DEF TakenOK
    <2> QED BY <2>4, <2>6 DEF IInv
  <1>6. CASE ~ok
    <2>1. /\ accumulators' = With(pid, acc)
          /\ whole' = [whole EXCEPT ![pid] = @]
          /\ taken' = {}
      BY Zenon, <1>6 DEF GetPacket
    <2>2. /\ DOMAIN accumulators' \subseteq Pid
          /\ accumulators' \in [DOMAIN accumulators' -> Accumulator]
          /\ pid \in DOMAIN accumulators' /\ accumulators'[pid] = acc
          /\ \A q \in Pid \ {pid} :
                /\ q \in DOMAIN accumulators' <=> q \in DOMAIN accumulators
                /\ q \in DOMAIN accumulators =>
                      accumulators'[q] = accumulators[q]
      <3>1. With(pid, acc) = With(pid, accumulators[pid])
        OBVIOUS
      <3> HIDE DEF acc
      <3> QED BY <1>1, <1>3, <2>1, WithType
    <2>3. whole' = whole /\ clean' = clean /\ rest' = rest
      BY <1>1, <1>2, <2>1 DEF Types, sender
    <2>4. PidOK(pid)'
      BY <1>1, <1>2, <2>2, <2>3 DEF PidOK
    <2>5. \A q \in Pid : PidOK(q)'
      BY <2>2, <2>3, <2>4, OnePid
    <2>6. Types'
      BY <1>1, <1>2, <1>4, <2>1, <2>2, <2>3 DEF Types, sender
    <2>7. TakenOK'
      BY <2>1 DEF TakenOK
    <2> QED BY <2>5, <2>6, <2>7 DEF IInv
  <1> QED BY <1>5, <1>6

LEMMA InitIInv == Init => IInv
  <1> SUFFICES ASSUME Init PROVE IInv
    OBVIOUS
  <1>1. /\ DOMAIN accumulators = {}
        /\ accumulators \in [{} -> Accumulator]
        /\ packet = EmptyPacket /\ taken = {}
        /\ whole = [pid \in Pid |-> {}] /\ rest = [pid \in Pid |-> <<>>]
    BY DEF Init
  <1>2. Types
    BY <1>1, EmptyPacketType, EmptyInSeq, SizesAssumption DEF Init, Types
  <1>3. \A pid \in Pid : PidOK(pid)
    BY <1>1 DEF PidOK
  <1>4. TakenOK
    BY <1>1 DEF TakenOK
  <1> QED BY <1>2, <1>3, <1>4 DEF IInv

LEMMA NextIInv == IInv /\ [Next]_vars => IInv'
  <1> SUFFICES ASSUME IInv, [Next]_vars PROVE IInv'
    OBVIOUS
  <1>1. ASSUME NEW pid \in Pid, NEW u \in Unit, NEW k \in 1..PayloadSize,
               StartUnit(pid, u, k)
        PROVE  IInv'
    BY <1>1, StartKeeps
  <1>2. ASSUME NEW pid \in Pid, NEW k \in 1..PayloadSize, ContinueUnit(pid, k)
        PROVE  IInv'
    BY <1>2, ContinueKeeps
  <1>3. ASSUME NEW pid \in Pid, NEW start \in BOOLEAN, EmptyPayload(pid, start)
        PROVE  IInv'
    BY <1>3, EmptyPayloadKeeps
  <1>4. ASSUME NEW pid \in Pid, GetPacket(pid) PROVE IInv'
    BY <1>4, GetPacketKeeps
  <1>5. ASSUME NEW pid \in Pid, ResetAccumulator(pid) PROVE IInv'
    BY <1>5, ResetKeeps
  <1>6. ASSUME NEW pid \in Pid, removeAccumulator(pid) PROVE IInv'
    BY <1>6, RemoveKeeps
  <1>7. CASE ClearManager
    BY <1>7, ClearKeeps
  <1>8. CASE ClearPacket
    BY <1>8, ClearPacketKeeps
  <1>9. CASE UNCHANGED vars
    BY <1>9 DEF IInv, Types, PidOK, TakenOK, vars, history
  <1> QED BY <1>1, <1>2, <1>3, <1>4, <1>5, <1>6, <1>7, <1>8, <1>9 DEF Next

LEMMA Invariance == Spec => []IInv
  <1> QED BY InitIInv, NextIInv, PTL DEF Spec

-----------------------------------------------------------------------------
(* The theorems. *)

\* The accumulators, the packet and the history stay in their types, and no
\* accumulator is complete that has seen no start, whatever the buffers hold.
THEOREM TypeCorrect == Spec => []TypeOK
  <1>1. IInv => TypeOK
    <2>1. ASSUME IInv, NEW pid \in DOMAIN accumulators
          PROVE  accumulators[pid].complete => accumulators[pid].synced
      <3>1. pid \in Pid
        BY <2>1 DEF IInv, Types
      <3> QED BY <2>1, <3>1 DEF IInv, PidOK, AccumulatorOK
    <2> QED BY <2>1 DEF IInv, TypeOK
  <1> QED BY <1>1, Invariance, PTL

\* Whatever the user, the other PIDs and an earlier unit did, an accumulator
\* holds exactly what was added of a unit since its start, and is complete
\* with its last byte, or with the header of an unbounded one.
THEOREM HeldTheorem == Spec => []IntactUnitIsHeld
  <1>1. IInv => IntactUnitIsHeld
    BY DEF IInv, PidOK, Holds, IntactUnitIsHeld, First
  <1> QED BY <1>1, Invariance, PTL

\* A packet taken by getPacket() is one whole unit if no payload was lost or
\* repeated since the unit's start.
THEOREM TakenTheorem == Spec => []TakenIsUnit
  <1>1. IInv => TakenIsUnit
    <2> SUFFICES ASSUME IInv, NEW t \in taken, t.clean
                 PROVE  \E w \in t.whole :
                           /\ CompletePrefix(w.unit, w.n)
                           /\ packet.payload =
                                 SubSeq(Cells(w.unit),
                                        getHeaderSize(HeaderOf[w.unit]) + 1,
                                        w.n)
      BY DEF TakenIsUnit
    <2> QED BY DEF IInv, TakenOK, TakenFrom
  <1> QED BY <1>1, Invariance, PTL

\* A reused PESPacket never shows the timestamps of the packet before it as
\* those of a unit that has optional fields.
THEOREM TimestampsTheorem == Spec => []TimestampsAreOwn
  <1>1. \A u \in Unit : /\ Timestamp(Cells(u), 1) = PTSOf(u)
                        /\ Timestamp(Cells(u), 2) = DTSOf(u)
    <2>1. /\ FlagsSize + (1 - 1) * TimestampSize + 1 = FlagsSize + 1
          /\ FlagsSize + 1 * TimestampSize = FlagsSize + TimestampSize
          /\ FlagsSize + (2 - 1) * TimestampSize + 1
                = FlagsSize + TimestampSize + 1
      BY SizesAssumption
    <2> QED BY <2>1 DEF Timestamp, PTSOf, DTSOf
  <1>2. IInv => TimestampsAreOwn
    <2> SUFFICES ASSUME IInv, NEW t \in taken, NEW w \in t.whole
                 PROVE  LET h == HeaderOf[w.unit]
                        IN  /\ packet.has_optional_fields
                                  = h.has_optional_fields
                            /\ h.has_optional_fields =>
                                  /\ packet.timestamps = h.timestamps
                                  /\ h.timestamps >= 1 =>
                                        packet.pts = PTSOf(w.unit)
                                  /\ h.timestamps = 2 =>
                                        packet.dts = DTSOf(w.unit)
      BY DEF TimestampsAreOwn
    <2>1. w \in Whole
      BY DEF IInv, Types
    <2>2. w.unit \in Unit
      BY <2>1 DEF Whole
    <2>3. TakenFrom(packet, w.unit, w.n)
      BY DEF IInv, TakenOK
    <2> QED BY <1>1, <2>2, <2>3 DEF TakenFrom
  <1> QED BY <1>2, Invariance, PTL

\* t is reduced by the clock's period at most once in either direction.
LEMMA Reduced ==
    ASSUME NEW t \in Int, 0 <= t, t < TsModulus,
           NEW d \in Int, -TsModulus <= d, d <= TsModulus
    PROVE  (t + d) % TsModulus \in {t + d, t + d - TsModulus, t + d + TsModulus}
  BY SizesAssumption

\* timestampDifference() is by how much a clock advanced, for every width of
\* the clock: also across the wrap, in both directions.
THEOREM DifferenceTheorem == TimestampDifferenceIsAdvance
  <1> SUFFICES ASSUME NEW t \in 0..(TsModulus - 1),
                      NEW d \in -TsModulus..TsModulus,
                      2 * d < TsModulus, -2 * d < TsModulus
               PROVE  timestampDifference(t, (t + d) % TsModulus) = d
    BY DEF TimestampDifferenceIsAdvance
  <1> DEFINE s == (t + d) % TsModulus
             h == TsModulus \div 2
  <1>1. TsModulus \in Nat /\ TsModulus >= 1
    BY SizesAssumption
  <1>2. /\ t \in Int /\ 0 <= t /\ t < TsModulus
        /\ d \in Int /\ -TsModulus <= d /\ d <= TsModulus
    BY <1>1
  <1>3. s \in Int /\ 0 <= s /\ s < TsModulus
    BY <1>1, <1>2
  <1>4. s \in {t + d, t + d - TsModulus, t + d + TsModulus}
    BY <1>2, Reduced
  <1>5. h \in Int /\ 2 * h <= TsModulus /\ TsModulus <= 2 * h + 1
    BY <1>1
  <1> HIDE DEF s, h
  <1>6. (IF s - t > h THEN (s - t) - TsModulus
         ELSE IF s - t < -h THEN (s - t) + TsModulus ELSE s - t) = d
    BY <1>1, <1>2, <1>3, <1>4, <1>5
  <1> QED BY <1>6 DEF timestampDifference, s, h

=============================================================================
