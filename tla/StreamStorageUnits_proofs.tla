----------------------- MODULE StreamStorageUnits_proofs -----------------------
(***************************************************************************)
(* That StreamStorage implements PacketStore, and the theorems about what  *)
(* its iterations hold, for any PIDs, packets and tables.                  *)
(***************************************************************************)
EXTENDS StreamStorage_proofs, FiniteSetTheorems

-----------------------------------------------------------------------------
(***************************************************************************)
(* Sequences.                                                              *)
(***************************************************************************)
LEMMA PartAt ==
    ASSUME NEW S, NEW s \in Seq(S), NEW m \in Nat, NEW n \in Nat, n <= Len(s)
    PROVE  /\ SubSeq(s, m + 1, n) \in Seq(S)
           /\ m <= n => Len(SubSeq(s, m + 1, n)) = n - m
           /\ m > n => Len(SubSeq(s, m + 1, n)) = 0
           /\ \A i \in 1..(n - m) : SubSeq(s, m + 1, n)[i] = s[m + i]
  <1> DEFINE p == SubSeq(s, m + 1, n)
  <1>1. Len(s) \in Nat /\ \A i \in 1..Len(s) : s[i] \in S
    BY LenProperties, ElementOfSeq
  <1>2. \A i \in (m + 1)..n : s[i] \in S
    BY <1>1
  <1>3. /\ p \in Seq(S)
        /\ Len(p) = IF m + 1 <= n THEN n - (m + 1) + 1 ELSE 0
        /\ \A i \in 1..(n - (m + 1) + 1) : p[i] = s[(m + 1) + i - 1]
    BY <1>2, SubSeqProperties
  <1> HIDE DEF p
  <1>4. n - (m + 1) + 1 = n - m
    OBVIOUS
  <1>5. m <= n => Len(p) = n - m
    BY <1>3, <1>4
  <1>6. m > n => Len(p) = 0
    BY <1>3
  <1>7. ASSUME NEW i \in 1..(n - m) PROVE p[i] = s[m + i]
    <2>1. p[i] = s[(m + 1) + i - 1]
      BY <1>3, <1>4
    <2>2. (m + 1) + i - 1 = m + i
      OBVIOUS
    <2>3. QED
      BY <2>1, <2>2
  <1>8. QED
    BY <1>3, <1>5, <1>6, <1>7 DEF p

\* RemoveAt leaves the others in their order.
LEMMA RemovedAt ==
    ASSUME NEW S, NEW s \in Seq(S), NEW k \in 1..Len(s)
    PROVE  /\ RemoveAt(s, k) \in Seq(S) /\ Len(RemoveAt(s, k)) = Len(s) - 1
           /\ \A i \in 1..(Len(s) - 1) :
                 RemoveAt(s, k)[i] = IF i < k THEN s[i] ELSE s[i + 1]
  <1> DEFINE len == Len(s)
             a == SubSeq(s, 1, k - 1)
             b == SubSeq(s, k + 1, len)
             t == RemoveAt(s, k)
  <1>1. len \in Nat /\ k \in Nat /\ 1 <= k /\ k <= len /\ k - 1 \in Nat
    BY LenProperties
  <1>2. t = a \o b
    BY DEF RemoveAt
  <1>3. /\ a \in Seq(S) /\ Len(a) = k - 1
        /\ \A i \in 1..(k - 1) : a[i] = s[i]
    <2> DEFINE e == k - 1
    <2>1. e \in Nat /\ e <= len /\ 0 \in Nat
      BY <1>1
    <2> HIDE DEF e
    <2>2. /\ SubSeq(s, 0 + 1, e) \in Seq(S)
          /\ Len(SubSeq(s, 0 + 1, e)) = e - 0
          /\ \A i \in 1..(e - 0) : SubSeq(s, 0 + 1, e)[i] = s[0 + i]
      BY <2>1, PartAt
    <2>3. e - 0 = e /\ 0 + 1 = 1 /\ \A i \in 1..e : 0 + i = i
      BY <2>1
    <2>4. /\ SubSeq(s, 1, e) \in Seq(S) /\ Len(SubSeq(s, 1, e)) = e
          /\ \A i \in 1..e : SubSeq(s, 1, e)[i] = s[i]
      BY <2>2, <2>3
    <2>5. QED
      BY <2>4 DEF e
  <1>4. /\ b \in Seq(S) /\ Len(b) = len - k
        /\ \A i \in 1..(len - k) : b[i] = s[k + i]
    BY <1>1, PartAt
  <1> HIDE DEF a, b, len, t
  <1>5. /\ t \in Seq(S) /\ Len(t) = Len(a) + Len(b)
        /\ \A i \in 1..(Len(a) + Len(b)) :
              t[i] = IF i <= Len(a) THEN a[i] ELSE b[i - Len(a)]
    BY <1>2, <1>3, <1>4, ConcatProperties
  <1>6. Len(t) = len - 1
    BY <1>1, <1>3, <1>4, <1>5
  <1>7. ASSUME NEW i \in 1..(len - 1)
        PROVE  t[i] = IF i < k THEN s[i] ELSE s[i + 1]
    <2>1. i \in 1..(Len(a) + Len(b))
      BY <1>1, <1>3, <1>4
    <2>2. CASE i < k
      <3>1. i <= Len(a) /\ i \in 1..(k - 1)
        BY <1>1, <1>3, <2>2
      <3>2. t[i] = s[i]
        BY <1>3, <1>5, <2>1, <3>1
      <3>3. QED
        BY <2>2, <3>2
    <2>3. CASE ~(i < k)
      <3>1. ~(i <= Len(a)) /\ i - Len(a) \in 1..(len - k)
            /\ k + (i - Len(a)) = i + 1
        BY <1>1, <1>3, <2>3
      <3>2. t[i] = b[i - Len(a)] /\ b[i - Len(a)] = s[k + (i - Len(a))]
        BY <1>4, <1>5, <2>1, <3>1
      <3>3. t[i] = s[i + 1]
        BY <3>1, <3>2
      <3>4. QED
        BY <2>3, <3>3
    <2>4. QED
      BY <2>2, <2>3
  <1>8. QED
    BY <1>5, <1>6, <1>7 DEF t, len

LEMMA AppendedAt ==
    ASSUME NEW S, NEW s \in Seq(S), NEW e \in S
    PROVE  /\ Append(s, e) \in Seq(S) /\ Len(Append(s, e)) = Len(s) + 1
           /\ \A i \in 1..Len(s) : Append(s, e)[i] = s[i]
           /\ Append(s, e)[Len(s) + 1] = e
  BY AppendProperties

-----------------------------------------------------------------------------
(***************************************************************************)
(* The iterations of a PID, as a function of its stream s, whether one is  *)
(* pending and which.                                                      *)
(***************************************************************************)
ItsOf(s, isPending, c) ==
    [i \in DOMAIN s |-> s[i].data] \o (IF isPending THEN <<c>> ELSE <<>>)

LEMMA ItsShape ==
    ASSUME NEW s \in Seq(Entry), NEW d \in BOOLEAN, NEW c,
           d => c \in IterationData
    PROVE  /\ ItsOf(s, d, c) \in Seq(IterationData)
           /\ Len(ItsOf(s, d, c)) = Len(s) + (IF d THEN 1 ELSE 0)
           /\ \A i \in 1..Len(s) : ItsOf(s, d, c)[i] = s[i].data
           /\ d => ItsOf(s, d, c)[Len(s) + 1] = c
  <1> DEFINE a == [i \in DOMAIN s |-> s[i].data]
             b == IF d THEN <<c>> ELSE <<>>
             t == ItsOf(s, d, c)
  <1>1. Len(s) \in Nat /\ DOMAIN s = 1..Len(s)
    BY LenProperties
  <1>2. ASSUME NEW i \in 1..Len(s) PROVE s[i].data \in IterationData
    <2>1. s[i] \in Entry
      BY ElementOfSeq
    <2>2. QED
      BY <2>1 DEF Entry
  <1>3. a \in Seq(IterationData) /\ Len(a) = Len(s)
        /\ \A i \in 1..Len(s) : a[i] = s[i].data
    BY <1>1, <1>2
  <1>4. t = a \o b
    BY Zenon DEF ItsOf
  <1> HIDE DEF a, t
  <1>5. CASE d
    <2>1. b = <<c>> /\ c \in IterationData
      BY <1>5
    <2>2. <<c>> \in Seq(IterationData) /\ Len(<<c>>) = 1 /\ <<c>>[1] = c
      BY <2>1
    <2> HIDE DEF b
    <2>3. t = a \o <<c>>
      BY <1>4, <2>1
    <2>4. /\ t \in Seq(IterationData) /\ Len(t) = Len(a) + 1
          /\ \A i \in 1..(Len(a) + 1) :
                t[i] = IF i <= Len(a) THEN a[i] ELSE <<c>>[i - Len(a)]
      BY <1>3, <2>2, <2>3, ConcatProperties
    <2>5. \A i \in 1..Len(s) : t[i] = s[i].data
      BY <1>1, <1>3, <2>4
    <2>6. t[Len(s) + 1] = c
      <3> DEFINE n == Len(s)
      <3>1. n \in Nat /\ Len(a) = n
        BY <1>1, <1>3
      <3> HIDE DEF n
      <3>2. n + 1 \in 1..(Len(a) + 1) /\ ~(n + 1 <= Len(a))
            /\ (n + 1) - Len(a) = 1
        BY <3>1
      <3>3. t[n + 1] = <<c>>[1]
        BY <2>4, <3>2
      <3>4. QED
        BY <2>2, <3>3 DEF n
    <2>7. Len(t) = Len(s) + (IF d THEN 1 ELSE 0)
      BY <1>3, <1>5, <2>4
    <2>8. QED
      BY <2>4, <2>5, <2>6, <2>7 DEF t
  <1>6. CASE ~d
    <2>1. t = a \o <<>>
      BY <1>4, <1>6
    <2>2. t = a
      BY <1>3, <2>1, ConcatEmptySeq
    <2>3. Len(t) = Len(s) + (IF d THEN 1 ELSE 0)
      BY <1>1, <1>3, <1>6, <2>2
    <2>4. QED
      BY <1>3, <1>6, <2>2, <2>3 DEF t
  <1>7. QED
    BY <1>5, <1>6

\* The same with and without a pending iteration
LEMMA WithPending ==
    ASSUME NEW s \in Seq(Entry), NEW c \in IterationData
    PROVE  /\ ItsOf(s, TRUE, c) \in Seq(IterationData)
           /\ Len(ItsOf(s, TRUE, c)) = Len(s) + 1
           /\ \A i \in 1..Len(s) : ItsOf(s, TRUE, c)[i] = s[i].data
           /\ ItsOf(s, TRUE, c)[Len(s) + 1] = c
  <1>1. /\ ItsOf(s, TRUE, c) \in Seq(IterationData)
        /\ Len(ItsOf(s, TRUE, c)) = Len(s) + (IF TRUE THEN 1 ELSE 0)
        /\ \A i \in 1..Len(s) : ItsOf(s, TRUE, c)[i] = s[i].data
        /\ TRUE => ItsOf(s, TRUE, c)[Len(s) + 1] = c
    BY ZenonT(60), ItsShape
  <1>2. (IF TRUE THEN 1 ELSE 0) = 1
    OBVIOUS
  <1>3. QED
    BY <1>1, <1>2, Zenon

LEMMA WithoutPending ==
    ASSUME NEW s \in Seq(Entry), NEW c
    PROVE  /\ ItsOf(s, FALSE, c) \in Seq(IterationData)
           /\ Len(ItsOf(s, FALSE, c)) = Len(s)
           /\ \A i \in 1..Len(s) : ItsOf(s, FALSE, c)[i] = s[i].data
  <1>1. /\ ItsOf(s, FALSE, c) \in Seq(IterationData)
        /\ Len(ItsOf(s, FALSE, c)) = Len(s) + (IF FALSE THEN 1 ELSE 0)
        /\ \A i \in 1..Len(s) : ItsOf(s, FALSE, c)[i] = s[i].data
    BY ZenonT(60), ItsShape
  <1>2. Len(s) + (IF FALSE THEN 1 ELSE 0) = Len(s)
    BY LenProperties
  <1>3. QED
    BY <1>1, <1>2, Zenon

\* A pending iteration that is finished while another one begins
LEMMA ItsCloseAndStart ==
    ASSUME NEW s \in Seq(Entry), NEW e \in Entry, NEW d \in IterationData
    PROVE  ItsOf(Append(s, e), TRUE, d) = Append(ItsOf(s, TRUE, e.data), d)
  <1> DEFINE more == Append(s, e)
             t == ItsOf(s, TRUE, e.data)
             u == ItsOf(more, TRUE, d)
             n == Len(s)
  <1>1. e.data \in IterationData
    BY DEF Entry
  <1>2. /\ more \in Seq(Entry) /\ Len(more) = n + 1 /\ n \in Nat
        /\ \A i \in 1..n : more[i] = s[i]
        /\ more[n + 1] = e
    BY AppendedAt, LenProperties
  <1>3. /\ t \in Seq(IterationData) /\ Len(t) = n + 1
        /\ \A i \in 1..n : t[i] = s[i].data
        /\ t[n + 1] = e.data
    BY <1>1, WithPending
  <1> HIDE DEF more, t
  <1>4. /\ u \in Seq(IterationData) /\ Len(u) = Len(more) + 1
        /\ \A i \in 1..Len(more) : u[i] = more[i].data
        /\ u[Len(more) + 1] = d
    BY <1>2, WithPending
  <1>5. /\ Append(t, d) \in Seq(IterationData)
        /\ Len(Append(t, d)) = (n + 1) + 1
        /\ \A i \in 1..(n + 1) : Append(t, d)[i] = t[i]
        /\ Append(t, d)[(n + 1) + 1] = d
    BY <1>3, AppendedAt
  <1> HIDE DEF u, n
  <1>6. ASSUME NEW i \in 1..Len(u) PROVE u[i] = Append(t, d)[i]
    <2>1. i \in 1..n \/ i = n + 1 \/ i = (n + 1) + 1
      BY <1>2, <1>4
    <2>2. CASE i \in 1..n
      <3>1. i \in 1..Len(more) /\ i \in 1..(n + 1)
        BY <1>2, <2>2
      <3>2. u[i] = more[i].data /\ more[i] = s[i]
        BY <1>2, <1>4, <2>2, <3>1
      <3>3. Append(t, d)[i] = t[i] /\ t[i] = s[i].data
        BY <1>3, <1>5, <2>2, <3>1
      <3>4. QED
        BY <3>2, <3>3
    <2>3. CASE i = n + 1
      <3>1. n + 1 \in 1..Len(more) /\ n + 1 \in 1..(n + 1)
        BY <1>2
      <3>2. QED
        BY <1>2, <1>3, <1>4, <1>5, <2>3, <3>1
    <2>4. CASE i = (n + 1) + 1
      BY <1>2, <1>4, <1>5, <2>4
    <2>5. QED
      BY <2>1, <2>2, <2>3, <2>4
  <1>7. Len(u) = Len(Append(t, d))
    BY <1>2, <1>4, <1>5
  <1>8. u = Append(t, d)
    BY <1>4, <1>5, <1>6, <1>7, SeqEqual
  <1>9. QED
    BY <1>8 DEF u, t, more

\* The first iteration of a PID, or the first after all were finished
LEMMA ItsStart ==
    ASSUME NEW s \in Seq(Entry), NEW c, NEW d \in IterationData
    PROVE  ItsOf(s, TRUE, d) = Append(ItsOf(s, FALSE, c), d)
  <1> DEFINE t == ItsOf(s, FALSE, c)
             u == ItsOf(s, TRUE, d)
             n == Len(s)
  <1>1. /\ u \in Seq(IterationData) /\ Len(u) = n + 1 /\ n \in Nat
        /\ \A i \in 1..n : u[i] = s[i].data
        /\ u[n + 1] = d
    BY WithPending, LenProperties
  <1>2. /\ t \in Seq(IterationData) /\ Len(t) = n
        /\ \A i \in 1..n : t[i] = s[i].data
    BY WithoutPending
  <1> HIDE DEF t, u, n
  <1>3. Len(t) = n
    BY <1>1, <1>2
  <1>4. /\ Append(t, d) \in Seq(IterationData)
        /\ Len(Append(t, d)) = n + 1
        /\ \A i \in 1..n : Append(t, d)[i] = t[i]
        /\ Append(t, d)[n + 1] = d
    <2>1. /\ Append(t, d) \in Seq(IterationData)
          /\ Len(Append(t, d)) = Len(t) + 1
          /\ \A i \in 1..Len(t) : Append(t, d)[i] = t[i]
          /\ Append(t, d)[Len(t) + 1] = d
      BY <1>2, AppendProperties
    <2>2. QED
      BY <1>3, <2>1, Zenon
  <1>5. \A i \in 1..Len(u) : u[i] = Append(t, d)[i]
    BY <1>1, <1>2, <1>4
  <1>6. u = Append(t, d)
    BY <1>1, <1>4, <1>5, SeqEqual
  <1>7. QED
    BY <1>6 DEF t, u

\* t with d in the place of its last element
LastReplaced(t, d) == [t EXCEPT ![Len(t)] = d]

\* A packet added to the pending iteration
LEMMA ItsExtend ==
    ASSUME NEW s \in Seq(Entry), NEW c \in IterationData,
           NEW d \in IterationData
    PROVE  ItsOf(s, TRUE, d) = LastReplaced(ItsOf(s, TRUE, c), d)
  <1> DEFINE t == ItsOf(s, TRUE, c)
             u == ItsOf(s, TRUE, d)
             n == Len(s)
             v == LastReplaced(t, d)
  <1>1. /\ u \in Seq(IterationData) /\ Len(u) = n + 1 /\ n \in Nat
        /\ \A i \in 1..n : u[i] = s[i].data
        /\ u[n + 1] = d
    BY WithPending, LenProperties
  <1>2. /\ t \in Seq(IterationData) /\ Len(t) = n + 1
        /\ \A i \in 1..n : t[i] = s[i].data
    BY WithPending
  <1> HIDE DEF t, u, n
  <1>3. DOMAIN t = 1..(n + 1)
    BY <1>2, LenProperties
  <1>4. v \in Seq(IterationData) /\ Len(v) = n + 1
    BY <1>2, ExceptSeq, <1>1, <1>3 DEF LastReplaced
  <1>5. v[n + 1] = d /\ \A i \in 1..n : v[i] = t[i]
    BY <1>1, <1>2, <1>3 DEF LastReplaced
  <1> HIDE DEF v
  <1>6. \A i \in 1..Len(u) : u[i] = v[i]
    BY <1>1, <1>2, <1>5
  <1>7. u = v
    BY <1>1, <1>4, <1>6, SeqEqual
  <1>8. QED
    BY <1>7 DEF u, v, t

\* Finishing the pending iteration leaves it where it is.
LEMMA ItsFinish ==
    ASSUME NEW s \in Seq(Entry), NEW e \in Entry, NEW c
    PROVE  ItsOf(Append(s, e), FALSE, c) = ItsOf(s, TRUE, e.data)
  <1> DEFINE more == Append(s, e)
             t == ItsOf(s, TRUE, e.data)
             u == ItsOf(more, FALSE, c)
             n == Len(s)
  <1>1. e.data \in IterationData
    BY DEF Entry
  <1>2. /\ more \in Seq(Entry) /\ Len(more) = n + 1 /\ n \in Nat
        /\ \A i \in 1..n : more[i] = s[i]
        /\ more[n + 1] = e
    BY AppendedAt, LenProperties
  <1>3. /\ t \in Seq(IterationData) /\ Len(t) = n + 1
        /\ \A i \in 1..n : t[i] = s[i].data
        /\ t[n + 1] = e.data
    BY <1>1, WithPending
  <1> HIDE DEF more, t
  <1>4. /\ u \in Seq(IterationData) /\ Len(u) = Len(more)
        /\ \A i \in 1..Len(more) : u[i] = more[i].data
    BY <1>2, WithoutPending
  <1> HIDE DEF u, n
  <1>5. Len(u) = n + 1
    BY <1>2, <1>4
  <1>6. ASSUME NEW i \in 1..Len(u) PROVE u[i] = t[i]
    <2>1. i \in 1..Len(more) /\ (i \in 1..n \/ i = n + 1)
      BY <1>2, <1>5
    <2>2. u[i] = more[i].data
      BY <1>4, <2>1
    <2>3. QED
      BY <1>2, <1>3, <2>1, <2>2
  <1>7. u = t
    BY <1>3, <1>4, <1>5, <1>6, SeqEqual
  <1>8. QED
    BY <1>7 DEF u, t, more

\* Taking a finished iteration away
LEMMA ItsRemove ==
    ASSUME NEW s \in Seq(Entry), NEW d \in BOOLEAN, NEW c,
           d => c \in IterationData, NEW k \in 1..Len(s)
    PROVE  ItsOf(RemoveAt(s, k), d, c) = RemoveAt(ItsOf(s, d, c), k)
  <1> DEFINE r == RemoveAt(s, k)
             t == ItsOf(s, d, c)
             u == ItsOf(r, d, c)
             v == RemoveAt(t, k)
             n == Len(s)
             m == IF d THEN 1 ELSE 0
  <1>1. /\ n \in Nat /\ k \in Nat /\ 1 <= k /\ k <= n /\ m \in 0..1
    BY LenProperties
  <1>2. /\ r \in Seq(Entry) /\ Len(r) = n - 1
        /\ \A i \in 1..(n - 1) : r[i] = IF i < k THEN s[i] ELSE s[i + 1]
    BY RemovedAt
  <1>3. /\ t \in Seq(IterationData) /\ Len(t) = n + m
        /\ \A i \in 1..n : t[i] = s[i].data
        /\ d => t[n + 1] = c
    BY ItsShape
  <1> HIDE DEF r, t
  <1>4. /\ u \in Seq(IterationData) /\ Len(u) = Len(r) + m
        /\ \A i \in 1..Len(r) : u[i] = r[i].data
        /\ d => u[Len(r) + 1] = c
    BY <1>2, ItsShape
  <1>d. m = 1 => d
    OBVIOUS
  <1> HIDE DEF u, n, m
  <1>5. k \in 1..Len(t)
    BY <1>1, <1>3
  <1>6. /\ v \in Seq(IterationData) /\ Len(v) = Len(t) - 1
        /\ \A i \in 1..(Len(t) - 1) : v[i] = IF i < k THEN t[i] ELSE t[i + 1]
    BY <1>3, <1>5, RemovedAt
  <1> HIDE DEF v
  <1>7. Len(u) = (n - 1) + m /\ Len(v) = (n - 1) + m
    BY <1>1, <1>2, <1>3, <1>4, <1>6
  <1>8. ASSUME NEW i \in 1..Len(u) PROVE u[i] = v[i]
    <2>1. i \in Nat /\ i \in 1..(Len(t) - 1)
          /\ (i \in 1..(n - 1) \/ (i = n /\ m = 1))
      BY <1>1, <1>3, <1>7
    <2>2. v[i] = IF i < k THEN t[i] ELSE t[i + 1]
      BY <1>6, <2>1
    <2>3. CASE i \in 1..(n - 1)
      <3>1. u[i] = r[i].data
        BY <1>1, <1>2, <1>4, <2>3
      <3>2. i \in 1..n /\ i + 1 \in 1..n
        BY <1>1, <2>3
      <3>3. CASE i < k
        <4>1. r[i] = s[i] /\ t[i] = s[i].data
          BY <1>2, <1>3, <2>3, <3>2, <3>3
        <4>2. QED
          BY <2>2, <3>1, <3>3, <4>1
      <3>4. CASE ~(i < k)
        <4>1. r[i] = s[i + 1] /\ t[i + 1] = s[i + 1].data
          BY <1>2, <1>3, <2>3, <3>2, <3>4
        <4>2. QED
          BY <2>2, <3>1, <3>4, <4>1
      <3>5. QED
        BY <3>3, <3>4
    <2>4. CASE i = n /\ m = 1
      <3>1. u[Len(r) + 1] = c /\ t[n + 1] = c
        BY <1>3, <1>4, <1>d, <2>4
      <3>2. Len(r) + 1 = n
        BY <1>1, <1>2
      <3>3. ~(i < k)
        BY <1>1, <2>4
      <3>4. QED
        BY <2>2, <2>4, <3>1, <3>2, <3>3
    <2>5. QED
      BY <2>1, <2>3, <2>4
  <1>9. u = v
    BY <1>4, <1>6, <1>7, <1>8, SeqEqual
  <1>10. QED
    BY <1>9 DEF u, v, r, t

\* Taking all that is finished away
LEMMA ItsDrop ==
    ASSUME NEW s \in Seq(Entry), NEW d \in BOOLEAN, NEW c,
           d => c \in IterationData
    PROVE  ItsOf(<<>>, d, c)
             = SubSeq(ItsOf(s, d, c), Len(s) + 1, Len(ItsOf(s, d, c)))
  <1> DEFINE t == ItsOf(s, d, c)
             u == ItsOf(<<>>, d, c)
             n == Len(s)
             v == SubSeq(t, n + 1, Len(t))
             m == IF d THEN 1 ELSE 0
  <1>1. /\ t \in Seq(IterationData) /\ Len(t) = n + m /\ n \in Nat
        /\ m \in 0..1
        /\ d => t[n + 1] = c
    BY ItsShape, LenProperties
  <1>2. /\ u \in Seq(IterationData) /\ Len(u) = m
        /\ d => u[1] = c
    <2>1. <<>> \in Seq(Entry) /\ Len(<<>>) = 0
      BY EmptySeq
    <2>2. /\ u \in Seq(IterationData)
          /\ Len(u) = Len(<<>>) + (IF d THEN 1 ELSE 0)
          /\ d => u[Len(<<>>) + 1] = c
      BY <2>1, ItsShape
    <2> HIDE DEF u, m
    <2>3. Len(u) = m
      BY <1>1, <2>1, <2>2 DEF m
    <2>4. d => u[1] = c
      BY <2>1, <2>2
    <2>5. QED
      BY <2>2, <2>3, <2>4
  <1>d. m = 1 => d
    OBVIOUS
  <1> HIDE DEF t, u, n, m
  <1>3. Len(t) \in Nat /\ n <= Len(t) /\ Len(t) - n = m
    BY <1>1
  <1>4. /\ v \in Seq(IterationData) /\ Len(v) = Len(t) - n
        /\ \A i \in 1..(Len(t) - n) : v[i] = t[n + i]
    BY <1>1, <1>3, PartAt
  <1> HIDE DEF v
  <1>5. ASSUME NEW i \in 1..Len(u) PROVE u[i] = v[i]
    <2>1. m = 1 /\ i = 1
      BY <1>1, <1>2
    <2>2. v[1] = t[n + 1]
      BY <1>3, <1>4, <2>1
    <2>3. QED
      BY <1>1, <1>2, <1>d, <2>1, <2>2
  <1>6. u = v
    BY <1>2, <1>3, <1>4, <1>5, SeqEqual
  <1>7. QED
    BY <1>6 DEF u, v, t, n

-----------------------------------------------------------------------------
(***************************************************************************)
(* What each action does to the iterations of the PIDs.                    *)
(***************************************************************************)
IsPending(q) == q \in DOMAIN current_iterations

LEMMA IterationsAre ==
    /\ \A q : Iterations(q) = ItsOf(getOrCreateStream(q), IsPending(q),
                                    current_iterations[q])
    /\ \A q : Iterations(q)' = ItsOf(getOrCreateStream(q)', IsPending(q)',
                                     current_iterations'[q])
  BY Zenon DEF Iterations, ItsOf, IsPending

LEMMA PendingType ==
    ASSUME TypeOK, NEW q
    PROVE  /\ IsPending(q) \in BOOLEAN
           /\ IsPending(q) => /\ current_iterations[q] \in IterationData
                              /\ [id |-> current_iteration_ids[q],
                                  data |-> current_iterations[q]] \in Entry
  BY DEF IsPending, TypeOK, CurrentTypeOK, Entry

\* The iterations of a PID are its finished ones and the pending one.
LEMMA IterationsShape ==
    ASSUME TypeOK, NEW q
    PROVE  /\ Iterations(q) \in Seq(IterationData)
           /\ Len(Iterations(q)) = Len(getOrCreateStream(q))
                                     + (IF IsPending(q) THEN 1 ELSE 0)
           /\ \A i \in 1..Len(getOrCreateStream(q)) :
                 Iterations(q)[i] = getOrCreateStream(q)[i].data
           /\ IsPending(q) => Iterations(q)[Len(getOrCreateStream(q)) + 1]
                                = current_iterations[q]
  <1> DEFINE s == getOrCreateStream(q)
             d == IsPending(q)
             c == current_iterations[q]
             t == Iterations(q)
  <1>1. s \in Seq(Entry) /\ d \in BOOLEAN /\ (d => c \in IterationData)
    BY StreamType, PendingType
  <1>2. t = ItsOf(s, d, c)
    BY IterationsAre
  <1> HIDE DEF s, d, c, t
  <1>3. /\ t \in Seq(IterationData)
        /\ Len(t) = Len(s) + (IF d THEN 1 ELSE 0)
        /\ \A i \in 1..Len(s) : t[i] = s[i].data
        /\ d => t[Len(s) + 1] = c
    BY <1>1, <1>2, ItsShape
  <1>4. QED
    BY <1>3, Zenon DEF s, d, c, t

LEMMA OtherStreams ==
    ASSUME NEW P \in SUBSET DOMAIN current_iterations,
           streams' = Finalized(P)
    PROVE  /\ \A r \in P : getOrCreateStream(r)' =
                 Append(getOrCreateStream(r),
                        [id |-> current_iteration_ids[r],
                         data |-> current_iterations[r]])
           /\ \A r : r \notin P => getOrCreateStream(r)' = getOrCreateStream(r)
  BY DEF Finalized, getOrCreateStream

\* A packet that begins an iteration
LEMMA StartIterations ==
    ASSUME TypeOK, NEW p \in Packets, StartIteration(p)
    PROVE  LET d == Extended(NewIteration(p), p, Len(arrived) + 1)
           IN  /\ Iterations(p.pid)' = Append(Iterations(p.pid), d)
               /\ \A r : r # p.pid => Iterations(r)' = Iterations(r)
               /\ DOMAIN current_iterations' =
                     DOMAIN current_iterations \cup {p.pid}
  <1> DEFINE d == Extended(NewIteration(p), p, Len(arrived) + 1)
             q == p.pid
             P == Closes(p)
  <1>1. d \in IterationData
    <2>1. p \in Packet /\ Len(arrived) + 1 \in Nat
      BY ConstantsAssumption, LenProperties DEF TypeOK, HistoryTypeOK
    <2>2. QED
      BY <2>1, NewIterationType, ExtendedType
  <1>2. /\ streams' = Finalized(P) /\ P \in SUBSET DOMAIN current_iterations
        /\ current_iterations' = Put(current_iterations, q, d)
        /\ P = IF IsPending(q) THEN {q} ELSE {}
    BY DEF StartIteration, Closes, IsPending
  <1> HIDE DEF d, P
  <1>3. /\ DOMAIN current_iterations' = DOMAIN current_iterations \cup {q}
        /\ current_iterations'[q] = d
        /\ \A r \in DOMAIN current_iterations \ {q} :
              current_iterations'[r] = current_iterations[r]
    <2>1. /\ DOMAIN Put(current_iterations, q, d)
                = DOMAIN current_iterations \cup {q}
          /\ Put(current_iterations, q, d)[q] = d
          /\ \A r \in DOMAIN current_iterations \ {q} :
                Put(current_iterations, q, d)[r] = current_iterations[r]
      BY DEF Put
    <2>2. QED
      BY <1>2, <2>1, Zenon
  <1>4. Iterations(q)' = Append(Iterations(q), d)
    <2>1. Iterations(q)' = ItsOf(getOrCreateStream(q)', TRUE, d)
      <3>1. IsPending(q)' = TRUE
        BY <1>3 DEF IsPending
      <3>2. Iterations(q)' = ItsOf(getOrCreateStream(q)', IsPending(q)',
                                   current_iterations'[q])
        BY IterationsAre
      <3>3. QED
        BY <1>3, <3>1, <3>2, Zenon
    <2>2. getOrCreateStream(q) \in Seq(Entry)
      BY StreamType
    <2>3. CASE IsPending(q)
      <3> DEFINE e == [id |-> current_iteration_ids[q],
                       data |-> current_iterations[q]]
      <3>1. e \in Entry /\ e.data = current_iterations[q]
        BY <2>3, PendingType
      <3>2. getOrCreateStream(q)' = Append(getOrCreateStream(q), e)
        BY <1>2, <2>3, OtherStreams
      <3> HIDE DEF e
      <3>3. ItsOf(Append(getOrCreateStream(q), e), TRUE, d)
              = Append(ItsOf(getOrCreateStream(q), TRUE, e.data), d)
        BY <1>1, <2>2, <3>1, ItsCloseAndStart
      <3>4. Iterations(q) = ItsOf(getOrCreateStream(q), TRUE, e.data)
        <4>1. IsPending(q) = TRUE
          BY <2>3, PendingType
        <4>2. QED
          BY <3>1, <4>1, IterationsAre, Zenon
      <3>5. QED
        BY <2>1, <3>2, <3>3, <3>4, Zenon
    <2>4. CASE ~IsPending(q)
      <3>1. getOrCreateStream(q)' = getOrCreateStream(q)
        BY <1>2, <2>4, OtherStreams
      <3>2. ItsOf(getOrCreateStream(q), TRUE, d)
              = Append(ItsOf(getOrCreateStream(q), FALSE,
                             current_iterations[q]), d)
        BY <1>1, <2>2, ItsStart
      <3>3. Iterations(q) = ItsOf(getOrCreateStream(q), FALSE,
                                  current_iterations[q])
        <4>1. IsPending(q) = FALSE
          BY <2>4, PendingType
        <4>2. QED
          BY <4>1, IterationsAre, Zenon
      <3>4. QED
        BY <2>1, <3>1, <3>2, <3>3, Zenon
    <2>5. QED
      BY <2>3, <2>4
  <1>5. ASSUME NEW r, r # q PROVE Iterations(r)' = Iterations(r)
    <2>1. r \notin P
      BY <1>2, <1>5
    <2>2. getOrCreateStream(r)' = getOrCreateStream(r)
      BY <1>2, <2>1, OtherStreams
    <2>3. IsPending(r)' <=> IsPending(r)
      BY <1>3, <1>5 DEF IsPending
    <2>4. IsPending(r) => current_iterations'[r] = current_iterations[r]
      BY <1>3, <1>5 DEF IsPending
    <2>5. QED
      BY <2>2, <2>3, <2>4, Zenon DEF Iterations, IsPending
  <1>6. QED
    BY <1>3, <1>4, <1>5 DEF d

\* A packet that goes on with the pending iteration
LEMMA ContinueIterations ==
    ASSUME TypeOK, NEW p \in Packets, ContinueIteration(p)
    PROVE  LET t == Iterations(p.pid)
               d == Extended(t[Len(t)], p, Len(arrived) + 1)
           IN  /\ t # <<>>
               /\ Iterations(p.pid)' = LastReplaced(t, d)
               /\ \A r : r # p.pid => Iterations(r)' = Iterations(r)
               /\ DOMAIN current_iterations' = DOMAIN current_iterations
  <1> DEFINE q == p.pid
             c == current_iterations[q]
             t == Iterations(q)
             d == Extended(c, p, Len(arrived) + 1)
             s == getOrCreateStream(q)
  <1>1. /\ IsPending(q) /\ UNCHANGED streams
        /\ current_iterations' = Put(current_iterations, q, d)
    BY DEF ContinueIteration, IsPending, storageVars
  <1>2. c \in IterationData /\ d \in IterationData
    <2>1. p \in Packet /\ Len(arrived) + 1 \in Nat
      BY ConstantsAssumption, LenProperties DEF TypeOK, HistoryTypeOK
    <2>2. QED
      BY <1>1, <2>1, PendingType, ExtendedType
  <1> HIDE DEF d
  <1>3. /\ DOMAIN current_iterations' = DOMAIN current_iterations
        /\ current_iterations'[q] = d
        /\ \A r \in DOMAIN current_iterations \ {q} :
              current_iterations'[r] = current_iterations[r]
    <2>1. /\ DOMAIN Put(current_iterations, q, d)
                = DOMAIN current_iterations \cup {q}
          /\ Put(current_iterations, q, d)[q] = d
          /\ \A r \in DOMAIN current_iterations \ {q} :
                Put(current_iterations, q, d)[r] = current_iterations[r]
      BY DEF Put
    <2>2. DOMAIN current_iterations \cup {q} = DOMAIN current_iterations
      BY <1>1 DEF IsPending
    <2>3. QED
      BY <1>1, <2>1, <2>2, Zenon
  <1>4. \A r : getOrCreateStream(r)' = getOrCreateStream(r)
    BY <1>1 DEF getOrCreateStream
  <1>5. t = ItsOf(s, TRUE, c) /\ Iterations(q)' = ItsOf(s, TRUE, d)
    <2>1. IsPending(q) = TRUE /\ IsPending(q)' = TRUE
      BY <1>1, <1>3 DEF IsPending
    <2>2. QED
      BY <1>3, <1>4, <2>1, IterationsAre, Zenon
  <1>6. s \in Seq(Entry)
    BY StreamType
  <1>7. /\ t \in Seq(IterationData) /\ Len(t) = Len(s) + 1
        /\ t[Len(s) + 1] = c /\ Len(s) \in Nat
    <2> HIDE DEF s, c, t
    <2>1. QED
      BY <1>2, <1>5, <1>6, ItsShape, LenProperties
  <1>8. Iterations(q)' = LastReplaced(t, d)
    <2> HIDE DEF s, c, t
    <2>1. ItsOf(s, TRUE, d) = LastReplaced(ItsOf(s, TRUE, c), d)
      BY <1>2, <1>6, ItsExtend
    <2>2. QED
      BY <1>5, <2>1, Zenon
  <1>9. d = Extended(t[Len(t)], p, Len(arrived) + 1)
    <2>1. t[Len(t)] = c
      BY <1>7
    <2>2. QED
      BY <2>1, Zenon DEF d
  <1>10. t # <<>>
    BY <1>7, EmptySeq
  <1>11. ASSUME NEW r, r # q PROVE Iterations(r)' = Iterations(r)
    <2>1. IsPending(r)' <=> IsPending(r)
      BY <1>3 DEF IsPending
    <2>2. IsPending(r) => current_iterations'[r] = current_iterations[r]
      BY <1>3, <1>11 DEF IsPending
    <2>3. QED
      BY <1>4, <2>1, <2>2, Zenon DEF Iterations, IsPending
  <1>12. QED
    <2> HIDE DEF t
    <2>1. QED
      BY <1>3, <1>8, <1>9, <1>10, <1>11, Zenon DEF t

\* The getters
LEMMA FinishIterations ==
    ASSUME TypeOK, FinalizeAllIterations
    PROVE  /\ \A r : Iterations(r)' = Iterations(r)
           /\ DOMAIN current_iterations' = {}
           /\ UNCHANGED arrived
  <1>1. /\ streams' = Finalized(DOMAIN current_iterations)
        /\ DOMAIN current_iterations' = {} /\ UNCHANGED arrived
    BY EmptyMap DEF FinalizeAllIterations, historyVars
  <1>2. ASSUME NEW r PROVE Iterations(r)' = Iterations(r)
    <2> DEFINE s == getOrCreateStream(r)
               c == current_iterations[r]
               e == [id |-> current_iteration_ids[r], data |-> c]
    <2>1. s \in Seq(Entry)
      BY StreamType
    <2>2. Iterations(r)' = ItsOf(s', FALSE, current_iterations'[r])
      <3>1. IsPending(r)' = FALSE
        BY <1>1 DEF IsPending
      <3>2. QED
        BY <3>1, IterationsAre, Zenon
    <2>3. CASE IsPending(r)
      <3>1. e \in Entry /\ e.data = c /\ IsPending(r) = TRUE
        BY <2>3, PendingType
      <3>2. s' = Append(s, e)
        BY <1>1, <2>3, OtherStreams DEF IsPending
      <3>3. Iterations(r) = ItsOf(s, TRUE, e.data)
        BY <3>1, IterationsAre, Zenon
      <3> HIDE DEF s, e
      <3>4. ItsOf(Append(s, e), FALSE, current_iterations'[r])
              = ItsOf(s, TRUE, e.data)
        BY <2>1, <3>1, ItsFinish
      <3>5. QED
        BY <2>2, <3>2, <3>3, <3>4, Zenon
    <2>4. CASE ~IsPending(r)
      <3>1. s' = s
        BY <1>1, <2>4, OtherStreams DEF IsPending
      <3>2. Iterations(r) = ItsOf(s, FALSE, c)
        <4>1. IsPending(r) = FALSE
          BY <2>4, PendingType
        <4>2. QED
          BY <4>1, IterationsAre, Zenon
      <3> HIDE DEF s, c
      <3>3. ItsOf(s, FALSE, c) = ItsOf(s, FALSE, current_iterations'[r])
        BY Zenon DEF ItsOf
      <3>4. QED
        BY <2>2, <3>1, <3>2, <3>3, Zenon
    <2>5. QED
      BY <2>3, <2>4
  <1>3. QED
    BY <1>1, <1>2

\* clearIteration() takes one finished iteration away, or nothing.
LEMMA ClearIterationIterations ==
    ASSUME TypeOK, NEW q \in Pid, NEW id, ClearIteration(q, id)
    PROVE  /\ \A r : r # q => Iterations(r)' = Iterations(r)
           /\ \/ Iterations(q)' = Iterations(q)
              \/ \E k \in 1..Len(getOrCreateStream(q)) :
                    Iterations(q)' = RemoveAt(Iterations(q), k)
           /\ UNCHANGED <<current_iterations, arrived>>
  <1> DEFINE s == getOrCreateStream(q)
             c == current_iterations[q]
             d == IsPending(q)
  <1>1. /\ streams' = Put(streams, q, removeIteration(s, id))
        /\ UNCHANGED <<current_iterations, arrived>>
    BY DEF ClearIteration, currentVars
  <1>2. /\ getOrCreateStream(q)' = removeIteration(s, id)
        /\ \A r : r # q => getOrCreateStream(r)' = getOrCreateStream(r)
    <2> DEFINE u == removeIteration(s, id)
    <2> HIDE DEF u
    <2>1. streams' = Put(streams, q, u)
      BY <1>1 DEF u
    <2>2. /\ DOMAIN streams' = DOMAIN streams \cup {q}
          /\ streams'[q] = u
          /\ \A r \in DOMAIN streams \ {q} : streams'[r] = streams[r]
      BY <2>1 DEF Put
    <2>3. QED
      BY <2>2 DEF u, getOrCreateStream
  <1>3. s \in Seq(Entry) /\ d \in BOOLEAN /\ (d => c \in IterationData)
    BY StreamType, PendingType
  <1>4. /\ Iterations(q) = ItsOf(s, d, c)
        /\ Iterations(q)' = ItsOf(removeIteration(s, id), d, c)
    <2>1. IsPending(q)' = IsPending(q)
      BY <1>1 DEF IsPending
    <2>2. QED
      BY <1>1, <1>2, <2>1, IterationsAre, Zenon
  <1>5. ASSUME NEW r, r # q PROVE Iterations(r)' = Iterations(r)
    <2>1. QED
      BY <1>1, <1>2, <1>5, Zenon DEF Iterations
  <1>6. \/ Iterations(q)' = Iterations(q)
        \/ \E k \in 1..Len(s) : Iterations(q)' = RemoveAt(Iterations(q), k)
    <2> DEFINE k == IndexOf(s, id)
    <2> HIDE DEF s, c, d
    <2>1. k \in 0..Len(s) /\ Len(s) \in Nat
      BY <1>3, IndexOfType, LenProperties
    <2>2. removeIteration(s, id) = IF k = 0 THEN s ELSE RemoveAt(s, k)
      BY DEF removeIteration
    <2> HIDE DEF k
    <2>3. CASE k = 0
      BY <1>4, <2>2, <2>3
    <2>4. CASE k # 0
      <3>1. k \in 1..Len(s)
        BY <2>1, <2>4
      <3>2. ItsOf(RemoveAt(s, k), d, c) = RemoveAt(ItsOf(s, d, c), k)
        BY <1>3, <3>1, ItsRemove
      <3>3. Iterations(q)' = RemoveAt(Iterations(q), k)
        BY <1>4, <2>2, <2>4, <3>2
      <3>4. QED
        BY <3>1, <3>3
    <2>5. QED
      BY <2>3, <2>4
  <1>7. QED
    BY <1>1, <1>5, <1>6

\* What is left of the iterations when all finished ones go
OnlyPending(q) == SubSeq(Iterations(q), Len(getOrCreateStream(q)) + 1,
                         Len(Iterations(q)))

LEMMA DroppedIterations ==
    ASSUME TypeOK, NEW q, getOrCreateStream(q)' = <<>>,
           UNCHANGED current_iterations
    PROVE  Iterations(q)' = OnlyPending(q)
  <1> DEFINE s == getOrCreateStream(q)
             c == current_iterations[q]
             d == IsPending(q)
  <1>1. s \in Seq(Entry) /\ d \in BOOLEAN /\ (d => c \in IterationData)
    BY StreamType, PendingType
  <1>2. Iterations(q) = ItsOf(s, d, c) /\ Iterations(q)' = ItsOf(<<>>, d, c)
    <2>1. IsPending(q)' = IsPending(q)
      BY DEF IsPending
    <2>2. QED
      BY <2>1, IterationsAre, Zenon
  <1>3. OnlyPending(q) = SubSeq(ItsOf(s, d, c), Len(s) + 1,
                                Len(ItsOf(s, d, c)))
    BY <1>2 DEF OnlyPending
  <1> HIDE DEF s, c, d
  <1>4. ItsOf(<<>>, d, c)
          = SubSeq(ItsOf(s, d, c), Len(s) + 1, Len(ItsOf(s, d, c)))
    BY <1>1, ItsDrop
  <1>5. QED
    BY <1>2, <1>3, <1>4

LEMMA ClearStreamIterations ==
    ASSUME TypeOK, NEW q \in Pid, ClearStream(q)
    PROVE  /\ \A r : r # q => Iterations(r)' = Iterations(r)
           /\ Iterations(q)' = OnlyPending(q)
           /\ UNCHANGED <<current_iterations, arrived>>
  <1>1. /\ q \in DOMAIN streams /\ streams' = [streams EXCEPT ![q] = <<>>]
        /\ UNCHANGED <<current_iterations, arrived>>
    BY DEF ClearStream, currentVars
  <1>2. /\ getOrCreateStream(q)' = <<>>
        /\ \A r : r # q => getOrCreateStream(r)' = getOrCreateStream(r)
    BY <1>1 DEF getOrCreateStream
  <1>3. ASSUME NEW r, r # q PROVE Iterations(r)' = Iterations(r)
    BY <1>1, <1>2, <1>3, Zenon DEF Iterations
  <1>4. QED
    BY <1>1, <1>2, <1>3, DroppedIterations

LEMMA SetProgramsTableIterations ==
    ASSUME TypeOK, NEW K \in Tables, SetProgramsTable(K)
    PROVE  /\ \A r : Iterations(r)' = OnlyPending(r)
           /\ UNCHANGED <<current_iterations, arrived>>
  <1>1. streams' = <<>> /\ UNCHANGED <<current_iterations, arrived>>
    BY DEF SetProgramsTable, currentVars
  <1>2. \A r : getOrCreateStream(r)' = <<>>
    BY <1>1, EmptyMap DEF getOrCreateStream
  <1>3. QED
    BY <1>1, <1>2, DroppedIterations

\* A clearAll() that crashes, like a step that does nothing, leaves what is
\* kept as it was.
LEMMA StandsStill ==
    ASSUME UNCHANGED vars \/ ClearAllCrashes
    PROVE  /\ UNCHANGED <<streams, current_iterations, arrived, owed>>
           /\ \A r : Iterations(r)' = Iterations(r)
  <1>1. UNCHANGED <<streams, current_iterations, arrived, owed>>
    BY DEF vars, ClearAllCrashes, storageVars, currentVars, historyVars
  <1>2. \A r : Iterations(r)' = Iterations(r)
    BY <1>1, Zenon DEF Iterations, getOrCreateStream
  <1>3. QED
    BY <1>1, <1>2

\* A PID with nothing finished and nothing pending has no iteration.
LEMMA NothingHeld ==
    ASSUME NEW r, getOrCreateStream(r)' = <<>>, IsPending(r)' = FALSE
    PROVE  Iterations(r)' = <<>>
  <1>1. Iterations(r)' = ItsOf(<<>>, FALSE, current_iterations'[r])
    BY IterationsAre, Zenon
  <1>2. ASSUME NEW c PROVE ItsOf(<<>>, FALSE, c) = <<>>
    <2>1. <<>> \in Seq(Entry) /\ Len(<<>>) = 0
      BY EmptySeq
    <2>2. /\ ItsOf(<<>>, FALSE, c) \in Seq(IterationData)
          /\ Len(ItsOf(<<>>, FALSE, c)) = 0 + 0
      BY <2>1, ItsShape
    <2> DEFINE t == ItsOf(<<>>, FALSE, c)
    <2> HIDE DEF t
    <2>3. t \in Seq(IterationData) /\ Len(t) = 0 + 0
      BY <2>2, Zenon DEF t
    <2>4. t \in Seq(IterationData) /\ Len(t) = 0
      BY <2>3
    <2>5. QED
      BY <2>4, EmptySeq DEF t
  <1>3. QED
    BY <1>1, <1>2

LEMMA ClearAllIterations ==
    ASSUME ClearAll
    PROVE  /\ \A r : Iterations(r)' = <<>>
           /\ DOMAIN current_iterations' = {} /\ UNCHANGED arrived
  <1>1. /\ streams' = <<>> /\ current_iterations' = <<>> /\ UNCHANGED arrived
    BY DEF ClearAll
  <1>2. DOMAIN streams' = {} /\ DOMAIN current_iterations' = {}
    BY <1>1, EmptyMap
  <1>3. ASSUME NEW r PROVE Iterations(r)' = <<>>
    <2>1. getOrCreateStream(r)' = <<>>
      BY <1>2 DEF getOrCreateStream
    <2>2. IsPending(r)' = FALSE
      BY <1>2 DEF IsPending
    <2>3. QED
      BY <2>1, <2>2, NothingHeld
  <1>4. QED
    BY <1>1, <1>2, <1>3

-----------------------------------------------------------------------------
(***************************************************************************)
(* StreamStorage implements PacketStore.                                   *)
(***************************************************************************)
PktsSeq(t) == [i \in DOMAIN t |-> t[i].pkts]

LEMMA PktsSeqShape ==
    ASSUME NEW t \in Seq(IterationData)
    PROVE  /\ PktsSeq(t) \in Seq(Seq(Nat)) /\ Len(PktsSeq(t)) = Len(t)
           /\ \A i \in 1..Len(t) : PktsSeq(t)[i] = t[i].pkts
  <1>1. Len(t) \in Nat /\ DOMAIN t = 1..Len(t)
    BY LenProperties
  <1>2. ASSUME NEW i \in 1..Len(t) PROVE t[i].pkts \in Seq(Nat)
    <2>1. t[i] \in IterationData
      BY ElementOfSeq
    <2>2. QED
      BY <2>1 DEF IterationData
  <1>3. QED
    BY <1>1, <1>2 DEF PktsSeq

LEMMA PktsSeqAppend ==
    ASSUME NEW t \in Seq(IterationData), NEW d \in IterationData
    PROVE  PktsSeq(Append(t, d)) = Append(PktsSeq(t), d.pkts)
  <1> DEFINE u == Append(t, d)
             p == PktsSeq(t)
             v == PktsSeq(u)
             w == Append(p, d.pkts)
             n == Len(t)
  <1>1. /\ u \in Seq(IterationData) /\ Len(u) = n + 1 /\ n \in Nat
        /\ \A i \in 1..n : u[i] = t[i]
        /\ u[n + 1] = d
    BY AppendedAt, LenProperties
  <1>2. /\ p \in Seq(Seq(Nat)) /\ Len(p) = n
        /\ \A i \in 1..n : p[i] = t[i].pkts
    BY PktsSeqShape
  <1>3. d.pkts \in Seq(Nat)
    BY DEF IterationData
  <1> HIDE DEF u, p
  <1>4. /\ v \in Seq(Seq(Nat)) /\ Len(v) = Len(u)
        /\ \A i \in 1..Len(u) : v[i] = u[i].pkts
    BY <1>1, PktsSeqShape
  <1>5. /\ w \in Seq(Seq(Nat)) /\ Len(w) = Len(p) + 1
        /\ \A i \in 1..Len(p) : w[i] = p[i]
        /\ w[Len(p) + 1] = d.pkts
    BY <1>2, <1>3, AppendedAt
  <1> HIDE DEF v, w, n
  <1>6. ASSUME NEW i \in 1..Len(v) PROVE v[i] = w[i]
    <2>1. i \in 1..Len(u) /\ (i \in 1..n \/ i = n + 1)
      BY <1>1, <1>4
    <2>2. CASE i \in 1..n
      <3>1. v[i] = t[i].pkts
        BY <1>1, <1>4, <2>1, <2>2
      <3>2. w[i] = t[i].pkts
        BY <1>2, <1>5, <2>2
      <3>3. QED
        BY <3>1, <3>2
    <2>3. CASE i = n + 1
      BY <1>1, <1>2, <1>4, <1>5, <2>1, <2>3
    <2>4. QED
      BY <2>1, <2>2, <2>3
  <1>7. Len(v) = Len(w)
    BY <1>1, <1>2, <1>4, <1>5
  <1>8. v = w
    BY <1>4, <1>5, <1>6, <1>7, SeqEqual
  <1>9. QED
    BY <1>8 DEF v, w, u, p

LEMMA PktsSeqReplaced ==
    ASSUME NEW t \in Seq(IterationData), t # <<>>, NEW d \in IterationData
    PROVE  PktsSeq(LastReplaced(t, d)) = LastReplaced(PktsSeq(t), d.pkts)
  <1> DEFINE u == LastReplaced(t, d)
             p == PktsSeq(t)
             v == PktsSeq(u)
             w == LastReplaced(p, d.pkts)
             n == Len(t)
  <1>1. n \in Nat /\ n \in 1..n
    BY LenProperties, EmptySeq
  <1>2. /\ u \in Seq(IterationData) /\ Len(u) = n
        /\ \A i \in 1..n : u[i] = IF i = n THEN d ELSE t[i]
    BY <1>1, ExceptSeq DEF LastReplaced
  <1>3. /\ p \in Seq(Seq(Nat)) /\ Len(p) = n
        /\ \A i \in 1..n : p[i] = t[i].pkts
    BY PktsSeqShape
  <1>4. d.pkts \in Seq(Nat)
    BY DEF IterationData
  <1> HIDE DEF u, p, n
  <1>5. /\ v \in Seq(Seq(Nat)) /\ Len(v) = n
        /\ \A i \in 1..n : v[i] = u[i].pkts
    BY <1>2, PktsSeqShape
  <1>6. /\ w \in Seq(Seq(Nat)) /\ Len(w) = n
        /\ \A i \in 1..n : w[i] = IF i = n THEN d.pkts ELSE p[i]
    BY <1>1, <1>3, <1>4, ExceptSeq DEF LastReplaced
  <1> HIDE DEF v, w
  <1>7. ASSUME NEW i \in 1..n PROVE v[i] = w[i]
    BY <1>2, <1>3, <1>5, <1>6
  <1>8. v = w
    BY <1>5, <1>6, <1>7, SeqEqual
  <1>9. QED
    BY <1>8 DEF v, w, u, p

LEMMA PktsSeqRemove ==
    ASSUME NEW t \in Seq(IterationData), NEW k \in 1..Len(t)
    PROVE  PktsSeq(RemoveAt(t, k)) = RemoveAt(PktsSeq(t), k)
  <1> DEFINE u == RemoveAt(t, k)
             p == PktsSeq(t)
             v == PktsSeq(u)
             w == RemoveAt(p, k)
             n == Len(t)
  <1>1. n \in Nat
    BY LenProperties
  <1>2. /\ u \in Seq(IterationData) /\ Len(u) = n - 1
        /\ \A i \in 1..(n - 1) : u[i] = IF i < k THEN t[i] ELSE t[i + 1]
    BY RemovedAt
  <1>3. /\ p \in Seq(Seq(Nat)) /\ Len(p) = n
        /\ \A i \in 1..n : p[i] = t[i].pkts
    BY PktsSeqShape
  <1> HIDE DEF u, p
  <1>4. /\ v \in Seq(Seq(Nat)) /\ Len(v) = Len(u)
        /\ \A i \in 1..Len(u) : v[i] = u[i].pkts
    BY <1>2, PktsSeqShape
  <1>5. /\ w \in Seq(Seq(Nat)) /\ Len(w) = Len(p) - 1
        /\ \A i \in 1..(Len(p) - 1) : w[i] = IF i < k THEN p[i] ELSE p[i + 1]
    BY <1>3, RemovedAt
  <1> HIDE DEF v, w, n
  <1>6. ASSUME NEW i \in 1..Len(v) PROVE v[i] = w[i]
    <2>1. i \in 1..Len(u) /\ i \in 1..(n - 1) /\ i \in 1..n /\ i + 1 \in 1..n
      BY <1>1, <1>2, <1>4
    <2>2. v[i] = u[i].pkts
      BY <1>4, <2>1
    <2>3. CASE i < k
      <3>1. u[i] = t[i] /\ w[i] = p[i] /\ p[i] = t[i].pkts
        BY <1>2, <1>3, <1>5, <2>1, <2>3
      <3>2. QED
        BY <2>2, <3>1
    <2>4. CASE ~(i < k)
      <3>1. u[i] = t[i + 1] /\ w[i] = p[i + 1] /\ p[i + 1] = t[i + 1].pkts
        BY <1>2, <1>3, <1>5, <2>1, <2>4
      <3>2. QED
        BY <2>2, <3>1
    <2>5. QED
      BY <2>3, <2>4
  <1>7. Len(v) = Len(w)
    BY <1>2, <1>3, <1>4, <1>5
  <1>8. v = w
    BY <1>4, <1>5, <1>6, <1>7, SeqEqual
  <1>9. QED
    BY <1>8 DEF v, w, u, p

LEMMA PktsSeqDrop ==
    ASSUME NEW t \in Seq(IterationData), NEW m \in Nat, m <= Len(t)
    PROVE  PktsSeq(SubSeq(t, m + 1, Len(t)))
             = SubSeq(PktsSeq(t), m + 1, Len(PktsSeq(t)))
  <1> DEFINE n == Len(t)
             u == SubSeq(t, m + 1, n)
             p == PktsSeq(t)
             v == PktsSeq(u)
             w == SubSeq(p, m + 1, n)
  <1>1. n \in Nat /\ m <= n
    BY LenProperties
  <1>2. /\ u \in Seq(IterationData) /\ Len(u) = n - m
        /\ \A i \in 1..(n - m) : u[i] = t[m + i]
    BY <1>1, PartAt
  <1>3. /\ p \in Seq(Seq(Nat)) /\ Len(p) = n
        /\ \A i \in 1..n : p[i] = t[i].pkts
    BY PktsSeqShape
  <1> HIDE DEF u, p, n
  <1>4. /\ v \in Seq(Seq(Nat)) /\ Len(v) = n - m
        /\ \A i \in 1..(n - m) : v[i] = u[i].pkts
    BY <1>2, PktsSeqShape
  <1>5. /\ w \in Seq(Seq(Nat)) /\ Len(w) = n - m
        /\ \A i \in 1..(n - m) : w[i] = p[m + i]
    BY <1>1, <1>3, PartAt
  <1> HIDE DEF v, w
  <1>6. ASSUME NEW i \in 1..(n - m) PROVE v[i] = w[i]
    <2>1. m + i \in 1..n
      BY <1>1
    <2>2. QED
      BY <1>2, <1>3, <1>4, <1>5, <2>1
  <1>7. v = w
    BY <1>4, <1>5, <1>6, SeqEqual
  <1>8. Len(p) = n
    BY <1>3
  <1>9. QED
    BY <1>7, <1>8 DEF v, w, u, p, n

LEMMA UnitsAre ==
    /\ Units = [q \in Pid |-> PktsSeq(Iterations(q))]
    /\ Units' = [q \in Pid |-> PktsSeq(Iterations(q)')]
  BY Zenon DEF Units, PktsSeq

LEMMA UnitsKept ==
    ASSUME \A r \in Pid : Iterations(r)' = Iterations(r)
    PROVE  Units' = Units
  BY UnitsAre, Zenon

\* A step that touches one PID
LEMMA UnitsExcept ==
    ASSUME NEW q \in Pid,
           \A r : r # q => Iterations(r)' = Iterations(r),
           NEW u, PktsSeq(Iterations(q)') = u
    PROVE  Units' = [Units EXCEPT ![q] = u]
  <1> DEFINE before(r) == PktsSeq(Iterations(r))
             after(r) == PktsSeq(Iterations(r)')
  <1>1. Units = [r \in Pid |-> before(r)] /\ Units' = [r \in Pid |-> after(r)]
    BY UnitsAre
  <1>2. after(q) = u /\ \A r : r # q => after(r) = before(r)
    OBVIOUS
  <1> HIDE DEF before, after
  <1>3. QED
    BY <1>1, <1>2

LEMMA UnitsAt ==
    ASSUME TypeOK, NEW q \in Pid
    PROVE  /\ Units[q] = PktsSeq(Iterations(q))
           /\ Iterations(q) \in Seq(IterationData)
           /\ Units[q] \in Seq(Seq(Nat)) /\ Len(Units[q]) = Len(Iterations(q))
           /\ Store!Finished(q) = Len(getOrCreateStream(q))
           /\ Len(getOrCreateStream(q)) \in Nat
           /\ Len(getOrCreateStream(q)) <= Len(Iterations(q))
  <1> DEFINE t == Iterations(q)
             s == getOrCreateStream(q)
  <1>1. Units[q] = PktsSeq(t)
    BY UnitsAre, Zenon
  <1>2. /\ t \in Seq(IterationData) /\ Len(s) \in Nat
        /\ Len(t) = Len(s) + (IF IsPending(q) THEN 1 ELSE 0)
    BY IterationsShape, StreamType, LenProperties
  <1>3. Store!Finished(q) = IF q \in DOMAIN current_iterations
                            THEN Len(Units[q]) - 1 ELSE Len(Units[q])
    BY DEF Store!Finished
  <1> HIDE DEF t, s
  <1>4. Units[q] \in Seq(Seq(Nat)) /\ Len(Units[q]) = Len(t)
    BY <1>1, <1>2, PktsSeqShape
  <1>5. CASE IsPending(q)
    <2>1. Store!Finished(q) = Len(Units[q]) - 1
      BY <1>3, <1>5 DEF IsPending
    <2>2. Len(t) = Len(s) + 1
      BY <1>2, <1>5
    <2>3. QED
      BY <1>1, <1>2, <1>4, <2>1, <2>2 DEF t, s
  <1>6. CASE ~IsPending(q)
    <2>1. Store!Finished(q) = Len(Units[q])
      BY <1>3, <1>6 DEF IsPending
    <2>2. Len(t) = Len(s)
      BY <1>2, <1>6
    <2>3. QED
      BY <1>1, <1>2, <1>4, <2>1, <2>2 DEF t, s
  <1>7. QED
    BY <1>5, <1>6

\* The number of the packet is the only thing Extended() adds to pkts.
LEMMA ExtendedPkts ==
    ASSUME NEW p, NEW n, NEW d
    PROVE  /\ Extended(d, p, n).pkts = Append(d.pkts, n)
           /\ Extended(NewIteration(p), p, n).pkts = <<n>>
  <1>1. NewIteration(p).pkts = <<>>
    BY DEF NewIteration
  <1>2. \A x : Extended(x, p, n).pkts = Append(x.pkts, n)
    BY DEF Extended
  <1>3. Append(<<>>, n) = <<n>>
    OBVIOUS
  <1>4. QED
    BY <1>1, <1>2, <1>3

LEMMA PacketFacts ==
    ASSUME TypeOK, NEW p \in Packets, AddPacket(p)
    PROVE  /\ p \in Packet /\ p.pid \in Pid
           /\ Len(arrived) \in Nat /\ Len(arrived') = Len(arrived) + 1
           /\ Len(arrived) + 1 \in Nat
           /\ \A i \in 1..Len(arrived) : arrived'[i] = arrived[i]
           /\ arrived'[Len(arrived) + 1] = p
  <1>1. p \in Packet
    BY ConstantsAssumption
  <1>2. arrived \in Seq(Packets) /\ arrived' = Append(arrived, p)
    BY DEF TypeOK, HistoryTypeOK, AddPacket
  <1>3. QED
    BY <1>1, <1>2, AppendedAt, LenProperties DEF Packet

LEMMA AddPacketStores ==
    ASSUME TypeOK, NEW p \in Packets, AddPacket(p)
    PROVE  \/ Store!Ignore
           \/ \E q \in Pid : Store!Begin(q) \/ Store!Extend(q)
  <1> DEFINE q == p.pid
             n == Len(arrived) + 1
  <1>1. p \in Packet /\ q \in Pid /\ Len(arrived') = n /\ n \in Nat
    BY PacketFacts
  <1>2. SkipPacket(p) \/ StartIteration(p) \/ ContinueIteration(p)
    BY DEF AddPacket
  <1>3. CASE SkipPacket(p)
    <2>1. UNCHANGED <<streams, current_iterations>>
      BY <1>3 DEF SkipPacket, storageVars, currentVars
    <2>2. \A r : Iterations(r)' = Iterations(r)
      BY <2>1, Zenon DEF Iterations, getOrCreateStream
    <2>3. UNCHANGED <<Units, DOMAIN current_iterations>>
      BY <2>1, <2>2, UnitsKept
    <2>4. Store!Ignore
      BY <1>1, <2>3 DEF Store!Ignore
    <2>5. QED
      BY <2>4
  <1>4. CASE StartIteration(p)
    <2> DEFINE d == Extended(NewIteration(p), p, n)
               t == Iterations(q)
    <2>1. /\ Iterations(q)' = Append(t, d)
          /\ \A r : r # q => Iterations(r)' = Iterations(r)
          /\ DOMAIN current_iterations' = DOMAIN current_iterations \cup {q}
      BY <1>4, StartIterations
    <2>2. d \in IterationData /\ t \in Seq(IterationData)
      BY <1>1, NewIterationType, ExtendedType, UnitsAt
    <2>3. d.pkts = <<n>> /\ Units[q] = PktsSeq(t)
      BY <1>1, ExtendedPkts, UnitsAt
    <2> HIDE DEF d, t
    <2>4. PktsSeq(Iterations(q)') = Append(Units[q], <<n>>)
      <3>1. PktsSeq(Append(t, d)) = Append(PktsSeq(t), d.pkts)
        BY <2>2, PktsSeqAppend
      <3>2. QED
        BY <2>1, <2>3, <3>1, Zenon
    <2> HIDE DEF q
    <2>5. Units' = [Units EXCEPT ![q] = Append(Units[q], <<n>>)]
      BY <1>1, <2>1, <2>4, UnitsExcept
    <2>6. Store!Begin(q)
      BY <1>1, <2>1, <2>5 DEF Store!Begin
    <2>7. QED
      BY <1>1, <2>6
  <1>5. CASE ContinueIteration(p)
    <2> DEFINE t == Iterations(q)
               d == Extended(t[Len(t)], p, n)
    <2>1. /\ t # <<>>
          /\ Iterations(q)' = LastReplaced(t, d)
          /\ \A r : r # q => Iterations(r)' = Iterations(r)
          /\ DOMAIN current_iterations' = DOMAIN current_iterations
      BY <1>5, ContinueIterations
    <2>2. /\ t \in Seq(IterationData) /\ Units[q] = PktsSeq(t)
      BY <1>1, UnitsAt
    <2>3. q \in DOMAIN current_iterations
      BY <1>5 DEF ContinueIteration
    <2> HIDE DEF t
    <2>4. Len(t) \in Nat /\ Len(t) \in 1..Len(t) /\ t[Len(t)] \in IterationData
      BY <2>1, <2>2, LenProperties, EmptySeq, ElementOfSeq
    <2>5. d \in IterationData /\ d.pkts = Append(t[Len(t)].pkts, n)
      BY <1>1, <2>4, ExtendedType, ExtendedPkts
    <2>6. /\ Len(PktsSeq(t)) = Len(t)
          /\ PktsSeq(t)[Len(t)] = t[Len(t)].pkts
      BY <2>2, <2>4, PktsSeqShape
    <2> HIDE DEF d
    <2>7. PktsSeq(LastReplaced(t, d)) = LastReplaced(PktsSeq(t), d.pkts)
      BY <2>1, <2>2, <2>5, PktsSeqReplaced
    <2> DEFINE u == LastReplaced(Units[q], d.pkts)
    <2>8. PktsSeq(Iterations(q)') = u
      BY <2>1, <2>2, <2>7, Zenon
    <2>9. d.pkts = Append(Units[q][Len(Units[q])], n)
      BY <2>2, <2>5, <2>6, Zenon
    <2>a. u = [Units[q] EXCEPT ![Len(Units[q])] = Append(@, n)]
      BY <2>9 DEF LastReplaced
    <2> HIDE DEF q, u
    <2>b. Units' = [Units EXCEPT ![q] = u]
      BY <1>1, <2>1, <2>8, UnitsExcept
    <2>c. Units' = [Units EXCEPT ![q] =
                        [Units[q] EXCEPT ![Len(Units[q])] = Append(@, n)]]
      BY <2>a, <2>b, Zenon
    <2>d. Store!Extend(q)
      BY <1>1, <2>1, <2>3, <2>c DEF Store!Extend
    <2>e. QED
      BY <1>1, <2>d
  <1>6. QED
    BY <1>2, <1>3, <1>4, <1>5

LEMMA ClearIterationStores ==
    ASSUME TypeOK, NEW q \in Pid, NEW id, ClearIteration(q, id)
    PROVE  Store!RemoveUnit(q) \/ UNCHANGED Store!storeVars
  <1> DEFINE t == Iterations(q)
             n == Len(getOrCreateStream(q))
  <1>1. /\ \A r : r # q => Iterations(r)' = Iterations(r)
        /\ Iterations(q)' = t \/ \E k \in 1..n : Iterations(q)' = RemoveAt(t, k)
        /\ UNCHANGED <<current_iterations, arrived>>
    BY ClearIterationIterations
  <1>2. /\ t \in Seq(IterationData) /\ Units[q] = PktsSeq(t)
        /\ Store!Finished(q) = n /\ n \in Nat /\ n <= Len(t)
    BY UnitsAt
  <1>3. CASE Iterations(q)' = t
    <2>1. \A r \in Pid : Iterations(r)' = Iterations(r)
      BY <1>1, <1>3
    <2>2. QED
      BY <1>1, <2>1, UnitsKept DEF Store!storeVars
  <1>4. ASSUME NEW k \in 1..n, Iterations(q)' = RemoveAt(t, k)
        PROVE  Store!RemoveUnit(q)
    <2> HIDE DEF t, n
    <2>1. k \in 1..Len(t)
      BY <1>2, LenProperties
    <2>2. PktsSeq(RemoveAt(t, k)) = RemoveAt(PktsSeq(t), k)
      BY <1>2, <2>1, PktsSeqRemove
    <2>3. PktsSeq(Iterations(q)') = RemoveAt(Units[q], k)
      BY <1>2, <1>4, <2>2, Zenon
    <2>4. Units' = [Units EXCEPT ![q] = RemoveAt(Units[q], k)]
      BY <1>1, <2>3, UnitsExcept
    <2>5. k \in 1..Store!Finished(q)
      BY <1>2
    <2>6. Len(arrived)' = Len(arrived)
          /\ (DOMAIN current_iterations)' = DOMAIN current_iterations
      BY <1>1
    <2>7. \E i \in 1..Store!Finished(q) :
             Units' = [Units EXCEPT ![q] = Store!RemoveAt(@, i)]
      <3>1. RemoveAt(Units[q], k) = Store!RemoveAt(Units[q], k)
        BY Zenon DEF RemoveAt, Store!RemoveAt
      <3>2. QED
        BY <2>4, <2>5, <3>1, Zenon
    <2>8. QED
      BY <2>6, <2>7, Zenon DEF Store!RemoveUnit
  <1>5. QED
    BY <1>1, <1>3, <1>4

LEMMA OnlyPendingUnits ==
    ASSUME TypeOK, NEW q \in Pid
    PROVE  PktsSeq(OnlyPending(q))
             = SubSeq(Units[q], Store!Finished(q) + 1, Len(Units[q]))
  <1> DEFINE t == Iterations(q)
             n == Len(getOrCreateStream(q))
  <1>1. /\ t \in Seq(IterationData) /\ Units[q] = PktsSeq(t)
        /\ Store!Finished(q) = n /\ n \in Nat /\ n <= Len(t)
    BY UnitsAt
  <1>2. OnlyPending(q) = SubSeq(t, n + 1, Len(t))
    BY DEF OnlyPending
  <1> HIDE DEF t, n
  <1>3. PktsSeq(SubSeq(t, n + 1, Len(t)))
          = SubSeq(PktsSeq(t), n + 1, Len(PktsSeq(t)))
    BY <1>1, PktsSeqDrop
  <1>4. QED
    BY <1>1, <1>2, <1>3, Zenon

LEMMA DropsStore ==
    ASSUME TypeOK, NEW P \in SUBSET Pid,
           \A r \in P : Iterations(r)' = OnlyPending(r),
           \A r \in Pid \ P : Iterations(r)' = Iterations(r),
           UNCHANGED <<current_iterations, arrived>>
    PROVE  Store!RemoveFinished(P)
  <1> DEFINE part(r) == SubSeq(Units[r], Store!Finished(r) + 1, Len(Units[r]))
             after(r) == PktsSeq(Iterations(r)')
  <1>1. \A r \in P : after(r) = part(r)
    BY OnlyPendingUnits
  <1>2. \A r \in Pid \ P : after(r) = Units[r]
    BY UnitsAt
  <1>3. Units' = [r \in Pid |-> after(r)]
    BY UnitsAre
  <1> HIDE DEF after, part
  <1>4. Units' = [r \in Pid |-> IF r \in P THEN part(r) ELSE Units[r]]
    BY <1>1, <1>2, <1>3
  <1>5. QED
    BY <1>4 DEF Store!RemoveFinished, part

LEMMA StoreStep ==
    TypeOK /\ [Next]_vars => [Store!StoreNext]_(Store!storeVars)
  <1> SUFFICES ASSUME TypeOK, [Next]_vars
               PROVE  [Store!StoreNext]_(Store!storeVars)
    OBVIOUS
  <1>1. ASSUME NEW p \in Packets, AddPacket(p) PROVE Store!StoreNext
    BY <1>1, AddPacketStores DEF Store!StoreNext
  <1>2. CASE FinalizeAllIterations
    <2>1. /\ \A r : Iterations(r)' = Iterations(r)
          /\ DOMAIN current_iterations' = {} /\ UNCHANGED arrived
      BY <1>2, FinishIterations
    <2>2. Store!FinishAll
      BY <2>1, UnitsKept DEF Store!FinishAll
    <2>3. QED
      BY <2>2 DEF Store!StoreNext
  <1>3. ASSUME NEW q \in Pid, NEW id \in 0..MaxPackets, ClearIteration(q, id)
        PROVE  Store!StoreNext \/ UNCHANGED Store!storeVars
    BY <1>3, ClearIterationStores DEF Store!StoreNext
  <1>4. ASSUME NEW q \in Pid, ClearStream(q) PROVE Store!StoreNext
    <2>1. /\ \A r : r # q => Iterations(r)' = Iterations(r)
          /\ Iterations(q)' = OnlyPending(q)
          /\ UNCHANGED <<current_iterations, arrived>>
      BY <1>4, ClearStreamIterations
    <2>2. Store!RemoveFinished({q})
      BY <2>1, DropsStore
    <2>3. QED
      BY <2>2 DEF Store!StoreNext
  <1>5. CASE ClearAll
    <2>1. /\ \A r : Iterations(r)' = <<>>
          /\ DOMAIN current_iterations' = {} /\ UNCHANGED arrived
      BY <1>5, ClearAllIterations
    <2>2. PktsSeq(<<>>) = <<>>
      BY EmptyMap DEF PktsSeq
    <2>3. Units' = [r \in Pid |-> <<>>]
      BY <2>1, <2>2, UnitsAre
    <2>4. Store!RemoveAll
      BY <2>1, <2>3 DEF Store!RemoveAll
    <2>5. QED
      BY <2>4 DEF Store!StoreNext
  <1>6. ASSUME NEW K \in Tables, SetProgramsTable(K) PROVE Store!StoreNext
    <2>1. /\ \A r : Iterations(r)' = OnlyPending(r)
          /\ UNCHANGED <<current_iterations, arrived>>
      BY <1>6, SetProgramsTableIterations
    <2>2. Store!RemoveFinished(Pid)
      BY <2>1, DropsStore
    <2>3. QED
      BY <2>2 DEF Store!StoreNext
  <1>7. CASE UNCHANGED vars \/ ClearAllCrashes
    BY <1>7, StandsStill, UnitsKept DEF Store!storeVars
  <1>8. QED
    BY <1>1, <1>2, <1>3, <1>4, <1>5, <1>6, <1>7 DEF Next

LEMMA StoreInitially == Init => Store!StoreInit
  <1> SUFFICES ASSUME Init PROVE Store!StoreInit
    OBVIOUS
  <1>1. streams = <<>> /\ current_iterations = <<>> /\ arrived = <<>>
    BY DEF Init
  <1>2. /\ DOMAIN streams = {} /\ DOMAIN current_iterations = {}
        /\ Len(arrived) = 0
    BY <1>1, EmptyMap, EmptySeq
  <1>3. ASSUME NEW q PROVE PktsSeq(Iterations(q)) = <<>>
    <2> DEFINE t == Iterations(q)
    <2>1. getOrCreateStream(q) = <<>> /\ IsPending(q) = FALSE
      BY <1>2 DEF getOrCreateStream, IsPending
    <2>2. t = ItsOf(<<>>, FALSE, current_iterations[q])
      BY <2>1, IterationsAre, Zenon
    <2>3. <<>> \in Seq(Entry) /\ Len(<<>>) = 0
      BY EmptySeq
    <2>4. \A c : /\ ItsOf(<<>>, FALSE, c) \in Seq(IterationData)
                 /\ Len(ItsOf(<<>>, FALSE, c)) = 0 + 0
      BY <2>3, ItsShape
    <2> HIDE DEF t
    <2>5. t \in Seq(IterationData) /\ Len(t) = 0 + 0
      BY <2>2, <2>4, Zenon
    <2>6. t = <<>>
      <3>1. Len(t) = 0
        BY <2>5
      <3>2. QED
        BY <2>5, <3>1, EmptySeq
    <2>7. PktsSeq(<<>>) = <<>>
      BY EmptyMap DEF PktsSeq
    <2>8. QED
      BY <2>6, <2>7 DEF t
  <1>4. Units = [q \in Pid |-> <<>>]
    BY <1>3, UnitsAre
  <1>5. QED
    BY <1>2, <1>4 DEF Store!StoreInit

\* For any PIDs, packets and tables: what the demuxer keeps in its maps is a
\* sequence of units per PID that grows at its end and shrinks by whole units
\* (addPacketToStorage, the getters and the clearing calls).
THEOREM UnitsTheorem == Spec => ImplementsPacketStore
  <1>1. Init => Store!StoreInit
    BY StoreInitially
  <1>2. TypeOK /\ [Next]_vars => [Store!StoreNext]_(Store!storeVars)
    BY StoreStep
  <1>3. QED
    BY <1>1, <1>2, TypeCorrect, PTL
       DEF Spec, ImplementsPacketStore, Store!StoreSpec

-----------------------------------------------------------------------------
(***************************************************************************)
(* What a step does to the iterations of one PID: some of them stay, in    *)
(* their order, or the packet that arrives is added to them.               *)
(***************************************************************************)
Kept(t, u) ==
    \E f \in [1..Len(u) -> 1..Len(t)] :
        /\ \A i \in 1..Len(u) : u[i] = t[f[i]]
        /\ \A i, j \in 1..Len(u) : i < j => f[i] < f[j]

BeginsIteration(p, q) ==
    Iterations(q)' = Append(Iterations(q),
                            Extended(NewIteration(p), p, Len(arrived) + 1))

GoesOn(p, q) ==
    LET t == Iterations(q)
    IN  /\ ~p.pusi /\ t # <<>>
        /\ Iterations(q)' =
              LastReplaced(t, Extended(t[Len(t)], p, Len(arrived) + 1))

Takes(p, q) ==
    /\ AddPacket(p) /\ Accepts(p) /\ p.pid = q
    /\ BeginsIteration(p, q) \/ GoesOn(p, q)

LEMMA SameIsKept ==
    ASSUME NEW S, NEW t \in Seq(S)
    PROVE  Kept(t, t)
  <1> DEFINE f == [i \in 1..Len(t) |-> i]
  <1>1. f \in [1..Len(t) -> 1..Len(t)]
    OBVIOUS
  <1>2. \A i \in 1..Len(t) : t[i] = t[f[i]]
    OBVIOUS
  <1>3. \A i, j \in 1..Len(t) : i < j => f[i] < f[j]
    OBVIOUS
  <1> HIDE DEF f
  <1>4. QED
    BY <1>1, <1>2, <1>3 DEF Kept

LEMMA RemovedIsKept ==
    ASSUME NEW S, NEW t \in Seq(S), NEW k \in 1..Len(t)
    PROVE  Kept(t, RemoveAt(t, k))
  <1> DEFINE u == RemoveAt(t, k)
             f == [i \in 1..Len(u) |-> IF i < k THEN i ELSE i + 1]
  <1>1. /\ Len(t) \in Nat /\ k \in Nat /\ Len(u) = Len(t) - 1
        /\ \A i \in 1..(Len(t) - 1) : u[i] = IF i < k THEN t[i] ELSE t[i + 1]
    BY RemovedAt, LenProperties
  <1> HIDE DEF u
  <1>2. f \in [1..Len(u) -> 1..Len(t)]
    BY <1>1
  <1>3. \A i \in 1..Len(u) : u[i] = t[f[i]]
    BY <1>1
  <1>4. \A i, j \in 1..Len(u) : i < j => f[i] < f[j]
    BY <1>1
  <1> HIDE DEF f
  <1>5. Kept(t, u)
    BY <1>2, <1>3, <1>4 DEF Kept
  <1>6. QED
    BY <1>5 DEF u

LEMMA PartIsKept ==
    ASSUME NEW S, NEW t \in Seq(S), NEW m \in Nat, m <= Len(t)
    PROVE  Kept(t, SubSeq(t, m + 1, Len(t)))
  <1> DEFINE n == Len(t)
             u == SubSeq(t, m + 1, n)
             f == [i \in 1..Len(u) |-> m + i]
  <1>1. n \in Nat /\ m <= n
    BY LenProperties
  <1>2. Len(u) = n - m /\ \A i \in 1..(n - m) : u[i] = t[m + i]
    BY <1>1, PartAt
  <1> HIDE DEF u, n
  <1>3. f \in [1..Len(u) -> 1..n]
    BY <1>1, <1>2
  <1>4. \A i \in 1..Len(u) : u[i] = t[f[i]]
    BY <1>1, <1>2
  <1>5. \A i, j \in 1..Len(u) : i < j => f[i] < f[j]
    BY <1>1, <1>2
  <1> HIDE DEF f
  <1>6. Kept(t, u)
    BY <1>3, <1>4, <1>5 DEF Kept, n
  <1>7. QED
    BY <1>6 DEF u, n

LEMMA NothingIsKept ==
    ASSUME NEW S, NEW t \in Seq(S)
    PROVE  Kept(t, <<>>)
  <1>1. Len(<<>>) = 0
    BY EmptySeq
  <1> DEFINE f == [i \in 1..0 |-> 1]
  <1>2. f \in [1..0 -> 1..Len(t)]
    OBVIOUS
  <1>3. \A i \in 1..0 : FALSE
    OBVIOUS
  <1> HIDE DEF f
  <1>4. QED
    BY <1>1, <1>2, <1>3 DEF Kept

LEMMA IterationsStep ==
    ASSUME TypeOK, [Next]_vars, NEW q \in Pid
    PROVE  \/ Kept(Iterations(q), Iterations(q)')
           \/ \E p \in Packets : Takes(p, q)
  <1>0. Iterations(q) \in Seq(IterationData)
    BY IterationsShape
  <1>s. Iterations(q)' = Iterations(q) => Kept(Iterations(q), Iterations(q)')
    BY <1>0, SameIsKept, Zenon
  <1>p. Iterations(q)' = OnlyPending(q) => Kept(Iterations(q), Iterations(q)')
    <2>1. /\ Len(getOrCreateStream(q)) \in Nat
          /\ Len(getOrCreateStream(q)) <= Len(Iterations(q))
      BY UnitsAt
    <2>2. Kept(Iterations(q), OnlyPending(q))
      BY <1>0, <2>1, PartIsKept DEF OnlyPending
    <2>3. QED
      BY <2>2, Zenon
  <1>1. ASSUME NEW p \in Packets, AddPacket(p)
        PROVE  Iterations(q)' = Iterations(q) \/ Takes(p, q)
    <2>1. CASE SkipPacket(p)
      <3>1. UNCHANGED <<streams, current_iterations>>
        BY <2>1 DEF SkipPacket, storageVars, currentVars
      <3>2. QED
        BY <3>1, Zenon DEF Iterations, getOrCreateStream
    <2>2. CASE StartIteration(p)
      <3>1. /\ BeginsIteration(p, p.pid)
            /\ \A r : r # p.pid => Iterations(r)' = Iterations(r)
        BY <2>2, StartIterations DEF BeginsIteration
      <3>2. Accepts(p)
        BY <2>2 DEF StartIteration
      <3>3. CASE p.pid = q
        <4>1. BeginsIteration(p, q)
          BY <3>1, <3>3, Zenon
        <4>2. QED
          BY <1>1, <3>2, <3>3, <4>1 DEF Takes
      <3>4. QED
        BY <3>1, <3>3
    <2>3. CASE ContinueIteration(p)
      <3>1. /\ GoesOn(p, p.pid)
            /\ \A r : r # p.pid => Iterations(r)' = Iterations(r)
        <4>1. ~p.pusi
          BY <2>3 DEF ContinueIteration
        <4>2. QED
          BY <2>3, <4>1, ContinueIterations DEF GoesOn
      <3>2. Accepts(p)
        BY <2>3 DEF ContinueIteration
      <3>3. CASE p.pid = q
        <4>1. GoesOn(p, q)
          BY <3>1, <3>3, Zenon
        <4>2. QED
          BY <1>1, <3>2, <3>3, <4>1 DEF Takes
      <3>4. QED
        BY <3>1, <3>3
    <2>4. QED
      BY <1>1, <2>1, <2>2, <2>3 DEF AddPacket
  <1>2. CASE FinalizeAllIterations
    BY <1>2, <1>s, FinishIterations
  <1>3. ASSUME NEW r \in Pid, NEW id \in 0..MaxPackets, ClearIteration(r, id)
        PROVE  Kept(Iterations(q), Iterations(q)')
    <2>1. CASE r = q
      <3>1. \/ Iterations(q)' = Iterations(q)
            \/ \E k \in 1..Len(getOrCreateStream(q)) :
                  Iterations(q)' = RemoveAt(Iterations(q), k)
        BY <1>3, <2>1, ClearIterationIterations
      <3>2. ASSUME NEW k \in 1..Len(getOrCreateStream(q))
            PROVE  Kept(Iterations(q), RemoveAt(Iterations(q), k))
        <4>1. k \in 1..Len(Iterations(q))
          BY UnitsAt, LenProperties, <1>0
        <4>2. QED
          BY <1>0, <4>1, RemovedIsKept
      <3>3. QED
        BY <1>s, <3>1, <3>2, Zenon
    <2>2. CASE r # q
      BY <1>3, <1>s, <2>2, ClearIterationIterations
    <2>3. QED
      BY <2>1, <2>2
  <1>4. ASSUME NEW r \in Pid, ClearStream(r)
        PROVE  Kept(Iterations(q), Iterations(q)')
    BY <1>4, <1>s, <1>p, ClearStreamIterations
  <1>5. CASE ClearAll
    <2>1. Iterations(q)' = <<>>
      BY <1>5, ClearAllIterations
    <2>2. Kept(Iterations(q), <<>>)
      BY <1>0, NothingIsKept
    <2>3. QED
      BY <2>1, <2>2, Zenon
  <1>6. ASSUME NEW K \in Tables, SetProgramsTable(K)
        PROVE  Kept(Iterations(q), Iterations(q)')
    BY <1>6, <1>p, SetProgramsTableIterations
  <1>7. CASE UNCHANGED vars \/ ClearAllCrashes
    BY <1>7, <1>s, StandsStill
  <1>8. QED
    BY <1>1, <1>2, <1>3, <1>4, <1>5, <1>6, <1>7, <1>s DEF Next

\* Packets are only ever added to what has arrived.
LEMMA ArrivedGrows ==
    ASSUME TypeOK, [Next]_vars
    PROVE  /\ Len(arrived) \in Nat /\ Len(arrived)' \in Nat
           /\ Len(arrived) <= Len(arrived)'
           /\ \A n \in 1..Len(arrived) : arrived'[n] = arrived[n]
  <1>1. Len(arrived) \in Nat
    BY LenProperties DEF TypeOK, HistoryTypeOK
  <1>2. ASSUME NEW p \in Packets, AddPacket(p)
        PROVE  /\ Len(arrived') = Len(arrived) + 1
               /\ \A n \in 1..Len(arrived) : arrived'[n] = arrived[n]
    BY <1>2, PacketFacts
  <1>3. ~(\E p \in Packets : AddPacket(p)) => UNCHANGED arrived
    BY DEF Next, vars, FinalizeAllIterations, historyVars, ClearIteration,
           ClearStream, ClearAll, ClearAllCrashes, SetProgramsTable
  <1>4. QED
    BY <1>1, <1>2, <1>3

\* The iterations after a packet was added: all but the last are as they
\* were, the last is an earlier one or a new one with the packet in it.
Added(t, u, p, n) ==
    \E m \in Nat : \E d \in IterationData :
        /\ Len(u) = m + 1 /\ m <= Len(t)
        /\ \A i \in 1..m : u[i] = t[i]
        /\ u[m + 1] = Extended(d, p, n)
        /\ \/ m = Len(t) /\ d = NewIteration(p)
           \/ m + 1 = Len(t) /\ d = t[m + 1] /\ ~p.pusi

LEMMA TakesAdds ==
    ASSUME TypeOK, NEW q \in Pid, NEW p \in Packets, Takes(p, q)
    PROVE  Added(Iterations(q), Iterations(q)', p, Len(arrived) + 1)
  <1> DEFINE t == Iterations(q)
             u == Iterations(q)'
             n == Len(arrived) + 1
             m == Len(t)
  <1>1. /\ p \in Packet /\ n \in Nat /\ t \in Seq(IterationData) /\ m \in Nat
        /\ NewIteration(p) \in IterationData
    BY PacketFacts, IterationsShape, NewIterationType, LenProperties DEF Takes
  <1>2. BeginsIteration(p, q) \/ GoesOn(p, q)
    BY DEF Takes
  <1>3. CASE BeginsIteration(p, q)
    <2> DEFINE e == Extended(NewIteration(p), p, n)
    <2>1. e \in IterationData
      BY <1>1, ExtendedType
    <2>2. u = Append(t, e)
      BY <1>3 DEF BeginsIteration
    <2> HIDE DEF t, u, e, n
    <2>3. Len(u) = m + 1 /\ (\A i \in 1..m : u[i] = t[i]) /\ u[m + 1] = e
      BY <1>1, <2>1, <2>2, AppendedAt
    <2>4. u[m + 1] = Extended(NewIteration(p), p, n)
      BY <2>3 DEF e
    <2> HIDE DEF m
    <2>5. m <= m
      BY <1>1
    <2>6. m = Len(t)
      BY DEF m
    <2>7. Added(t, u, p, n)
      BY <1>1, <2>3, <2>4, <2>5, <2>6, Zenon DEF Added
    <2>8. QED
      BY <2>7 DEF t, u, n
  <1>4. CASE GoesOn(p, q)
    <2> DEFINE l == m - 1
               d == t[m]
               e == Extended(d, p, n)
    <2>1. ~p.pusi /\ t # <<>> /\ u = LastReplaced(t, e)
      BY <1>4 DEF GoesOn
    <2> HIDE DEF t, u, n
    <2>2. m # 0
      BY <1>1, <2>1, EmptySeq
    <2>3. l \in Nat /\ l + 1 = m /\ l <= m /\ m \in 1..m
      BY <1>1, <2>2
    <2>4. d \in IterationData
      BY <1>1, <2>3, ElementOfSeq
    <2>5. e \in IterationData
      BY <1>1, <2>4, ExtendedType
    <2> HIDE DEF e
    <2>6. /\ Len(u) = m
          /\ \A i \in 1..m : u[i] = IF i = m THEN e ELSE t[i]
      BY <1>1, <2>1, <2>3, <2>5, ExceptSeq DEF LastReplaced
    <2> HIDE DEF l
    <2>7. /\ Len(u) = l + 1
          /\ \A i \in 1..l : u[i] = t[i]
          /\ u[l + 1] = e
      BY <1>1, <2>3, <2>6
    <2>8. u[l + 1] = Extended(d, p, n)
      BY <2>7 DEF e
    <2>9. d = t[l + 1]
      BY <2>3, Zenon
    <2>a. l + 1 = Len(t) /\ l <= Len(t)
      BY <2>3
    <2> HIDE DEF d, m
    <2>b. Added(t, u, p, n)
      BY <2>1, <2>3, <2>4, <2>7, <2>8, <2>9, <2>a, Zenon DEF Added
    <2>c. QED
      BY <2>b DEF t, u, n
  <1>5. QED
    BY <1>2, <1>3, <1>4

-----------------------------------------------------------------------------
(***************************************************************************)
(* The order of the packets.  d is an iteration, a what has arrived.       *)
(***************************************************************************)
KnownIn(d, q, a) ==
    \A k \in 1..Len(d.pkts) :
        d.pkts[k] \in 1..Len(a) /\ a[d.pkts[k]].pid = q

Sorted(d) ==
    \A k, l \in 1..Len(d.pkts) : k < l => d.pkts[k] < d.pkts[l]

Before(d, e) ==
    \A k \in 1..Len(d.pkts), l \in 1..Len(e.pkts) : d.pkts[k] < e.pkts[l]

Ordered(t, q, a) ==
    \A i \in 1..Len(t) :
        /\ KnownIn(t[i], q, a) /\ Sorted(t[i])
        /\ \A j \in 1..Len(t) : i < j => Before(t[i], t[j])

\* The strengthening of PacketsInOrder: no packet is held before it arrives.
OrderInv == \A q \in Pid : Ordered(Iterations(q), q, arrived)

LEMMA ExtendedAt ==
    ASSUME NEW d \in IterationData, NEW p \in Packet, NEW n \in Nat
    PROVE  LET e == Extended(d, p, n).pkts
           IN  /\ e \in Seq(Nat) /\ Len(e) = Len(d.pkts) + 1
               /\ Len(d.pkts) \in Nat
               /\ \A k \in 1..Len(d.pkts) : e[k] = d.pkts[k] /\ d.pkts[k] \in Nat
               /\ e[Len(d.pkts) + 1] = n
  <1> DEFINE s == d.pkts
             e == Extended(d, p, n).pkts
  <1>1. s \in Seq(Nat)
    BY DEF IterationData
  <1>2. e = Append(s, n)
    BY ExtendedPkts
  <1> HIDE DEF s, e
  <1>3. /\ e \in Seq(Nat) /\ Len(e) = Len(s) + 1 /\ Len(s) \in Nat
        /\ \A k \in 1..Len(s) : e[k] = s[k] /\ s[k] \in Nat
        /\ e[Len(s) + 1] = n
    BY <1>1, <1>2, AppendedAt, LenProperties, ElementOfSeq
  <1>4. QED
    BY <1>3 DEF s, e

LEMMA NewHasNone ==
    ASSUME NEW p
    PROVE  \A k \in 1..Len(NewIteration(p).pkts) : FALSE
  <1>1. Len(NewIteration(p).pkts) = 0
    BY EmptySeq DEF NewIteration
  <1>2. QED
    BY <1>1

LEMMA KnownGrows ==
    ASSUME NEW d, NEW q, NEW a, NEW b, KnownIn(d, q, a),
           Len(a) \in Nat, Len(b) \in Nat, Len(a) <= Len(b),
           \A n \in 1..Len(a) : b[n] = a[n]
    PROVE  KnownIn(d, q, b)
  <1> SUFFICES ASSUME NEW k \in 1..Len(d.pkts)
               PROVE  d.pkts[k] \in 1..Len(b) /\ b[d.pkts[k]].pid = q
    BY DEF KnownIn
  <1> DEFINE n == d.pkts[k]
  <1>1. n \in 1..Len(a) /\ a[n].pid = q
    BY DEF KnownIn
  <1> HIDE DEF n
  <1>2. n \in 1..Len(b) /\ b[n].pid = q
    BY <1>1
  <1>3. QED
    BY <1>2 DEF n

LEMMA ExtendedOrder ==
    ASSUME NEW d \in IterationData, NEW p \in Packet, NEW q, NEW a, NEW b,
           KnownIn(d, q, a), Sorted(d), p.pid = q,
           Len(a) \in Nat, Len(b) = Len(a) + 1, b[Len(a) + 1] = p,
           \A n \in 1..Len(a) : b[n] = a[n]
    PROVE  /\ KnownIn(Extended(d, p, Len(a) + 1), q, b)
           /\ Sorted(Extended(d, p, Len(a) + 1))
           /\ \A c : KnownIn(c, q, a) /\ Before(c, d)
                       => Before(c, Extended(d, p, Len(a) + 1))
  <1> DEFINE n == Len(a) + 1
             x == Extended(d, p, n)
             e == x.pkts
             s == d.pkts
  <1>1. /\ Len(e) = Len(s) + 1 /\ Len(s) \in Nat
        /\ \A k \in 1..Len(s) : e[k] = s[k] /\ s[k] \in Nat
        /\ e[Len(s) + 1] = n /\ n \in Nat
    BY SMTT(30), ExtendedAt
  <1>2. \A k \in 1..Len(s) : s[k] \in 1..Len(a) /\ a[s[k]].pid = q
    BY DEF KnownIn
  <1>3. \A k, l \in 1..Len(s) : k < l => s[k] < s[l]
    BY DEF Sorted
  <1>n. n = Len(a) + 1
    OBVIOUS
  <1> HIDE DEF e, s, n
  <1>4. ASSUME NEW k \in 1..Len(e) PROVE e[k] \in 1..Len(b) /\ b[e[k]].pid = q
    <2>1. k \in 1..Len(s) \/ k = Len(s) + 1
      BY <1>1
    <2>2. CASE k \in 1..Len(s)
      BY <1>1, <1>2, <2>2
    <2>3. CASE k = Len(s) + 1
      BY <1>1, <1>n, <2>3
    <2>4. QED
      BY <2>1, <2>2, <2>3
  <1>5. ASSUME NEW k \in 1..Len(e), NEW l \in 1..Len(e), k < l
        PROVE  e[k] < e[l]
    <2>1. k \in 1..Len(s) /\ (l \in 1..Len(s) \/ l = Len(s) + 1)
      <3> DEFINE m == Len(s)
      <3>1. m \in Nat /\ Len(e) = m + 1
        BY <1>1
      <3> HIDE DEF m
      <3>2. k \in 1..(m + 1) /\ l \in 1..(m + 1)
        BY <3>1
      <3>3. k \in 1..m /\ (l \in 1..m \/ l = m + 1)
        BY <1>5, <3>1, <3>2
      <3>4. QED
        BY <3>3 DEF m
    <2>2. CASE l \in 1..Len(s)
      BY <1>1, <1>3, <1>5, <2>1, <2>2
    <2>3. CASE l = Len(s) + 1
      BY <1>1, <1>2, <1>n, <2>1, <2>3
    <2>4. QED
      BY <2>1, <2>2, <2>3
  <1>6. ASSUME NEW c, KnownIn(c, q, a), Before(c, d)
        PROVE  Before(c, x)
    <2>1. \A k \in 1..Len(c.pkts) : c.pkts[k] \in 1..Len(a)
      BY <1>6 DEF KnownIn
    <2>2. \A k \in 1..Len(c.pkts), l \in 1..Len(s) : c.pkts[k] < s[l]
      BY <1>6 DEF Before, s
    <2> HIDE DEF x
    <2>3. ASSUME NEW k \in 1..Len(c.pkts), NEW l \in 1..Len(e)
          PROVE  c.pkts[k] < e[l]
      <3>1. l \in 1..Len(s) \/ l = Len(s) + 1
        BY <1>1
      <3>2. CASE l \in 1..Len(s)
        BY <1>1, <2>2, <3>2
      <3>3. CASE l = Len(s) + 1
        BY <1>1, <1>n, <2>1, <3>3
      <3>4. QED
        BY <3>1, <3>2, <3>3
    <2>4. QED
      BY <2>3 DEF Before, e
  <1>7. KnownIn(x, q, b)
    BY <1>4 DEF KnownIn, e
  <1>8. Sorted(x)
    BY <1>5 DEF Sorted, e
  <1>9. QED
    BY <1>6, <1>7, <1>8 DEF n

LEMMA KeptOrder ==
    ASSUME NEW t, NEW u, NEW q, NEW a, NEW b, Ordered(t, q, a), Kept(t, u),
           Len(a) \in Nat, Len(b) \in Nat, Len(a) <= Len(b),
           \A n \in 1..Len(a) : b[n] = a[n]
    PROVE  Ordered(u, q, b)
  <1>1. PICK f \in [1..Len(u) -> 1..Len(t)] :
           /\ \A i \in 1..Len(u) : u[i] = t[f[i]]
           /\ \A i, j \in 1..Len(u) : i < j => f[i] < f[j]
    BY DEF Kept
  <1>2. ASSUME NEW i \in 1..Len(u)
        PROVE  /\ KnownIn(u[i], q, b) /\ Sorted(u[i])
               /\ \A j \in 1..Len(u) : i < j => Before(u[i], u[j])
    <2>1. f[i] \in 1..Len(t) /\ u[i] = t[f[i]]
      BY <1>1
    <2>2. KnownIn(u[i], q, a) /\ Sorted(u[i])
      BY <2>1 DEF Ordered
    <2>3. KnownIn(u[i], q, b)
      BY <2>2, KnownGrows
    <2>4. ASSUME NEW j \in 1..Len(u), i < j PROVE Before(u[i], u[j])
      <3>1. f[j] \in 1..Len(t) /\ u[j] = t[f[j]] /\ f[i] < f[j]
        BY <1>1, <2>4
      <3>2. Before(t[f[i]], t[f[j]])
        BY <2>1, <3>1 DEF Ordered
      <3>3. QED
        BY <2>1, <3>1, <3>2
    <2>5. QED
      BY <2>2, <2>3, <2>4
  <1>3. QED
    BY <1>2 DEF Ordered

LEMMA AddedOrder ==
    ASSUME NEW t \in Seq(IterationData), NEW u, NEW p \in Packet, NEW q,
           NEW a, NEW b, Ordered(t, q, a), p.pid = q,
           Len(a) \in Nat, Len(b) = Len(a) + 1, b[Len(a) + 1] = p,
           \A n \in 1..Len(a) : b[n] = a[n],
           Added(t, u, p, Len(a) + 1)
    PROVE  Ordered(u, q, b)
  <1>1. PICK m \in Nat, d \in IterationData :
           /\ Len(u) = m + 1 /\ m <= Len(t)
           /\ \A i \in 1..m : u[i] = t[i]
           /\ u[m + 1] = Extended(d, p, Len(a) + 1)
           /\ \/ m = Len(t) /\ d = NewIteration(p)
              \/ m + 1 = Len(t) /\ d = t[m + 1] /\ ~p.pusi
    BY Zenon DEF Added
  <1>2. Len(t) \in Nat
    BY LenProperties
  <1>3. /\ KnownIn(d, q, a) /\ Sorted(d)
        /\ \A i \in 1..m : Before(t[i], d)
    <2>1. CASE m = Len(t) /\ d = NewIteration(p)
      BY <2>1, NewHasNone DEF KnownIn, Sorted, Before
    <2>2. CASE m + 1 = Len(t) /\ d = t[m + 1]
      <3>1. m + 1 \in 1..Len(t) /\ \A i \in 1..m : i \in 1..Len(t) /\ i < m + 1
        BY <1>2, <2>2
      <3>2. QED
        BY <2>2, <3>1 DEF Ordered
    <2>3. QED
      BY <1>1, <2>1, <2>2
  <1> DEFINE e == Extended(d, p, Len(a) + 1)
  <1>4. /\ KnownIn(e, q, b) /\ Sorted(e)
        /\ \A c : KnownIn(c, q, a) /\ Before(c, d) => Before(c, e)
    BY <1>3, ExtendedOrder
  <1>5. u[m + 1] = e
    BY <1>1
  <1> HIDE DEF e
  <1>6. ASSUME NEW i \in 1..m
        PROVE  /\ KnownIn(u[i], q, b) /\ Sorted(u[i])
               /\ Before(u[i], e)
               /\ \A j \in 1..m : i < j => Before(u[i], u[j])
    <2>1. i \in 1..Len(t) /\ u[i] = t[i]
      BY <1>1, <1>2
    <2>2. KnownIn(u[i], q, a) /\ Sorted(u[i])
      BY <2>1 DEF Ordered
    <2>3. Len(b) \in Nat /\ Len(a) <= Len(b)
      OBVIOUS
    <2>4. KnownIn(u[i], q, b)
      BY <2>2, <2>3, KnownGrows
    <2>5. Before(u[i], e)
      BY <1>3, <1>4, <2>1, <2>2
    <2>6. ASSUME NEW j \in 1..m, i < j PROVE Before(u[i], u[j])
      <3>1. j \in 1..Len(t) /\ u[j] = t[j]
        BY <1>1, <1>2
      <3>2. Before(t[i], t[j])
        BY <2>1, <2>6, <3>1 DEF Ordered
      <3>3. QED
        BY <2>1, <3>1, <3>2
    <2>7. QED
      BY <2>2, <2>4, <2>5, <2>6
  <1>7. ASSUME NEW i \in 1..Len(u)
        PROVE  /\ KnownIn(u[i], q, b) /\ Sorted(u[i])
               /\ \A j \in 1..Len(u) : i < j => Before(u[i], u[j])
    <2>1. \A j \in 1..Len(u) : j \in 1..m \/ j = m + 1
      BY <1>1
    <2>2. CASE i \in 1..m
      BY <1>5, <1>6, <2>1, <2>2
    <2>3. CASE i = m + 1
      <3>1. \A j \in 1..Len(u) : ~(i < j)
        BY <1>1, <2>3
      <3>2. QED
        BY <1>4, <1>5, <2>3, <3>1
    <2>4. QED
      BY <2>1, <2>2, <2>3
  <1>8. QED
    BY <1>7 DEF Ordered

LEMMA NoIterationsInitially ==
    ASSUME Init
    PROVE  \A q : Len(Iterations(q)) = 0
  <1>1. streams = <<>> /\ current_iterations = <<>>
    BY DEF Init
  <1>2. DOMAIN streams = {} /\ DOMAIN current_iterations = {}
    BY <1>1, EmptyMap
  <1>3. ASSUME NEW q PROVE Len(Iterations(q)) = 0
    <2> DEFINE c == current_iterations[q]
    <2>1. getOrCreateStream(q) = <<>> /\ IsPending(q) = FALSE
      BY <1>2 DEF getOrCreateStream, IsPending
    <2>2. Iterations(q) = ItsOf(<<>>, FALSE, c)
      BY <2>1, IterationsAre, Zenon
    <2>3. <<>> \in Seq(Entry) /\ Len(<<>>) = 0
      BY EmptySeq
    <2> HIDE DEF c
    <2>4. Len(ItsOf(<<>>, FALSE, c)) = 0 + 0
      BY <2>3, ItsShape
    <2> DEFINE z == Len(ItsOf(<<>>, FALSE, c))
    <2>a. z = 0 + 0
      BY <2>4, Zenon
    <2> HIDE DEF z
    <2>b. z = 0
      BY <2>a
    <2>5. Len(ItsOf(<<>>, FALSE, c)) = 0
      BY <2>b DEF z
    <2>6. QED
      BY <2>2, <2>5, Zenon
  <1>4. QED
    BY <1>3

LEMMA InitOrder == Init => OrderInv
  <1> SUFFICES ASSUME Init PROVE OrderInv
    OBVIOUS
  <1>1. \A q : Len(Iterations(q)) = 0
    BY NoIterationsInitially
  <1>2. \A q : \A i \in 1..Len(Iterations(q)) : FALSE
    BY <1>1
  <1>3. QED
    BY <1>2 DEF OrderInv, Ordered

LEMMA StepOrder == TypeOK /\ OrderInv /\ [Next]_vars => OrderInv'
  <1> SUFFICES ASSUME TypeOK, OrderInv, [Next]_vars, NEW q \in Pid
               PROVE  Ordered(Iterations(q)', q, arrived')
    BY DEF OrderInv
  <1>1. /\ Len(arrived) \in Nat /\ Len(arrived') \in Nat
        /\ Len(arrived) <= Len(arrived')
        /\ \A n \in 1..Len(arrived) : arrived'[n] = arrived[n]
    BY ArrivedGrows
  <1> DEFINE t == Iterations(q)
             u == Iterations(q)'
  <1>2. Ordered(t, q, arrived) /\ t \in Seq(IterationData)
    BY IterationsShape DEF OrderInv
  <1>3. CASE Kept(t, u)
    <2> HIDE DEF t, u
    <2>1. Ordered(u, q, arrived')
      BY <1>1, <1>2, <1>3, KeptOrder
    <2>2. QED
      BY <2>1 DEF u
  <1>4. ASSUME NEW p \in Packets, Takes(p, q)
        PROVE  Ordered(u, q, arrived')
    <2>1. AddPacket(p) /\ p.pid = q
      BY <1>4 DEF Takes
    <2>2. /\ p \in Packet /\ Len(arrived') = Len(arrived) + 1
          /\ arrived'[Len(arrived) + 1] = p
      BY <2>1, PacketFacts
    <2>3. Added(t, u, p, Len(arrived) + 1)
      BY <1>4, TakesAdds
    <2> HIDE DEF t, u
    <2>4. QED
      BY <1>1, <1>2, <2>1, <2>2, <2>3, AddedOrder
  <1>5. QED
    BY <1>3, <1>4, IterationsStep

LEMMA OrderIsEnough == TypeOK /\ OrderInv => PacketsInOrder
  <1> SUFFICES ASSUME TypeOK, OrderInv, NEW q \in Pid,
                      NEW i \in DOMAIN Iterations(q),
                      NEW k \in DOMAIN Iterations(q)[i].pkts
               PROVE  LET n == Iterations(q)[i].pkts[k]
                      IN  /\ arrived[n].pid = q
                          /\ \A l \in DOMAIN Iterations(q)[i].pkts :
                                k < l => n < Iterations(q)[i].pkts[l]
                          /\ \A j \in DOMAIN Iterations(q) :
                                i < j =>
                                  \A m \in PktsOf(Iterations(q)[j]) : n < m
    BY DEF PacketsInOrder
  <1> DEFINE t == Iterations(q)
  <1>1. t \in Seq(IterationData) /\ Ordered(t, q, arrived)
    BY IterationsShape DEF OrderInv
  <1> HIDE DEF t
  <1>2. DOMAIN t = 1..Len(t)
    BY <1>1, LenProperties
  <1>3. ASSUME NEW j \in DOMAIN t
        PROVE  DOMAIN t[j].pkts = 1..Len(t[j].pkts)
    <2>1. t[j] \in IterationData
      BY <1>1, <1>2, ElementOfSeq
    <2>2. t[j].pkts \in Seq(Nat)
      BY <2>1 DEF IterationData
    <2>3. QED
      BY <2>2, LenProperties
  <1>4. i \in DOMAIN t /\ k \in DOMAIN t[i].pkts
    BY DEF t
  <1>5. KnownIn(t[i], q, arrived) /\ Sorted(t[i])
        /\ \A j \in DOMAIN t : i < j => Before(t[i], t[j])
    BY <1>1, <1>2, <1>4 DEF Ordered
  <1>6. arrived[t[i].pkts[k]].pid = q
    BY <1>3, <1>4, <1>5 DEF KnownIn
  <1>7. \A l \in DOMAIN t[i].pkts : k < l => t[i].pkts[k] < t[i].pkts[l]
    BY <1>3, <1>4, <1>5 DEF Sorted
  <1>8. ASSUME NEW j \in DOMAIN t, i < j, NEW m \in PktsOf(t[j])
        PROVE  t[i].pkts[k] < m
    <2>1. PICK l \in DOMAIN t[j].pkts : m = t[j].pkts[l]
      BY DEF PktsOf
    <2>2. Before(t[i], t[j])
      BY <1>5, <1>8
    <2>3. QED
      BY <1>3, <1>4, <2>1, <2>2 DEF Before
  <1>9. QED
    BY <1>6, <1>7, <1>8 DEF t

LEMMA OrderAlways == Spec => [](TypeOK /\ OrderInv)
  <1>1. Init => TypeOK /\ OrderInv
    BY InitType, InitOrder
  <1>2. TypeOK /\ OrderInv /\ [Next]_vars => (TypeOK /\ OrderInv)'
    BY StepType, StepOrder
  <1>3. QED
    BY <1>1, <1>2, PTL DEF Spec

\* For any PIDs, packets and tables, and whatever calls are made between the
\* packets: no packet is stored twice, under another PID or out of order.
THEOREM PacketsInOrderTheorem == Spec => []PacketsInOrder
  <1>1. TypeOK /\ OrderInv => PacketsInOrder
    BY OrderIsEnough
  <1>2. QED
    BY <1>1, OrderAlways, PTL

-----------------------------------------------------------------------------
(***************************************************************************)
(* Where the iterations of a PID come from, one by one.                    *)
(***************************************************************************)
LEMMA ComesFrom ==
    ASSUME TypeOK, [Next]_vars, NEW q \in Pid,
           NEW i \in 1..Len(Iterations(q)')
    PROVE  LET d == Iterations(q)'[i]
               t == Iterations(q)
           IN  \/ \E j \in 1..Len(t) : d = t[j]
               \/ \E p \in Packets :
                     /\ Takes(p, q)
                     /\ \/ d = Extended(NewIteration(p), p, Len(arrived) + 1)
                        \/ /\ ~p.pusi
                           /\ \E j \in 1..Len(t) :
                                 d = Extended(t[j], p, Len(arrived) + 1)
  <1> DEFINE t == Iterations(q)
             u == Iterations(q)'
             n == Len(arrived) + 1
  <1>1. CASE Kept(t, u)
    <2> HIDE DEF t, u
    <2>1. i \in 1..Len(u)
      BY DEF u
    <2>2. \E j \in 1..Len(t) : u[i] = t[j]
      BY <1>1, <2>1 DEF Kept
    <2>3. QED
      BY <2>2 DEF t, u
  <1>2. ASSUME NEW p \in Packets, Takes(p, q)
        PROVE  \/ \E j \in 1..Len(t) : u[i] = t[j]
               \/ u[i] = Extended(NewIteration(p), p, n)
               \/ ~p.pusi /\ \E j \in 1..Len(t) : u[i] = Extended(t[j], p, n)
    <2>1. Added(t, u, p, n)
      BY <1>2, TakesAdds
    <2>2. t \in Seq(IterationData)
      BY IterationsShape
    <2>3. i \in 1..Len(u)
      OBVIOUS
    <2> HIDE DEF t, u, n
    <2>4. PICK m \in Nat, d \in IterationData :
             /\ Len(u) = m + 1 /\ m <= Len(t)
             /\ \A j \in 1..m : u[j] = t[j]
             /\ u[m + 1] = Extended(d, p, n)
             /\ \/ m = Len(t) /\ d = NewIteration(p)
                \/ m + 1 = Len(t) /\ d = t[m + 1] /\ ~p.pusi
      BY <2>1, Zenon DEF Added
    <2>5. Len(t) \in Nat
      BY <2>2, LenProperties
    <2>6. CASE i \in 1..m
      <3>1. i \in 1..Len(t) /\ u[i] = t[i]
        BY <2>4, <2>5, <2>6
      <3>2. QED
        BY <3>1
    <2>7. CASE i = m + 1 /\ d = NewIteration(p)
      BY <2>4, <2>7
    <2>8. CASE i = m + 1 /\ m + 1 = Len(t) /\ d = t[m + 1] /\ ~p.pusi
      <3>1. m + 1 \in 1..Len(t) /\ u[i] = Extended(t[m + 1], p, n)
        BY <2>4, <2>5, <2>8
      <3>2. QED
        BY <2>8, <3>1
    <2>9. i \in 1..m \/ i = m + 1
      BY <2>3, <2>4
    <2>10. QED
      BY <2>4, <2>6, <2>7, <2>8, <2>9
  <1>3. QED
    <2>1. CASE Kept(t, u)
      BY <1>1, <2>1
    <2>2. ASSUME NEW p \in Packets, Takes(p, q)
          PROVE  \/ \E j \in 1..Len(t) : u[i] = t[j]
                 \/ /\ Takes(p, q)
                    /\ \/ u[i] = Extended(NewIteration(p), p, n)
                       \/ ~p.pusi
                          /\ \E j \in 1..Len(t) : u[i] = Extended(t[j], p, n)
      BY <1>2, <2>2
    <2>3. Kept(t, u) \/ \E p \in Packets : Takes(p, q)
      BY IterationsStep
    <2> HIDE DEF t, u, n
    <2>4. \/ \E j \in 1..Len(t) : u[i] = t[j]
          \/ \E p \in Packets :
                /\ Takes(p, q)
                /\ \/ u[i] = Extended(NewIteration(p), p, n)
                   \/ ~p.pusi
                      /\ \E j \in 1..Len(t) : u[i] = Extended(t[j], p, n)
      <3>1. CASE Kept(t, u)
        BY <1>1, <3>1 DEF t, u, n
      <3>2. QED
        BY <2>2, <2>3, <3>1, Zenon
    <2>5. QED
      BY <2>4 DEF t, u, n

-----------------------------------------------------------------------------
(***************************************************************************)
(* One unit per iteration.                                                 *)
(***************************************************************************)
OneUnit(d, a) ==
    /\ Len(d.pkts) > 0
    /\ d.packet_count = Len(d.pkts)
    /\ \A k \in 2..Len(d.pkts) : ~a[d.pkts[k]].pusi
    /\ d.payload_unit_start_seen = a[d.pkts[1]].pusi
    /\ d.first_cc = a[d.pkts[1]].cc
    /\ d.last_cc = a[d.pkts[Len(d.pkts)]].cc

UnitInv ==
    \A q \in Pid : \A i \in 1..Len(Iterations(q)) :
        OneUnit(Iterations(q)[i], arrived)

LEMMA OneUnitGrows ==
    ASSUME NEW d \in IterationData, NEW q, NEW a, NEW b, KnownIn(d, q, a),
           \A n \in 1..Len(a) : b[n] = a[n], OneUnit(d, a)
    PROVE  OneUnit(d, b)
  <1> DEFINE s == d.pkts
             m == Len(s)
  <1>1. s \in Seq(Nat) /\ m \in Nat
    BY LenProperties DEF IterationData
  <1>2. \A k \in 1..m : b[s[k]] = a[s[k]]
    BY DEF KnownIn
  <1>3. /\ m > 0 /\ d.packet_count = m
        /\ \A k \in 2..m : ~a[s[k]].pusi
        /\ d.payload_unit_start_seen = a[s[1]].pusi
        /\ d.first_cc = a[s[1]].cc
        /\ d.last_cc = a[s[m]].cc
    BY Zenon DEF OneUnit
  <1> HIDE DEF s, m
  <1>4. 1 \in 1..m /\ m \in 1..m /\ \A k \in 2..m : k \in 1..m
    BY <1>1, <1>3
  <1>5. b[s[1]] = a[s[1]] /\ b[s[m]] = a[s[m]]
    BY <1>2, <1>4
  <1>6. \A k \in 2..m : ~b[s[k]].pusi
    BY <1>2, <1>3, <1>4, Zenon
  <1>7. /\ d.payload_unit_start_seen = b[s[1]].pusi
        /\ d.first_cc = b[s[1]].cc
        /\ d.last_cc = b[s[m]].cc
    BY <1>3, <1>5, Zenon
  <1>8. QED
    BY <1>3, <1>6, <1>7, Zenon DEF OneUnit, s, m

\* The packet that begins an iteration
LEMMA NewIsOneUnit ==
    ASSUME NEW p \in Packet, NEW b, NEW n \in Nat, b[n] = p
    PROVE  OneUnit(Extended(NewIteration(p), p, n), b)
  <1> DEFINE e == Extended(NewIteration(p), p, n)
  <1>1. e.pkts = <<n>>
    BY ExtendedPkts
  <1>2. /\ e.packet_count = 0 + 1 /\ e.payload_unit_start_seen = p.pusi
        /\ e.first_cc = p.cc /\ e.last_cc = p.cc
    BY Zenon DEF Extended, NewIteration
  <1>3. Len(<<n>>) = 1 /\ <<n>>[1] = n
    OBVIOUS
  <1> HIDE DEF e
  <1>4. Len(e.pkts) = 1 /\ e.pkts[1] = n
    BY <1>1, <1>3, Zenon
  <1>5. e.packet_count = Len(e.pkts) /\ Len(e.pkts) > 0
    BY <1>2, <1>4
  <1>6. /\ e.payload_unit_start_seen = b[e.pkts[1]].pusi
        /\ e.first_cc = b[e.pkts[1]].cc
        /\ e.last_cc = b[e.pkts[Len(e.pkts)]].cc
    BY <1>2, <1>4, Zenon
  <1>7. \A k \in 2..Len(e.pkts) : FALSE
    BY <1>4
  <1>8. QED
    BY <1>5, <1>6, <1>7, Zenon DEF OneUnit, e

\* A packet without the flag that is added to one
LEMMA ExtendedIsOneUnit ==
    ASSUME NEW d \in IterationData, NEW p \in Packet, NEW n \in Nat, NEW b,
           OneUnit(d, b), b[n] = p, ~p.pusi
    PROVE  OneUnit(Extended(d, p, n), b)
  <1> DEFINE s == d.pkts
             e == Extended(d, p, n)
             x == e.pkts
             m == Len(s)
  <1>1. /\ Len(x) = m + 1 /\ m \in Nat
        /\ \A k \in 1..m : x[k] = s[k]
        /\ x[m + 1] = n
    BY ExtendedAt
  <1>2. /\ e.packet_count = d.packet_count + 1
        /\ e.payload_unit_start_seen = d.payload_unit_start_seen
        /\ e.first_cc = d.first_cc /\ e.last_cc = p.cc
    BY Zenon DEF Extended
  <1>3. /\ m > 0 /\ d.packet_count = m
        /\ \A k \in 2..m : ~b[s[k]].pusi
        /\ d.payload_unit_start_seen = b[s[1]].pusi
        /\ d.first_cc = b[s[1]].cc
    BY Zenon DEF OneUnit
  <1> HIDE DEF s, m, x, e
  <1>4. 1 \in 1..m /\ x[1] = s[1]
    BY <1>1, <1>3
  <1>5. ASSUME NEW k \in 2..Len(x) PROVE ~b[x[k]].pusi
    <2>1. k \in 2..m \/ k = m + 1
      BY <1>1
    <2>2. CASE k \in 2..m
      <3>1. x[k] = s[k]
        BY <1>1, <2>2
      <3>2. QED
        BY <1>3, <2>2, <3>1, Zenon
    <2>3. CASE k = m + 1
      BY <1>1, <2>3, Zenon
    <2>4. QED
      BY <2>1, <2>2, <2>3
  <1>6. /\ e.payload_unit_start_seen = b[x[1]].pusi
        /\ e.first_cc = b[x[1]].cc
        /\ e.last_cc = b[x[Len(x)]].cc
    BY <1>1, <1>2, <1>3, <1>4, Zenon
  <1>7. Len(x) > 0 /\ e.packet_count = Len(x)
    BY <1>1, <1>2, <1>3
  <1>8. QED
    BY <1>5, <1>6, <1>7, Zenon DEF OneUnit, e, x

LEMMA StepUnits ==
    TypeOK /\ OrderInv /\ UnitInv /\ [Next]_vars => UnitInv'
  <1> SUFFICES ASSUME TypeOK, OrderInv, UnitInv, [Next]_vars, NEW q \in Pid,
                      NEW i \in 1..Len(Iterations(q)')
               PROVE  OneUnit(Iterations(q)'[i], arrived')
    BY DEF UnitInv
  <1> DEFINE t == Iterations(q)
             d == Iterations(q)'[i]
             n == Len(arrived) + 1
  <1>1. \A k \in 1..Len(arrived) : arrived'[k] = arrived[k]
    BY ArrivedGrows
  <1>2. ASSUME NEW j \in 1..Len(t)
        PROVE  t[j] \in IterationData /\ OneUnit(t[j], arrived')
    <2>1. t[j] \in IterationData
      BY IterationsShape, ElementOfSeq
    <2>2. KnownIn(t[j], q, arrived) /\ OneUnit(t[j], arrived)
      BY DEF OrderInv, Ordered, UnitInv
    <2> HIDE DEF t
    <2>3. QED
      BY <1>1, <2>1, <2>2, OneUnitGrows
  <1>3. \/ \E j \in 1..Len(t) : d = t[j]
        \/ \E p \in Packets :
              /\ Takes(p, q)
              /\ \/ d = Extended(NewIteration(p), p, n)
                 \/ ~p.pusi /\ \E j \in 1..Len(t) : d = Extended(t[j], p, n)
    BY ComesFrom
  <1> HIDE DEF t, d
  <1>4. CASE \E j \in 1..Len(t) : d = t[j]
    BY <1>2, <1>4 DEF d
  <1>5. ASSUME NEW p \in Packets, Takes(p, q),
               \/ d = Extended(NewIteration(p), p, n)
               \/ ~p.pusi /\ \E j \in 1..Len(t) : d = Extended(t[j], p, n)
        PROVE  OneUnit(d, arrived')
    <2>1. p \in Packet /\ n \in Nat /\ arrived'[n] = p
      BY <1>5, PacketFacts DEF Takes
    <2> HIDE DEF n
    <2>2. CASE d = Extended(NewIteration(p), p, n)
      BY <2>1, <2>2, NewIsOneUnit
    <2>3. CASE ~p.pusi /\ \E j \in 1..Len(t) : d = Extended(t[j], p, n)
      BY <1>2, <2>1, <2>3, ExtendedIsOneUnit
    <2>4. QED
      BY <1>5, <2>2, <2>3
  <1>6. QED
    BY <1>3, <1>4, <1>5 DEF d

LEMMA UnitIsEnough == TypeOK /\ UnitInv => OneUnitPerIteration
  <1> SUFFICES ASSUME TypeOK, UnitInv, NEW q \in Pid,
                      NEW i \in DOMAIN Iterations(q)
               PROVE  LET d == Iterations(q)[i]
                      IN  /\ d.packet_count = Len(d.pkts) /\ d.packet_count > 0
                          /\ \A k \in 2..Len(d.pkts) : ~arrived[d.pkts[k]].pusi
                          /\ d.payload_unit_start_seen
                               = arrived[Head(d.pkts)].pusi
                          /\ d.first_cc = arrived[Head(d.pkts)].cc
                          /\ d.last_cc = arrived[Last(d.pkts)].cc
    BY DEF OneUnitPerIteration
  <1> DEFINE d == Iterations(q)[i]
  <1>1. i \in 1..Len(Iterations(q))
    BY IterationsShape, LenProperties
  <1>2. d \in IterationData /\ OneUnit(d, arrived)
    BY <1>1, IterationsShape, ElementOfSeq DEF UnitInv
  <1> HIDE DEF d
  <1>3. d.pkts \in Seq(Nat)
    BY <1>2 DEF IterationData
  <1>4. Head(d.pkts) = d.pkts[1] /\ Last(d.pkts) = d.pkts[Len(d.pkts)]
    BY <1>3 DEF Last
  <1>5. d.packet_count = Len(d.pkts) /\ d.packet_count > 0
    <2>1. d.packet_count = Len(d.pkts) /\ Len(d.pkts) > 0
      BY <1>2, Zenon DEF OneUnit
    <2>2. QED
      BY <2>1
  <1>6. QED
    BY <1>2, <1>4, <1>5, Zenon DEF OneUnit, d

LEMMA UnitsAlways == Spec => [](TypeOK /\ OrderInv /\ UnitInv)
  <1>1. Init => UnitInv
    <2>1. Init => \A q : \A i \in 1..Len(Iterations(q)) : FALSE
      <3>1. ASSUME Init, NEW q PROVE \A i \in 1..Len(Iterations(q)) : FALSE
        <4>1. Len(Iterations(q)) = 0
          BY <3>1, NoIterationsInitially
        <4>2. QED
          BY <4>1
      <3>2. QED
        BY <3>1
    <2>2. QED
      BY <2>1, Zenon DEF UnitInv
  <1>2. TypeOK /\ OrderInv /\ UnitInv /\ [Next]_vars => UnitInv'
    BY StepUnits
  <1>3. QED
    BY <1>1, <1>2, OrderAlways, PTL DEF Spec

\* For any PIDs, packets and tables: an iteration is one unit, and the
\* counters and the flag reported of it are those of the packets it holds.
THEOREM OneUnitTheorem == Spec => []OneUnitPerIteration
  <1>1. TypeOK /\ UnitInv => OneUnitPerIteration
    BY UnitIsEnough
  <1>2. QED
    BY <1>1, UnitsAlways, PTL

-----------------------------------------------------------------------------
(***************************************************************************)
(* The program table.                                                      *)
(***************************************************************************)
\* What TableFilters says of one iteration, in terms of the state's values
Filtered(d, q, available, known, at, reset) ==
    /\ q \notin SystemPid
    /\ available => \A k \in 1..Len(d.pkts) :
                       IF d.pkts[k] > at THEN q \in known ELSE reset

FilterInv ==
    \A q \in Pid : \A i \in 1..Len(Iterations(q)) :
        Filtered(Iterations(q)[i], q, programs_table_available,
                 known_program_pids, tableAt, idsReset)

LEMMA TableStep ==
    ASSUME [Next]_vars
    PROVE  \/ \E K \in Tables : SetProgramsTable(K)
           \/ ClearAll
           \/ UNCHANGED <<programs_table_available, known_program_pids,
                          tableAt, idsReset>>
  BY DEF Next, vars, tableVars, AddPacket, FinalizeAllIterations, historyVars,
         ClearIteration, ClearStream, ClearAllCrashes

\* What is left when a table is set was being accumulated.
LEMMA LeftWasPending ==
    ASSUME NEW K \in Tables, SetProgramsTable(K), NEW q,
           NEW i \in 1..Len(Iterations(q)')
    PROVE  idsReset' = TRUE
  <1>1. /\ streams' = <<>> /\ UNCHANGED current_iterations
        /\ idsReset' = (DOMAIN current_iterations # {})
    BY DEF SetProgramsTable, currentVars
  <1>2. ASSUME DOMAIN current_iterations = {} PROVE FALSE
    <2>1. getOrCreateStream(q)' = <<>> /\ IsPending(q)' = FALSE
      BY <1>1, <1>2, EmptyMap DEF getOrCreateStream, IsPending
    <2>2. Len(Iterations(q)') = 0
      BY <2>1, NothingHeld, EmptySeq, Zenon
    <2>3. QED
      BY <2>2
  <1>3. QED
    BY <1>1, <1>2

\* An iteration a step leaves as it was
LEMMA OldFiltered ==
    ASSUME TypeOK, OrderInv, FilterInv, [Next]_vars, NEW q \in Pid,
           NEW i \in 1..Len(Iterations(q)'), NEW j \in 1..Len(Iterations(q)),
           Iterations(q)'[i] = Iterations(q)[j]
    PROVE  Filtered(Iterations(q)[j], q, programs_table_available',
                    known_program_pids', tableAt', idsReset')
  <1> DEFINE d == Iterations(q)[j]
  <1>1. Filtered(d, q, programs_table_available, known_program_pids, tableAt,
                 idsReset)
    BY DEF FilterInv
  <1>2. \A k \in 1..Len(d.pkts) : d.pkts[k] \in 1..Len(arrived)
    BY DEF OrderInv, Ordered, KnownIn
  <1>3. Len(arrived) \in Nat
    BY ArrivedGrows
  <1>4. ASSUME NEW K \in Tables, SetProgramsTable(K)
        PROVE  tableAt' = Len(arrived) /\ idsReset' = TRUE
    BY <1>4, LeftWasPending DEF SetProgramsTable
  <1>5. ~ClearAll
    <2>1. ASSUME ClearAll PROVE FALSE
      <3>1. Len(Iterations(q)') = 0
        BY <2>1, ClearAllIterations, EmptySeq, Zenon
      <3>2. QED
        BY <3>1
    <2>2. QED
      BY <2>1
  <1> HIDE DEF d
  <1>6. CASE \E K \in Tables : SetProgramsTable(K)
    <2>1. tableAt' = Len(arrived) /\ idsReset' = TRUE
      BY <1>4, <1>6
    <2>2. \A k \in 1..Len(d.pkts) : ~(d.pkts[k] > tableAt')
      BY <1>2, <1>3, <2>1
    <2>3. q \notin SystemPid
      BY <1>1 DEF Filtered
    <2>4. QED
      BY <2>1, <2>2, <2>3 DEF Filtered, d
  <1>7. CASE UNCHANGED <<programs_table_available, known_program_pids, tableAt,
                         idsReset>>
    BY <1>1, <1>7 DEF d
  <1>8. QED
    BY <1>5, <1>6, <1>7, TableStep

\* An iteration the packet that arrives is put in
LEMMA NewFiltered ==
    ASSUME TypeOK, FilterInv, NEW q \in Pid, NEW p \in Packets, Takes(p, q),
           NEW d, \/ d = Extended(NewIteration(p), p, Len(arrived) + 1)
                  \/ \E j \in 1..Len(Iterations(q)) :
                        d = Extended(Iterations(q)[j], p, Len(arrived) + 1)
    PROVE  Filtered(d, q, programs_table_available', known_program_pids',
                    tableAt', idsReset')
  <1> DEFINE n == Len(arrived) + 1
             t == Iterations(q)
  <1>1. /\ p \in Packet /\ n \in Nat
        /\ UNCHANGED <<programs_table_available, known_program_pids, tableAt,
                       idsReset>>
    BY PacketFacts DEF Takes, AddPacket, tableVars
  <1>2. /\ q \notin SystemPid
        /\ programs_table_available => q \in known_program_pids
    BY DEF Takes, Accepts
  <1>3. n > tableAt
    BY PacketFacts DEF Takes, TypeOK, HistoryTypeOK
  <1>4. ASSUME NEW e \in IterationData, d = Extended(e, p, n),
               \A k \in 1..Len(e.pkts) :
                  programs_table_available =>
                     IF e.pkts[k] > tableAt THEN q \in known_program_pids
                                            ELSE idsReset
        PROVE  Filtered(d, q, programs_table_available', known_program_pids',
                        tableAt', idsReset')
    <2> HIDE DEF n
    <2>1. /\ Len(d.pkts) = Len(e.pkts) + 1 /\ Len(e.pkts) \in Nat
          /\ \A k \in 1..Len(e.pkts) : d.pkts[k] = e.pkts[k]
          /\ d.pkts[Len(e.pkts) + 1] = n
      BY <1>1, <1>4, ExtendedAt
    <2>2. ASSUME programs_table_available, NEW k \in 1..Len(d.pkts)
          PROVE  IF d.pkts[k] > tableAt THEN q \in known_program_pids
                                        ELSE idsReset
      <3>1. CASE k \in 1..Len(e.pkts)
        BY <1>4, <2>1, <2>2, <3>1
      <3>2. CASE k = Len(e.pkts) + 1
        BY <1>2, <1>3, <2>1, <2>2, <3>2
      <3>3. k \in 1..Len(e.pkts) \/ k = Len(e.pkts) + 1
        BY <2>1
      <3>4. QED
        BY <3>1, <3>2, <3>3
    <2>3. QED
      BY <1>1, <1>2, <2>2 DEF Filtered
  <1>5. CASE d = Extended(NewIteration(p), p, n)
    BY <1>1, <1>4, <1>5, NewIterationType, NewHasNone
  <1>6. ASSUME NEW j \in 1..Len(t), d = Extended(t[j], p, n)
        PROVE  Filtered(d, q, programs_table_available', known_program_pids',
                        tableAt', idsReset')
    <2>1. t[j] \in IterationData
      BY IterationsShape, ElementOfSeq
    <2>2. \A k \in 1..Len(t[j].pkts) :
             programs_table_available =>
                IF t[j].pkts[k] > tableAt THEN q \in known_program_pids
                                          ELSE idsReset
      BY DEF FilterInv, Filtered
    <2> HIDE DEF t, n
    <2>3. QED
      BY <1>4, <1>6, <2>1, <2>2
  <1>7. QED
    BY <1>5, <1>6

LEMMA StepFilters ==
    TypeOK /\ OrderInv /\ FilterInv /\ [Next]_vars => FilterInv'
  <1> SUFFICES ASSUME TypeOK, OrderInv, FilterInv, [Next]_vars, NEW q \in Pid,
                      NEW i \in 1..Len(Iterations(q)')
               PROVE  Filtered(Iterations(q)'[i], q, programs_table_available',
                               known_program_pids', tableAt', idsReset')
    BY DEF FilterInv
  <1> DEFINE t == Iterations(q)
             d == Iterations(q)'[i]
             n == Len(arrived) + 1
  <1>1. \/ \E j \in 1..Len(t) : d = t[j]
        \/ \E p \in Packets :
              /\ Takes(p, q)
              /\ \/ d = Extended(NewIteration(p), p, n)
                 \/ ~p.pusi /\ \E j \in 1..Len(t) : d = Extended(t[j], p, n)
    BY ComesFrom
  <1>2. ASSUME NEW j \in 1..Len(t), d = t[j]
        PROVE  Filtered(d, q, programs_table_available', known_program_pids',
                        tableAt', idsReset')
    BY <1>2, OldFiltered
  <1>3. ASSUME NEW p \in Packets, Takes(p, q),
               \/ d = Extended(NewIteration(p), p, n)
               \/ ~p.pusi /\ \E j \in 1..Len(t) : d = Extended(t[j], p, n)
        PROVE  Filtered(d, q, programs_table_available', known_program_pids',
                        tableAt', idsReset')
    <2> HIDE DEF d
    <2>1. QED
      BY <1>3, NewFiltered
  <1> HIDE DEF t, d, n
  <1>4. QED
    BY <1>1, <1>2, <1>3 DEF d

LEMMA FilterIsEnough == TypeOK /\ FilterInv => TableFilters
  <1> SUFFICES ASSUME TypeOK, FilterInv, NEW q \in Pid,
                      NEW i \in DOMAIN Iterations(q)
               PROVE  /\ q \notin SystemPid
                      /\ programs_table_available =>
                            \A n \in PktsOf(Iterations(q)[i]) :
                               IF n > tableAt THEN q \in known_program_pids
                                              ELSE idsReset
    BY DEF TableFilters
  <1> DEFINE d == Iterations(q)[i]
  <1>1. i \in 1..Len(Iterations(q))
    BY IterationsShape, LenProperties
  <1>2. d \in IterationData
    BY <1>1, IterationsShape, ElementOfSeq
  <1>3. Filtered(d, q, programs_table_available, known_program_pids, tableAt,
                 idsReset)
    BY <1>1 DEF FilterInv
  <1> HIDE DEF d
  <1>4. DOMAIN d.pkts = 1..Len(d.pkts)
    BY <1>2, LenProperties DEF IterationData
  <1>5. QED
    BY <1>3, <1>4 DEF Filtered, PktsOf, d

\* For any PIDs, packets and tables: no packet of a system PID is ever kept;
\* once a table is set no other PID gets one, and what is kept of before the
\* table was being accumulated when it was set.
THEOREM TableFiltersTheorem == Spec => []TableFilters
  <1>1. Init => FilterInv
    <2>1. ASSUME Init, NEW q PROVE \A i \in 1..Len(Iterations(q)) : FALSE
      <3>1. Len(Iterations(q)) = 0
        BY <2>1, NoIterationsInitially
      <3>2. QED
        BY <3>1
    <2>2. QED
      BY <2>1, Zenon DEF FilterInv
  <1>2. TypeOK /\ OrderInv /\ FilterInv /\ [Next]_vars => FilterInv'
    BY StepFilters
  <1>3. TypeOK /\ FilterInv => TableFilters
    BY FilterIsEnough
  <1>4. QED
    BY <1>1, <1>2, <1>3, OrderAlways, PTL DEF Spec

-----------------------------------------------------------------------------
(***************************************************************************)
(* What is held is what is owed.                                           *)
(***************************************************************************)
HeldIn(t) == UNION {PktsOf(t[i]) : i \in DOMAIN t}

PendingPkts(q) == IF IsPending(q) THEN PktsOf(current_iterations[q]) ELSE {}

LEMMA HeldAre ==
    /\ HeldIsOwed <=> owed = UNION {HeldIn(Iterations(q)) : q \in Pid}
    /\ HeldIsOwed' <=> owed' = UNION {HeldIn(Iterations(q)') : q \in Pid}
  BY Zenon DEF HeldIsOwed, HeldIn

LEMMA HeldMembers ==
    ASSUME NEW t \in Seq(IterationData), NEW n
    PROVE  n \in HeldIn(t) <=>
              \E i \in 1..Len(t) : \E k \in 1..Len(t[i].pkts) : n = t[i].pkts[k]
  <1>1. DOMAIN t = 1..Len(t)
    BY LenProperties
  <1>2. ASSUME NEW i \in 1..Len(t)
        PROVE  PktsOf(t[i]) = {t[i].pkts[k] : k \in 1..Len(t[i].pkts)}
    <2>1. t[i] \in IterationData
      BY ElementOfSeq
    <2>2. DOMAIN t[i].pkts = 1..Len(t[i].pkts)
      BY <2>1, LenProperties DEF IterationData
    <2>3. QED
      BY <2>2, Zenon DEF PktsOf
  <1>3. QED
    BY <1>1, <1>2 DEF HeldIn

LEMMA HeldParts ==
    ASSUME TypeOK, NEW q
    PROVE  HeldIn(Iterations(q))
             = StoredPkts(getOrCreateStream(q)) \cup PendingPkts(q)
  <1> DEFINE t == Iterations(q)
             s == getOrCreateStream(q)
             d == IsPending(q)
             c == current_iterations[q]
  <1>1. /\ t \in Seq(IterationData) /\ s \in Seq(Entry) /\ d \in BOOLEAN
        /\ Len(t) = Len(s) + (IF d THEN 1 ELSE 0)
        /\ \A i \in 1..Len(s) : t[i] = s[i].data
        /\ d => t[Len(s) + 1] = c
    BY IterationsShape, StreamType, PendingType
  <1>2. PendingPkts(q) = IF d THEN PktsOf(c) ELSE {}
    BY DEF PendingPkts
  <1> HIDE DEF t, s, c, d
  <1>3. /\ DOMAIN t = 1..Len(t) /\ DOMAIN s = 1..Len(s) /\ Len(s) \in Nat
    BY <1>1, LenProperties
  <1>4. StoredPkts(s) = UNION {PktsOf(t[i]) : i \in 1..Len(s)}
    BY <1>1, <1>3 DEF StoredPkts
  <1>5. CASE d
    <2>1. Len(t) = Len(s) + 1
      BY <1>1, <1>5
    <2>2. 1..Len(t) = (1..Len(s)) \cup {Len(s) + 1}
      BY <1>3, <2>1
    <2>3. t[Len(s) + 1] = c
      BY <1>1, <1>5
    <2>4. HeldIn(t) = StoredPkts(s) \cup PktsOf(c)
      BY <1>3, <1>4, <2>2, <2>3, Zenon DEF HeldIn
    <2>5. QED
      BY <1>2, <1>5, <2>4 DEF t, s
  <1>6. CASE ~d
    <2>1. Len(t) = Len(s) + 0
      BY <1>1, <1>6
    <2>2. Len(t) = Len(s)
      BY <1>3, <2>1
    <2>3. HeldIn(t) = StoredPkts(s)
      BY <1>3, <1>4, <2>2, Zenon DEF HeldIn
    <2>4. QED
      BY <1>2, <1>6, <2>3 DEF t, s
  <1>7. QED
    BY <1>5, <1>6

LEMMA HeldPartsNext ==
    TypeOK' => \A q : HeldIn(Iterations(q))'
                 = (StoredPkts(getOrCreateStream(q)) \cup PendingPkts(q))'
  <1>1. TypeOK => \A q : HeldIn(Iterations(q))
                   = StoredPkts(getOrCreateStream(q)) \cup PendingPkts(q)
    BY HeldParts
  <1>2. TypeOK' => (\A q : HeldIn(Iterations(q))
                   = StoredPkts(getOrCreateStream(q)) \cup PendingPkts(q))'
    BY <1>1, PTL
  <1>3. QED
    BY <1>2

LEMMA IterationsTypeNext ==
    TypeOK' => \A q : Iterations(q)' \in Seq(IterationData)
  <1>1. TypeOK => \A q : Iterations(q) \in Seq(IterationData)
    BY IterationsShape
  <1>2. TypeOK' => (\A q : Iterations(q) \in Seq(IterationData))'
    BY <1>1, PTL
  <1>3. QED
    BY <1>2

\* What a PID holds finished, what it holds pending and what another PID
\* holds have no packet in common.
LEMMA HeldApart ==
    ASSUME TypeOK, OrderInv, NEW q \in Pid,
           NEW n \in StoredPkts(getOrCreateStream(q))
    PROVE  n \notin PendingPkts(q)
           /\ \A r \in Pid \ {q} : n \notin HeldIn(Iterations(r))
  <1> DEFINE t == Iterations(q)
             s == getOrCreateStream(q)
  <1>1. /\ t \in Seq(IterationData) /\ s \in Seq(Entry)
        /\ Len(t) = Len(s) + (IF IsPending(q) THEN 1 ELSE 0)
        /\ \A i \in 1..Len(s) : t[i] = s[i].data
        /\ IsPending(q) => t[Len(s) + 1] = current_iterations[q]
        /\ Ordered(t, q, arrived)
    BY IterationsShape, StreamType DEF OrderInv
  <1>2. n \in StoredPkts(s)
    OBVIOUS
  <1> HIDE DEF t, s
  <1>3. DOMAIN s = 1..Len(s) /\ DOMAIN t = 1..Len(t) /\ Len(s) \in Nat
    BY <1>1, LenProperties
  <1>4. PICK i \in 1..Len(s) : n \in PktsOf(t[i])
    BY <1>1, <1>2, <1>3 DEF StoredPkts
  <1>5. i \in 1..Len(t)
    BY <1>1, <1>3
  <1>6. \A j \in 1..Len(t) : DOMAIN t[j].pkts = 1..Len(t[j].pkts)
    <2>1. ASSUME NEW j \in 1..Len(t)
          PROVE  DOMAIN t[j].pkts = 1..Len(t[j].pkts)
      <3>1. t[j] \in IterationData
        BY <1>1, ElementOfSeq
      <3>2. QED
        BY <3>1, LenProperties DEF IterationData
    <2>2. QED
      BY <2>1
  <1>7. PICK k \in 1..Len(t[i].pkts) : n = t[i].pkts[k]
    BY <1>4, <1>5, <1>6 DEF PktsOf
  <1>8. n \in 1..Len(arrived) /\ arrived[n].pid = q
    BY <1>1, <1>5, <1>7 DEF Ordered, KnownIn
  <1>9. ASSUME n \in PendingPkts(q) PROVE FALSE
    <2> DEFINE m == Len(s) + 1
    <2>1. IsPending(q) /\ n \in PktsOf(current_iterations[q])
      BY <1>9 DEF PendingPkts
    <2>2. Len(t) = m /\ m \in 1..Len(t) /\ i < m
          /\ t[m] = current_iterations[q]
      BY <1>1, <1>3, <2>1
    <2> HIDE DEF m
    <2>3. PICK l \in 1..Len(t[m].pkts) : n = t[m].pkts[l]
      BY <1>6, <2>1, <2>2 DEF PktsOf
    <2>4. Before(t[i], t[m])
      BY <1>1, <1>5, <2>2 DEF Ordered
    <2>5. n < n
      BY <1>7, <2>3, <2>4 DEF Before
    <2>6. QED
      BY <1>8, <2>5
  <1>10. ASSUME NEW r \in Pid \ {q}, n \in HeldIn(Iterations(r)) PROVE FALSE
    <2> DEFINE v == Iterations(r)
    <2>1. v \in Seq(IterationData) /\ Ordered(v, r, arrived)
      BY IterationsShape DEF OrderInv
    <2>2. n \in HeldIn(v)
      BY <1>10
    <2> HIDE DEF v
    <2>3. PICK j \in 1..Len(v) : \E l \in 1..Len(v[j].pkts) : n = v[j].pkts[l]
      BY <2>1, <2>2, HeldMembers
    <2>4. arrived[n].pid = r
      BY <2>1, <2>3 DEF Ordered, KnownIn
    <2>5. QED
      BY <1>8, <2>4
  <1>11. QED
    BY <1>9, <1>10

LEMMA ExtendedPktsOf ==
    ASSUME NEW d \in IterationData, NEW p \in Packet, NEW n \in Nat
    PROVE  PktsOf(Extended(d, p, n)) = PktsOf(d) \cup {n}
  <1> DEFINE s == d.pkts
             e == Extended(d, p, n).pkts
  <1>1. /\ e \in Seq(Nat) /\ s \in Seq(Nat) /\ Len(e) = Len(s) + 1
        /\ \A k \in 1..Len(s) : e[k] = s[k]
        /\ e[Len(s) + 1] = n
    BY ExtendedAt DEF IterationData
  <1> HIDE DEF e, s
  <1>2. DOMAIN e = (1..Len(s)) \cup {Len(s) + 1} /\ DOMAIN s = 1..Len(s)
    BY <1>1, LenProperties
  <1>3. {e[k] : k \in DOMAIN e} = {s[k] : k \in DOMAIN s} \cup {n}
    BY <1>1, <1>2
  <1>4. QED
    BY <1>3, Zenon DEF PktsOf, e, s

LEMMA NewlyHeld ==
    ASSUME NEW t \in Seq(IterationData), NEW u \in Seq(IterationData),
           NEW p \in Packet, NEW n \in Nat, Added(t, u, p, n)
    PROVE  HeldIn(u) = HeldIn(t) \cup {n}
  <1>1. PICK m \in Nat, d \in IterationData :
           /\ Len(u) = m + 1 /\ m <= Len(t)
           /\ \A i \in 1..m : u[i] = t[i]
           /\ u[m + 1] = Extended(d, p, n)
           /\ \/ m = Len(t) /\ d = NewIteration(p)
              \/ m + 1 = Len(t) /\ d = t[m + 1] /\ ~p.pusi
    BY Zenon DEF Added
  <1> DEFINE old == UNION {PktsOf(t[i]) : i \in 1..m}
  <1>2. DOMAIN t = 1..Len(t) /\ DOMAIN u = 1..(m + 1) /\ Len(t) \in Nat
        /\ 1..(m + 1) = (1..m) \cup {m + 1}
    BY <1>1, LenProperties
  <1>3. {PktsOf(u[i]) : i \in 1..m} = {PktsOf(t[i]) : i \in 1..m}
    BY <1>1
  <1>4. HeldIn(u) = old \cup PktsOf(Extended(d, p, n))
    BY <1>1, <1>2, <1>3 DEF HeldIn
  <1>5. PktsOf(Extended(d, p, n)) = PktsOf(d) \cup {n}
    BY ExtendedPktsOf
  <1>6. CASE m = Len(t) /\ d = NewIteration(p)
    <2>1. PktsOf(d) = {}
      <3>1. DOMAIN d.pkts = {}
        BY <1>6, EmptyMap DEF NewIteration
      <3>2. QED
        BY <3>1 DEF PktsOf
    <2>2. HeldIn(t) = old
      BY <1>2, <1>6, Zenon DEF HeldIn
    <2>3. QED
      BY <1>4, <1>5, <2>1, <2>2
  <1>7. CASE m + 1 = Len(t) /\ d = t[m + 1]
    <2>1. HeldIn(t) = old \cup PktsOf(d)
      BY <1>2, <1>7 DEF HeldIn
    <2> HIDE DEF old
    <2>2. QED
      BY <1>4, <1>5, <2>1
  <1>8. QED
    BY <1>1, <1>6, <1>7

LEMMA AddPacketTakes ==
    ASSUME TypeOK, NEW p \in Packets, AddPacket(p)
    PROVE  \/ (\A r : Iterations(r)' = Iterations(r)) /\ owed' = owed
           \/ /\ Takes(p, p.pid)
              /\ \A r : r # p.pid => Iterations(r)' = Iterations(r)
              /\ owed' = owed \cup {Len(arrived) + 1}
  <1>1. CASE SkipPacket(p)
    <2>1. UNCHANGED <<streams, current_iterations, owed>>
      BY <1>1 DEF SkipPacket, storageVars, currentVars
    <2>2. QED
      BY <2>1, Zenon DEF Iterations, getOrCreateStream
  <1>2. CASE StartIteration(p)
    <2>1. /\ BeginsIteration(p, p.pid)
          /\ \A r : r # p.pid => Iterations(r)' = Iterations(r)
      BY <1>2, StartIterations DEF BeginsIteration
    <2>2. Accepts(p) /\ owed' = owed \cup {Len(arrived) + 1}
      BY <1>2 DEF StartIteration
    <2>3. QED
      BY <2>1, <2>2 DEF Takes
  <1>3. CASE ContinueIteration(p)
    <2>1. ~p.pusi /\ Accepts(p) /\ owed' = owed \cup {Len(arrived) + 1}
      BY <1>3 DEF ContinueIteration
    <2>2. /\ GoesOn(p, p.pid)
          /\ \A r : r # p.pid => Iterations(r)' = Iterations(r)
      BY <1>3, <2>1, ContinueIterations DEF GoesOn
    <2>3. QED
      BY <2>1, <2>2 DEF Takes
  <1>4. QED
    BY <1>1, <1>2, <1>3 DEF AddPacket

\* Finished iterations of one PID go, the pending one and other PIDs stay.
LEMMA OwedAfterRemoval ==
    ASSUME TypeOK, TypeOK', OrderInv, HeldIsOwed, NEW q \in Pid,
           \A r : r # q => Iterations(r)' = Iterations(r),
           UNCHANGED current_iterations,
           NEW S, S = StoredPkts(getOrCreateStream(q)),
           NEW T, T = StoredPkts(getOrCreateStream(q))', T \subseteq S,
           owed' = owed \ (S \ T)
    PROVE  HeldIsOwed'
  <1> DEFINE H(r) == HeldIn(Iterations(r))
             I(r) == HeldIn(Iterations(r)')
             P == PendingPkts(q)
  <1>1. H(q) = S \cup P
    BY HeldParts
  <1>2. I(q) = T \cup P
    <2>1. HeldIn(Iterations(q))'
            = (StoredPkts(getOrCreateStream(q)) \cup PendingPkts(q))'
      BY HeldPartsNext
    <2>2. PendingPkts(q)' = P
      BY DEF PendingPkts, IsPending
    <2>3. HeldIn(Iterations(q))' = I(q)
      OBVIOUS
    <2>4. QED
      BY <2>1, <2>2, <2>3
  <1>3. \A n \in S : n \notin P /\ \A r \in Pid \ {q} : n \notin H(r)
    BY HeldApart
  <1>4. \A r : r # q => I(r) = H(r)
    OBVIOUS
  <1>5. owed = UNION {H(r) : r \in Pid}
    BY HeldAre
  <1> HIDE DEF H, I, P
  <1>6. owed' = UNION {I(r) : r \in Pid}
    <2>1. ASSUME NEW n PROVE n \in owed' <=> \E r \in Pid : n \in I(r)
      <3>1. n \in owed' <=> (\E r \in Pid : n \in H(r)) /\ ~(n \in S /\ n \notin T)
        BY <1>5
      <3>2. (\E r \in Pid : n \in H(r))
              <=> n \in S \/ n \in P \/ \E r \in Pid \ {q} : n \in H(r)
        BY <1>1
      <3>3. (\E r \in Pid : n \in I(r))
              <=> n \in T \/ n \in P \/ \E r \in Pid \ {q} : n \in H(r)
        BY <1>2, <1>4
      <3>4. n \in T => n \in S
        OBVIOUS
      <3>5. n \in S => n \notin P /\ ~\E r \in Pid \ {q} : n \in H(r)
        BY <1>3
      <3>6. QED
        BY <3>1, <3>2, <3>3, <3>4, <3>5
    <2>2. QED
      BY <2>1
  <1>7. QED
    BY <1>6, HeldAre DEF I

LEMMA StoredOfRemoved ==
    ASSUME NEW s \in Seq(Entry), NEW id
    PROVE  StoredPkts(removeIteration(s, id)) \subseteq StoredPkts(s)
  BY RemoveIteration DEF StoredPkts

LEMMA StepOwed ==
    TypeOK /\ TypeOK' /\ OrderInv /\ HeldIsOwed /\ [Next]_vars => HeldIsOwed'
  <1> SUFFICES ASSUME TypeOK, TypeOK', OrderInv, HeldIsOwed, [Next]_vars
               PROVE  HeldIsOwed'
    OBVIOUS
  <1>0. owed = UNION {HeldIn(Iterations(q)) : q \in Pid}
    BY HeldAre
  <1>s. ASSUME \A r : Iterations(r)' = Iterations(r), owed' = owed
        PROVE  HeldIsOwed'
    BY <1>0, <1>s, HeldAre, Zenon
  <1>1. ASSUME NEW p \in Packets, AddPacket(p) PROVE HeldIsOwed'
    <2> DEFINE q == p.pid
               n == Len(arrived) + 1
               H(r) == HeldIn(Iterations(r))
               I(r) == HeldIn(Iterations(r)')
    <2>1. CASE /\ Takes(p, q)
               /\ \A r : r # q => Iterations(r)' = Iterations(r)
               /\ owed' = owed \cup {n}
      <3>1. p \in Packet /\ q \in Pid /\ n \in Nat
        BY <1>1, PacketFacts
      <3>2. I(q) = H(q) \cup {n}
        <4>1. Added(Iterations(q), Iterations(q)', p, n)
          BY <2>1, <3>1, TakesAdds
        <4>2. Iterations(q) \in Seq(IterationData)
          BY IterationsShape
        <4>3. Iterations(q)' \in Seq(IterationData)
          BY IterationsTypeNext
        <4> HIDE DEF n, q
        <4>4. QED
          BY <3>1, <4>1, <4>2, <4>3, NewlyHeld
      <3>3. \A r : r # q => I(r) = H(r)
        BY <2>1
      <3>4. owed = UNION {H(r) : r \in Pid} /\ owed' = owed \cup {n}
        BY <1>0, <2>1
      <3> HIDE DEF H, I, q, n
      <3>5. owed' = UNION {I(r) : r \in Pid}
        BY <3>1, <3>2, <3>3, <3>4
      <3>6. QED
        BY <3>5, HeldAre DEF I
    <2>2. QED
      BY <1>1, <1>s, <2>1, AddPacketTakes
  <1>2. CASE FinalizeAllIterations
    BY <1>2, <1>s, FinishIterations DEF FinalizeAllIterations, historyVars
  <1>3. ASSUME NEW q \in Pid, NEW id \in 0..MaxPackets, ClearIteration(q, id)
        PROVE  HeldIsOwed'
    <2> DEFINE s == getOrCreateStream(q)
    <2>1. /\ \A r : r # q => Iterations(r)' = Iterations(r)
          /\ UNCHANGED current_iterations
      BY <1>3, ClearIterationIterations
    <2>2. /\ streams' = Put(streams, q, removeIteration(s, id))
          /\ owed' = owed \ (StoredPkts(s) \ StoredPkts(removeIteration(s, id)))
      BY <1>3 DEF ClearIteration
    <2>3. getOrCreateStream(q)' = removeIteration(s, id)
      BY <2>2 DEF Put, getOrCreateStream
    <2>4. StoredPkts(getOrCreateStream(q))' = StoredPkts(removeIteration(s, id))
      BY <2>3, Zenon DEF StoredPkts
    <2>5. StoredPkts(removeIteration(s, id)) \subseteq StoredPkts(s)
      BY StreamType, StoredOfRemoved
    <2>6. QED
      BY <2>1, <2>2, <2>4, <2>5, OwedAfterRemoval
  <1>4. ASSUME NEW q \in Pid, ClearStream(q) PROVE HeldIsOwed'
    <2>1. /\ \A r : r # q => Iterations(r)' = Iterations(r)
          /\ UNCHANGED current_iterations
      BY <1>4, ClearStreamIterations
    <2>2. /\ q \in DOMAIN streams /\ streams' = [streams EXCEPT ![q] = <<>>]
          /\ owed' = owed \ StoredPkts(streams[q])
      BY <1>4 DEF ClearStream
    <2>3. getOrCreateStream(q) = streams[q] /\ getOrCreateStream(q)' = <<>>
      BY <2>2 DEF getOrCreateStream
    <2>4. StoredPkts(getOrCreateStream(q))' = {}
      BY <2>3, EmptyMap DEF StoredPkts
    <2> DEFINE S == StoredPkts(getOrCreateStream(q))
    <2>5. owed' = owed \ (S \ {})
      BY <2>2, <2>3
    <2> HIDE DEF S
    <2>6. {} \subseteq S
      OBVIOUS
    <2>7. QED
      BY <2>1, <2>4, <2>5, <2>6, OwedAfterRemoval DEF S
  <1>5. CASE ClearAll
    <2>1. owed' = {} /\ \A r : Iterations(r)' = <<>>
      BY <1>5, ClearAllIterations DEF ClearAll
    <2>2. HeldIn(<<>>) = {}
      BY EmptyMap DEF HeldIn
    <2>3. \A r : HeldIn(Iterations(r)') = {}
      BY <2>1, <2>2, Zenon
    <2>4. owed' = UNION {HeldIn(Iterations(q)') : q \in Pid}
      BY <2>1, <2>3
    <2>5. QED
      BY <2>4, HeldAre
  <1>6. ASSUME NEW K \in Tables, SetProgramsTable(K) PROVE HeldIsOwed'
    <2>1. /\ streams' = <<>> /\ UNCHANGED current_iterations
          /\ owed' = UNION {PktsOf(current_iterations[q]) :
                               q \in DOMAIN current_iterations}
      BY <1>6 DEF SetProgramsTable, currentVars
    <2>2. ASSUME NEW q PROVE HeldIn(Iterations(q)') = PendingPkts(q)
      <3>1. HeldIn(Iterations(q))'
              = (StoredPkts(getOrCreateStream(q)) \cup PendingPkts(q))'
        BY HeldPartsNext
      <3>2. PendingPkts(q)' = PendingPkts(q)
        BY <2>1 DEF PendingPkts, IsPending
      <3>3. getOrCreateStream(q)' = <<>>
        BY <2>1, EmptyMap DEF getOrCreateStream
      <3>4. StoredPkts(getOrCreateStream(q))' = {}
        BY <3>3, EmptyMap DEF StoredPkts
      <3>5. QED
        BY <3>1, <3>2, <3>4
    <2>3. DOMAIN current_iterations \subseteq Pid
      BY DEF TypeOK, CurrentTypeOK
    <2>4. owed' = UNION {PendingPkts(q) : q \in Pid}
      BY <2>1, <2>3 DEF PendingPkts, IsPending
    <2>5. owed' = UNION {HeldIn(Iterations(q)') : q \in Pid}
      BY <2>2, <2>4
    <2>6. QED
      BY <2>5, HeldAre
  <1>7. CASE UNCHANGED vars \/ ClearAllCrashes
    BY <1>7, <1>s, StandsStill
  <1>8. QED
    BY <1>1, <1>2, <1>3, <1>4, <1>5, <1>6, <1>7 DEF Next

\* For any PIDs, packets and tables, and any calls: no packet is lost before
\* the user clears it, and none comes back afterwards.
THEOREM HeldIsOwedTheorem == Spec => []HeldIsOwed
  <1>1. Init => HeldIsOwed
    <2>1. ASSUME Init, NEW q PROVE HeldIn(Iterations(q)) = {}
      <3> DEFINE t == Iterations(q)
      <3>1. Len(t) = 0 /\ TypeOK
        BY <2>1, NoIterationsInitially, InitType
      <3>2. t \in Seq(IterationData)
        BY <3>1, IterationsShape
      <3> HIDE DEF t
      <3>3. DOMAIN t = {}
        BY <3>1, <3>2, LenProperties
      <3>4. QED
        BY <3>3 DEF HeldIn, t
    <2>2. Init => owed = {}
      BY DEF Init
    <2>3. Init => owed = UNION {HeldIn(Iterations(q)) : q \in Pid}
      BY <2>1, <2>2
    <2>4. QED
      BY <2>3, HeldAre
  <1>2. TypeOK /\ TypeOK' /\ OrderInv /\ HeldIsOwed /\ [Next]_vars
          => HeldIsOwed'
    BY StepOwed
  <1>3. QED
    BY <1>1, <1>2, OrderAlways, PTL DEF Spec

-----------------------------------------------------------------------------
(***************************************************************************)
(* The segments of an iteration.  A packet adds two, one after the other,  *)
(* each only if it is not empty.                                           *)
(***************************************************************************)
SegmentOf(n, type, offset, length) ==
    [n |-> n, type |-> type, offset |-> offset, length |-> length]

WithSegment(s, n, type, offset, length) ==
    IF length > 0 THEN Append(s, SegmentOf(n, type, offset, length)) ELSE s

LengthIn(p, type) == IF type = "private" THEN p.priv ELSE p.pay

EndOf(s, k) == s[k].offset + s[k].length

Tile(s, size) ==
    /\ \A k \in 1..Len(s) : s[k].offset = IF k = 1 THEN 0 ELSE EndOf(s, k - 1)
    /\ size = IF Len(s) = 0 THEN 0 ELSE EndOf(s, Len(s))

LengthsFrom(s, a) ==
    \A k \in 1..Len(s) : s[k].length = LengthIn(a[s[k].n], s[k].type)

At(s, n, type) == {k \in 1..Len(s) : s[k].n = n /\ s[k].type = type}

\* How many segments of a type packet n has: one, or none if it is empty
OneEach(s, n, p) ==
    \A type \in {"normal", "private"} :
        IF LengthIn(p, type) > 0 THEN \E k : At(s, n, type) = {k}
                                 ELSE At(s, n, type) = {}

LEMMA SegmentsOneByOne ==
    ASSUME NEW s \in Seq(Segment), NEW p \in Packet, NEW n \in Nat,
           NEW size \in Nat
    PROVE  s \o Segments(p, n, size)
             = WithSegment(WithSegment(s, n, "private", size, p.priv),
                           n, "normal", size + p.priv, p.pay)
  <1> DEFINE x == SegmentOf(n, "private", size, p.priv)
             y == SegmentOf(n, "normal", size + p.priv, p.pay)
  <1>1. p.priv \in Nat /\ p.pay \in Nat /\ size + p.priv \in Nat
    BY DEF Packet
  <1>2. x \in Segment /\ y \in Segment
    BY <1>1 DEF SegmentOf, Segment
  <1>3. Segments(p, n, size) = (IF p.priv > 0 THEN <<x>> ELSE <<>>)
                               \o (IF p.pay > 0 THEN <<y>> ELSE <<>>)
    BY DEF Segments, SegmentOf
  <1>4. WithSegment(s, n, "private", size, p.priv)
          = IF p.priv > 0 THEN Append(s, x) ELSE s
    BY DEF WithSegment
  <1>5. \A t : WithSegment(t, n, "normal", size + p.priv, p.pay)
                 = IF p.pay > 0 THEN Append(t, y) ELSE t
    BY DEF WithSegment
  <1> HIDE DEF x, y
  <1>6. /\ s \o (<<x>> \o <<y>>) = Append(Append(s, x), y)
        /\ s \o (<<x>> \o <<>>) = Append(s, x)
        /\ s \o (<<>> \o <<y>>) = Append(s, y)
        /\ s \o (<<>> \o <<>>) = s
    BY <1>2
  <1>7. QED
    BY <1>3, <1>4, <1>5, <1>6

\* t is s with e behind it, or s if e is empty.
Grown(s, t, e, length) ==
    /\ length = 0 => t = s
    /\ length > 0 => /\ Len(t) = Len(s) + 1
                     /\ \A k \in 1..Len(s) : t[k] = s[k]
                     /\ t[Len(s) + 1] = e

LEMMA WithSegmentShape ==
    ASSUME NEW s \in Seq(Segment), NEW n \in Nat,
           NEW type \in {"normal", "private"},
           NEW offset \in Nat, NEW length \in Nat
    PROVE  /\ WithSegment(s, n, type, offset, length) \in Seq(Segment)
           /\ Grown(s, WithSegment(s, n, type, offset, length),
                    SegmentOf(n, type, offset, length), length)
  <1> DEFINE t == WithSegment(s, n, type, offset, length)
             e == SegmentOf(n, type, offset, length)
  <1>1. e \in Segment
    BY DEF SegmentOf, Segment
  <1>2. t = IF length > 0 THEN Append(s, e) ELSE s
    BY DEF WithSegment
  <1> HIDE DEF t, e
  <1>3. t \in Seq(Segment) /\ Grown(s, t, e, length)
    BY <1>1, <1>2, AppendedAt, LenProperties DEF Grown
  <1>4. QED
    BY <1>3 DEF t, e

LEMMA WithSegmentTiles ==
    ASSUME NEW s \in Seq(Segment), NEW n \in Nat,
           NEW type \in {"normal", "private"},
           NEW size \in Nat, NEW length \in Nat, Tile(s, size)
    PROVE  Tile(WithSegment(s, n, type, size, length), size + length)
  <1> DEFINE t == WithSegment(s, n, type, size, length)
             m == Len(s)
  <1>0. Grown(s, t, SegmentOf(n, type, size, length), length)
    BY WithSegmentShape
  <1>1. /\ m \in Nat
        /\ length = 0 => t = s
        /\ length > 0 => /\ Len(t) = m + 1
                         /\ \A k \in 1..m : t[k] = s[k]
                         /\ t[m + 1] = SegmentOf(n, type, size, length)
    BY <1>0, LenProperties, Zenon DEF Grown
  <1>2. /\ \A k \in 1..m : s[k].offset = IF k = 1 THEN 0 ELSE EndOf(s, k - 1)
        /\ size = IF m = 0 THEN 0 ELSE EndOf(s, m)
    BY DEF Tile
  <1> HIDE DEF t, m
  <1>3. CASE length = 0
    <2>1. size + length = size
      BY <1>3
    <2>2. QED
      BY <1>1, <1>3, <2>1 DEF t
  <1>4. CASE length > 0
    <2>1. t[m + 1].offset = size /\ EndOf(t, m + 1) = size + length
      BY <1>1, <1>4 DEF SegmentOf, EndOf
    <2>2. \A k \in 1..m : t[k] = s[k] /\ EndOf(t, k) = EndOf(s, k)
      BY <1>1, <1>4 DEF EndOf
    <2>3. ASSUME NEW k \in 1..(m + 1)
          PROVE  t[k].offset = IF k = 1 THEN 0 ELSE EndOf(t, k - 1)
      <3>1. k \in 1..m \/ k = m + 1
        BY <1>1
      <3>2. CASE k \in 1..m
        <4>1. k # 1 => k - 1 \in 1..m
          BY <1>1, <3>2
        <4>2. QED
          BY <1>2, <2>2, <3>2, <4>1
      <3>3. CASE k = m + 1
        <4>1. CASE m = 0
          <5>1. k = 1 /\ size = 0
            BY <1>2, <3>3, <4>1
          <5>2. t[k].offset = size
            BY <2>1, <3>3
          <5>3. QED
            BY <5>1, <5>2
        <4>2. CASE m # 0
          <5>1. k # 1 /\ k - 1 = m /\ m \in 1..m
            BY <1>1, <3>3, <4>2
          <5>2. t[k].offset = EndOf(t, m)
            BY <1>2, <2>1, <2>2, <3>3, <4>2, <5>1
          <5>3. QED
            BY <5>1, <5>2
        <4>3. QED
          BY <4>1, <4>2
      <3>4. QED
        BY <3>1, <3>2, <3>3
    <2>4. Len(t) = m + 1 /\ Len(t) # 0
      BY <1>1, <1>4
    <2>5. Tile(t, size + length)
      BY <2>1, <2>3, <2>4 DEF Tile
    <2>6. QED
      BY <2>5 DEF t
  <1>5. QED
    BY <1>3, <1>4

LEMMA WithSegmentLengths ==
    ASSUME NEW s \in Seq(Segment), NEW n \in Nat,
           NEW type \in {"normal", "private"},
           NEW offset \in Nat, NEW length \in Nat, NEW a,
           LengthsFrom(s, a), length = LengthIn(a[n], type)
    PROVE  LengthsFrom(WithSegment(s, n, type, offset, length), a)
  <1> DEFINE t == WithSegment(s, n, type, offset, length)
             m == Len(s)
  <1>0. Grown(s, t, SegmentOf(n, type, offset, length), length)
    BY WithSegmentShape
  <1>1. /\ m \in Nat
        /\ length = 0 => t = s
        /\ length > 0 => /\ Len(t) = m + 1
                         /\ \A k \in 1..m : t[k] = s[k]
                         /\ t[m + 1] = SegmentOf(n, type, offset, length)
    BY <1>0, LenProperties, Zenon DEF Grown
  <1>2. \A k \in 1..m : s[k].length = LengthIn(a[s[k].n], s[k].type)
    BY DEF LengthsFrom
  <1> HIDE DEF t, m
  <1>3. CASE length = 0
    BY <1>1, <1>3 DEF t
  <1>4. CASE length > 0
    <2>1. /\ t[m + 1].n = n /\ t[m + 1].type = type
          /\ t[m + 1].length = length
      BY <1>1, <1>4 DEF SegmentOf
    <2>2. t[m + 1].length = LengthIn(a[t[m + 1].n], t[m + 1].type)
      BY <2>1, Zenon
    <2>3. \A k \in 1..Len(t) : k \in 1..m \/ k = m + 1
      BY <1>1, <1>4
    <2>4. ASSUME NEW k \in 1..m
          PROVE  t[k].length = LengthIn(a[t[k].n], t[k].type)
      <3>1. t[k] = s[k]
        BY <1>1, <1>4
      <3>2. QED
        BY <1>2, <3>1, Zenon
    <2>5. LengthsFrom(t, a)
      BY <2>2, <2>3, <2>4, Zenon DEF LengthsFrom
    <2>6. QED
      BY <2>5 DEF t
  <1>5. QED
    BY <1>3, <1>4

\* t has one segment more of packet n and the type, if length is not 0.
OneMoreAt(s, t, n, type, length) ==
    \A m, y : At(t, m, y) = IF length > 0 /\ m = n /\ y = type
                            THEN At(s, m, y) \cup {Len(s) + 1} ELSE At(s, m, y)

LEMMA WithSegmentAt ==
    ASSUME NEW s \in Seq(Segment), NEW n \in Nat,
           NEW type \in {"normal", "private"},
           NEW offset \in Nat, NEW length \in Nat
    PROVE  OneMoreAt(s, WithSegment(s, n, type, offset, length),
                     n, type, length)
  <1> SUFFICES ASSUME NEW m, NEW y
               PROVE  At(WithSegment(s, n, type, offset, length), m, y)
                        = IF length > 0 /\ m = n /\ y = type
                          THEN At(s, m, y) \cup {Len(s) + 1} ELSE At(s, m, y)
    BY Zenon DEF OneMoreAt
  <1> DEFINE t == WithSegment(s, n, type, offset, length)
             l == Len(s)
  <1>0. Grown(s, t, SegmentOf(n, type, offset, length), length)
    BY WithSegmentShape
  <1>1. /\ l \in Nat
        /\ length = 0 => t = s
        /\ length > 0 => /\ Len(t) = l + 1
                         /\ \A k \in 1..l : t[k] = s[k]
                         /\ t[l + 1] = SegmentOf(n, type, offset, length)
    BY <1>0, LenProperties, Zenon DEF Grown
  <1> HIDE DEF t
  <1>2. CASE length = 0
    BY <1>1, <1>2 DEF t
  <1>3. CASE length > 0
    <2>1. t[l + 1].n = n /\ t[l + 1].type = type
      BY <1>1, <1>3 DEF SegmentOf
    <2>2. 1..Len(t) = (1..l) \cup {l + 1}
      BY <1>1, <1>3
    <2>3. At(t, m, y) = {k \in 1..Len(t) : t[k].n = m /\ t[k].type = y}
          /\ At(s, m, y) = {k \in 1..l : s[k].n = m /\ s[k].type = y}
      BY DEF At
    <2>4. \A k \in 1..l : t[k] = s[k]
      BY <1>1, <1>3
    <2>5. At(t, m, y) = IF m = n /\ y = type THEN At(s, m, y) \cup {l + 1}
                                             ELSE At(s, m, y)
      <3> HIDE DEF l
      <3>1. CASE m = n /\ y = type
        BY <2>1, <2>2, <2>3, <2>4, <3>1
      <3>2. CASE ~(m = n /\ y = type)
        BY <2>1, <2>2, <2>3, <2>4, <3>2
      <3>3. QED
        BY <3>1, <3>2
    <2>6. QED
      BY <1>3, <2>5 DEF t
  <1>4. QED
    BY <1>2, <1>3

Tiled(d, a) ==
    /\ Tile(d.payloads, d.payload_data)
    /\ LengthsFrom(d.payloads, a)
    /\ \A k \in 1..Len(d.payloads) : d.payloads[k].n \in PktsOf(d)
    /\ \A n \in PktsOf(d) : OneEach(d.payloads, n, a[n])

SegmentInv ==
    \A q \in Pid : \A i \in 1..Len(Iterations(q)) :
        Tiled(Iterations(q)[i], arrived)

LEMMA PktsKnown ==
    ASSUME NEW d \in IterationData, NEW q, NEW a, KnownIn(d, q, a)
    PROVE  PktsOf(d) \subseteq 1..Len(a)
  <1>1. DOMAIN d.pkts = 1..Len(d.pkts)
    BY LenProperties DEF IterationData
  <1>2. QED
    BY <1>1 DEF PktsOf, KnownIn

LEMMA TiledGrows ==
    ASSUME NEW d \in IterationData, NEW q, NEW a, NEW b, KnownIn(d, q, a),
           \A n \in 1..Len(a) : b[n] = a[n], Tiled(d, a)
    PROVE  Tiled(d, b)
  <1> DEFINE s == d.payloads
  <1>1. \A n \in PktsOf(d) : b[n] = a[n]
    BY PktsKnown
  <1>2. \A k \in 1..Len(s) : s[k].n \in PktsOf(d)
    BY DEF Tiled
  <1>3. LengthsFrom(s, a) /\ \A n \in PktsOf(d) : OneEach(s, n, a[n])
    BY DEF Tiled
  <1> HIDE DEF s
  <1>4. LengthsFrom(s, b)
    <2>1. \A k \in 1..Len(s) : b[s[k].n] = a[s[k].n]
      BY <1>1, <1>2
    <2>2. QED
      BY <1>3, <2>1, Zenon DEF LengthsFrom
  <1>5. \A n \in PktsOf(d) : OneEach(s, n, b[n])
    BY <1>1, <1>3, Zenon
  <1>6. QED
    BY <1>2, <1>4, <1>5, Zenon DEF Tiled, s

LEMMA WithSegmentNumbers ==
    ASSUME NEW s \in Seq(Segment), NEW n \in Nat,
           NEW type \in {"normal", "private"},
           NEW offset \in Nat, NEW length \in Nat, NEW N,
           \A k \in 1..Len(s) : s[k].n \in N
    PROVE  LET t == WithSegment(s, n, type, offset, length)
           IN  \A k \in 1..Len(t) : t[k].n \in N \cup {n}
  <1> DEFINE t == WithSegment(s, n, type, offset, length)
             m == Len(s)
  <1>0. Grown(s, t, SegmentOf(n, type, offset, length), length)
    BY WithSegmentShape
  <1>1. /\ m \in Nat
        /\ length = 0 => t = s
        /\ length > 0 => /\ Len(t) = m + 1
                         /\ \A k \in 1..m : t[k] = s[k]
                         /\ t[m + 1] = SegmentOf(n, type, offset, length)
    BY <1>0, LenProperties, Zenon DEF Grown
  <1> HIDE DEF t
  <1>2. CASE length = 0
    BY <1>1, <1>2 DEF t
  <1>3. CASE length > 0
    <2>1. t[m + 1].n = n
      BY <1>1, <1>3 DEF SegmentOf
    <2>2. \A k \in 1..m : t[k].n \in N
      BY <1>1, <1>3
    <2> HIDE DEF m
    <2>3. \A k \in 1..Len(t) : k \in 1..m \/ k = m + 1
      BY <1>1, <1>3
    <2>4. QED
      BY <2>1, <2>2, <2>3, Zenon DEF t
  <1>4. QED
    BY <1>2, <1>3

\* A packet adds its own segments behind those of the iteration.
LEMMA ExtendedTiled ==
    ASSUME NEW d \in IterationData, NEW p \in Packet, NEW n \in Nat, NEW b,
           Tiled(d, b), n \notin PktsOf(d), b[n] = p
    PROVE  Tiled(Extended(d, p, n), b)
  <1> DEFINE e == Extended(d, p, n)
             s == d.payloads
             size == d.payload_data
             t == WithSegment(s, n, "private", size, p.priv)
             u == WithSegment(t, n, "normal", size + p.priv, p.pay)
  <1>1. /\ s \in Seq(Segment) /\ size \in Nat /\ p.priv \in Nat
        /\ p.pay \in Nat /\ size + p.priv \in Nat
    BY DEF IterationData, Packet
  <1>2. e.payloads = u /\ e.payload_data = (size + p.priv) + p.pay
    <2>1. /\ e.payloads = s \o Segments(p, n, size)
          /\ e.payload_data = size + p.priv + p.pay
      BY DEF Extended
    <2>2. s \o Segments(p, n, size) = u
      BY ZenonT(90), <1>1, SegmentsOneByOne
    <2> HIDE DEF e, u, s, size
    <2>3. QED
      BY <2>1, <2>2
  <1>3. PktsOf(e) = PktsOf(d) \cup {n}
    BY ExtendedPktsOf
  <1>4. /\ Tile(s, size) /\ LengthsFrom(s, b)
        /\ \A k \in 1..Len(s) : s[k].n \in PktsOf(d)
        /\ \A m \in PktsOf(d) : OneEach(s, m, b[m])
    BY DEF Tiled
  <1>5. LengthIn(b[n], "private") = p.priv /\ LengthIn(b[n], "normal") = p.pay
    BY DEF LengthIn
  <1> HIDE DEF e, s, size
  <1>6. t \in Seq(Segment)
    BY <1>1, WithSegmentShape
  <1>7. Tile(u, (size + p.priv) + p.pay)
    <2>1. Tile(t, size + p.priv)
      BY <1>1, <1>4, WithSegmentTiles
    <2> HIDE DEF t
    <2>2. QED
      BY <1>1, <1>6, <2>1, WithSegmentTiles
  <1>8. LengthsFrom(u, b)
    <2>1. LengthsFrom(t, b)
      BY <1>1, <1>4, <1>5, WithSegmentLengths
    <2> HIDE DEF t
    <2>2. QED
      BY <1>1, <1>5, <1>6, <2>1, WithSegmentLengths
  <1>9. \A k \in 1..Len(u) : u[k].n \in PktsOf(e)
    <2> DEFINE N == PktsOf(d)
               M == N \cup {n}
    <2>1. \A k \in 1..Len(s) : s[k].n \in N
      BY <1>4
    <2> HIDE DEF N
    <2>2. \A k \in 1..Len(t) : t[k].n \in M
      BY <1>1, <2>1, WithSegmentNumbers
    <2> HIDE DEF t, M
    <2>3. \A k \in 1..Len(u) : u[k].n \in M \cup {n}
      BY <1>1, <1>6, <2>2, WithSegmentNumbers
    <2>4. M \cup {n} = PktsOf(e)
      BY <1>3 DEF M, N
    <2>5. QED
      BY <2>3, <2>4
  <1>10. /\ OneMoreAt(s, t, n, "private", p.priv)
         /\ OneMoreAt(t, u, n, "normal", p.pay)
    <2>1. OneMoreAt(s, t, n, "private", p.priv)
      BY <1>1, WithSegmentAt
    <2> HIDE DEF t
    <2>2. OneMoreAt(t, u, n, "normal", p.pay)
      BY <1>1, <1>6, WithSegmentAt
    <2>3. QED
      BY <2>1, <2>2
  <1> HIDE DEF t, u
  <1>11. ASSUME NEW m \in PktsOf(d) PROVE OneEach(u, m, b[m])
    <2>1. m # n /\ OneEach(s, m, b[m])
      BY <1>4
    <2>2. \A y : At(u, m, y) = At(s, m, y)
      BY <1>10, <2>1 DEF OneMoreAt
    <2>3. QED
      BY <2>1, <2>2, Zenon DEF OneEach
  <1>12. OneEach(u, n, b[n])
    <2>1. \A y : At(s, n, y) = {}
      BY <1>4 DEF At
    <2>2. /\ At(t, n, "private") = IF p.priv > 0 THEN {Len(s) + 1} ELSE {}
          /\ At(t, n, "normal") = {}
      BY <1>10, <2>1 DEF OneMoreAt
    <2>3. /\ At(u, n, "private") = IF p.priv > 0 THEN {Len(s) + 1} ELSE {}
          /\ At(u, n, "normal") = IF p.pay > 0 THEN {Len(t) + 1} ELSE {}
      BY <1>10, <2>2 DEF OneMoreAt
    <2>4. /\ IF LengthIn(b[n], "private") > 0
             THEN \E k : At(u, n, "private") = {k}
             ELSE At(u, n, "private") = {}
          /\ IF LengthIn(b[n], "normal") > 0
             THEN \E k : At(u, n, "normal") = {k}
             ELSE At(u, n, "normal") = {}
      BY <1>5, <2>3
    <2>5. QED
      BY <2>4 DEF OneEach
  <1>13. \A m \in PktsOf(e) : OneEach(e.payloads, m, b[m])
    BY <1>2, <1>3, <1>11, <1>12
  <1>14. QED
    BY <1>2, <1>7, <1>8, <1>9, <1>13, Zenon DEF Tiled, e

LEMMA NewIsTiled ==
    ASSUME NEW p \in Packet, NEW n, NEW b
    PROVE  Tiled(NewIteration(p), b) /\ n \notin PktsOf(NewIteration(p))
  <1> DEFINE d == NewIteration(p)
  <1>1. /\ d.payloads = <<>> /\ d.payload_data = 0 /\ d.pkts = <<>>
    BY DEF NewIteration
  <1>2. Len(<<>>) = 0 /\ DOMAIN <<>> = {}
    BY EmptySeq, EmptyMap
  <1> HIDE DEF d
  <1>3. PktsOf(d) = {}
    BY <1>1, <1>2 DEF PktsOf
  <1>4. Len(d.payloads) = 0
    BY <1>1, <1>2
  <1>5. \A k \in 1..Len(d.payloads) : FALSE
    BY <1>4
  <1>6. Tile(d.payloads, d.payload_data)
    BY <1>1, <1>4, <1>5 DEF Tile
  <1>7. QED
    BY <1>3, <1>5, <1>6, Zenon DEF Tiled, LengthsFrom, d

LEMMA StepSegments ==
    TypeOK /\ OrderInv /\ SegmentInv /\ [Next]_vars => SegmentInv'
  <1> SUFFICES ASSUME TypeOK, OrderInv, SegmentInv, [Next]_vars, NEW q \in Pid,
                      NEW i \in 1..Len(Iterations(q)')
               PROVE  Tiled(Iterations(q)'[i], arrived')
    BY DEF SegmentInv
  <1> DEFINE t == Iterations(q)
             d == Iterations(q)'[i]
             n == Len(arrived) + 1
  <1>1. /\ Len(arrived) \in Nat
        /\ \A k \in 1..Len(arrived) : arrived'[k] = arrived[k]
    BY ArrivedGrows
  <1>2. ASSUME NEW j \in 1..Len(t)
        PROVE  /\ t[j] \in IterationData /\ Tiled(t[j], arrived')
               /\ n \notin PktsOf(t[j])
    <2>1. t[j] \in IterationData
      BY IterationsShape, ElementOfSeq
    <2>2. KnownIn(t[j], q, arrived) /\ Tiled(t[j], arrived)
      BY DEF OrderInv, Ordered, SegmentInv
    <2>3. n \notin 1..Len(arrived)
      BY <1>1
    <2> HIDE DEF t, n
    <2>4. PktsOf(t[j]) \subseteq 1..Len(arrived)
      BY <2>1, <2>2, PktsKnown
    <2>5. Tiled(t[j], arrived')
      BY <1>1, <2>1, <2>2, TiledGrows
    <2>6. QED
      BY <2>1, <2>3, <2>4, <2>5
  <1>3. \/ \E j \in 1..Len(t) : d = t[j]
        \/ \E p \in Packets :
              /\ Takes(p, q)
              /\ \/ d = Extended(NewIteration(p), p, n)
                 \/ ~p.pusi /\ \E j \in 1..Len(t) : d = Extended(t[j], p, n)
    BY ComesFrom
  <1> HIDE DEF t, d
  <1>4. CASE \E j \in 1..Len(t) : d = t[j]
    BY <1>2, <1>4 DEF d
  <1>5. ASSUME NEW p \in Packets, Takes(p, q),
               \/ d = Extended(NewIteration(p), p, n)
               \/ ~p.pusi /\ \E j \in 1..Len(t) : d = Extended(t[j], p, n)
        PROVE  Tiled(d, arrived')
    <2>1. p \in Packet /\ n \in Nat /\ arrived'[n] = p
      BY <1>5, PacketFacts DEF Takes
    <2>2. /\ NewIteration(p) \in IterationData
          /\ Tiled(NewIteration(p), arrived')
          /\ n \notin PktsOf(NewIteration(p))
      BY <2>1, NewIterationType, NewIsTiled
    <2> HIDE DEF n
    <2>3. CASE d = Extended(NewIteration(p), p, n)
      BY <2>1, <2>2, <2>3, ExtendedTiled
    <2>4. CASE \E j \in 1..Len(t) : d = Extended(t[j], p, n)
      BY <1>2, <2>1, <2>4, ExtendedTiled
    <2>5. QED
      BY <1>5, <2>3, <2>4
  <1>6. QED
    BY <1>3, <1>4, <1>5 DEF d

LEMMA SegmentsAreEnough == TypeOK /\ SegmentInv => SegmentsTilePayload
  <1> SUFFICES ASSUME TypeOK, SegmentInv, NEW q \in Pid,
                      NEW i \in DOMAIN Iterations(q)
               PROVE  LET d == Iterations(q)[i]
                          End(k) == d.payloads[k].offset + d.payloads[k].length
                          LengthOf(n, type) == IF type = "private"
                                               THEN arrived[n].priv
                                               ELSE arrived[n].pay
                      IN  /\ \A k \in DOMAIN d.payloads :
                               /\ d.payloads[k].offset =
                                     IF k = 1 THEN 0 ELSE End(k - 1)
                               /\ d.payloads[k].length =
                                     LengthOf(d.payloads[k].n,
                                              d.payloads[k].type)
                          /\ d.payload_data = IF d.payloads = <<>> THEN 0
                                              ELSE End(Len(d.payloads))
                          /\ \A n \in PktsOf(d) :
                             \A type \in {"normal", "private"} :
                               Cardinality({k \in DOMAIN d.payloads :
                                   /\ d.payloads[k].n = n
                                   /\ d.payloads[k].type = type})
                                 = IF LengthOf(n, type) > 0 THEN 1 ELSE 0
    BY Zenon DEF SegmentsTilePayload
  <1> DEFINE d == Iterations(q)[i]
             s == d.payloads
  <1>1. i \in 1..Len(Iterations(q))
    BY IterationsShape, LenProperties
  <1>2. d \in IterationData /\ Tiled(d, arrived)
    BY <1>1, IterationsShape, ElementOfSeq DEF SegmentInv
  <1> HIDE DEF d
  <1>3. s \in Seq(Segment)
    BY <1>2 DEF IterationData
  <1>4. /\ Tile(s, d.payload_data) /\ LengthsFrom(s, arrived)
        /\ \A n \in PktsOf(d) : OneEach(s, n, arrived[n])
    BY <1>2 DEF Tiled
  <1> HIDE DEF s
  <1>5. DOMAIN s = 1..Len(s) /\ (s = <<>> <=> Len(s) = 0)
    BY <1>3, LenProperties, EmptySeq
  <1>6. \A k \in DOMAIN s :
           s[k].offset = IF k = 1 THEN 0
                         ELSE s[k - 1].offset + s[k - 1].length
    BY <1>4, <1>5 DEF Tile, EndOf
  <1>7. \A k \in DOMAIN s :
           s[k].length = IF s[k].type = "private" THEN arrived[s[k].n].priv
                                                  ELSE arrived[s[k].n].pay
    BY <1>4, <1>5, Zenon DEF LengthsFrom, LengthIn
  <1>8. d.payload_data = IF s = <<>> THEN 0
                         ELSE s[Len(s)].offset + s[Len(s)].length
    BY <1>4, <1>5 DEF Tile, EndOf
  <1>9. ASSUME NEW n \in PktsOf(d), NEW type \in {"normal", "private"}
        PROVE  Cardinality({k \in DOMAIN s : s[k].n = n /\ s[k].type = type})
                 = IF (IF type = "private" THEN arrived[n].priv
                                           ELSE arrived[n].pay) > 0
                   THEN 1 ELSE 0
    <2> DEFINE A == At(s, n, type)
               len == LengthIn(arrived[n], type)
    <2>1. {k \in DOMAIN s : s[k].n = n /\ s[k].type = type} = A
      BY <1>5 DEF At
    <2>2. IF len > 0 THEN \E k : A = {k} ELSE A = {}
      BY <1>4 DEF OneEach
    <2>3. len = IF type = "private" THEN arrived[n].priv ELSE arrived[n].pay
      BY DEF LengthIn
    <2> HIDE DEF A, len
    <2>4. Cardinality(A) = IF len > 0 THEN 1 ELSE 0
      BY <2>2, FS_EmptySet, FS_Singleton
    <2>5. QED
      BY <2>1, <2>3, <2>4, Zenon
  <1>10. QED
    BY <1>6, <1>7, <1>8, <1>9, Zenon DEF s, d

\* For any PIDs, packets and tables: the pointer computed for a segment lands
\* on the bytes of that segment, and no byte of a packet is stored twice or
\* dropped.
THEOREM SegmentsTheorem == Spec => []SegmentsTilePayload
  <1>1. Init => SegmentInv
    <2>1. ASSUME Init, NEW q PROVE \A i \in 1..Len(Iterations(q)) : FALSE
      <3>1. Len(Iterations(q)) = 0
        BY <2>1, NoIterationsInitially
      <3>2. QED
        BY <3>1
    <2>2. QED
      BY <2>1, Zenon DEF SegmentInv
  <1>2. TypeOK /\ OrderInv /\ SegmentInv /\ [Next]_vars => SegmentInv'
    BY StepSegments
  <1>3. TypeOK /\ SegmentInv => SegmentsTilePayload
    BY SegmentsAreEnough
  <1>4. QED
    BY <1>1, <1>2, <1>3, OrderAlways, PTL DEF Spec

-----------------------------------------------------------------------------
(***************************************************************************)
(* The discontinuity flag.  a is what has arrived, acc which of it was     *)
(* accepted, c how much of it had arrived at the last clearAll().          *)
(***************************************************************************)
Recent(q, a, acc, c) == {m \in acc : m > c /\ a[m].pid = q}

Prior(n, a, acc, c) ==
    {m \in acc : m < n /\ m > c /\ a[m].pid = a[n].pid}

PreviousIn(n, a, acc, c) ==
    IF Prior(n, a, acc, c) = {} THEN 0 ELSE Max(Prior(n, a, acc, c))

JumpsIn(n, a, acc, c) ==
    /\ PreviousIn(n, a, acc, c) # 0
    /\ a[n].cc # (a[PreviousIn(n, a, acc, c)].cc + 1) % 16

LEMMA CounterJumpsAre ==
    /\ \A n : CounterJumps(n) <=> JumpsIn(n, arrived, accepted, clearedAt)
    /\ \A n : CounterJumps(n)' <=> JumpsIn(n, arrived', accepted', clearedAt')
  BY Zenon DEF CounterJumps, Previous, JumpsIn, PreviousIn, Prior

\* The strengthening: last_cc_ is the counter of the last packet of the PID
\* accepted since clearAll(), and is there only if there is such a packet.
AcceptedInv == accepted \subseteq 1..Len(arrived)

LastCounterIs(S, a, known, last) ==
    /\ ~known => S = {}
    /\ known => \E m \in S : (\A l \in S : l <= m) /\ last = a[m].cc

CounterInv ==
    \A q \in Pid : LastCounterIs(Recent(q, arrived, accepted, clearedAt),
                                 arrived, q \in DOMAIN last_cc, last_cc[q])

FlagIsJump(d, a, acc, c) ==
    d.discontinuity_detected
      <=> \E n \in PktsOf(d) : JumpsIn(n, a, acc, c) /\ a[n].disc

JumpInv ==
    \A q \in Pid : \A i \in 1..Len(Iterations(q)) :
        FlagIsJump(Iterations(q)[i], arrived, accepted, clearedAt)

LEMMA MaxIs ==
    ASSUME NEW S \in SUBSET Nat, NEW m \in S, \A l \in S : l <= m
    PROVE  Max(S) = m
  <1>1. \A x \in S : (\A y \in S : x >= y) => x = m
    <2>1. ASSUME NEW x \in S, \A y \in S : x >= y PROVE x = m
      <3>1. x \in Nat /\ m \in Nat /\ x >= m /\ x <= m
        BY <2>1
      <3>2. QED
        BY <3>1
    <2>2. QED
      BY <2>1
  <1>2. \A y \in S : m >= y
    OBVIOUS
  <1>3. QED
    BY <1>1, <1>2 DEF Max

LEMMA MaxInSet ==
    ASSUME NEW N \in Nat, NEW S \in SUBSET (1..N), S # {}
    PROVE  Max(S) \in S
  <1> DEFINE T == {N - m : m \in S}
  <1>1. T \in SUBSET Nat /\ T # {}
    <2>1. \A m \in S : N - m \in Nat
      OBVIOUS
    <2>2. PICK m \in S : TRUE
      OBVIOUS
    <2>3. N - m \in T
      OBVIOUS
    <2>4. QED
      BY <2>1, <2>3
  <1>2. Min(T) \in T /\ \A y \in T : Min(T) <= y
    <2>1. \E n \in T : \A y \in T : ~(<<y, n>> \in OpToRel(<, Nat))
      <3> HIDE DEF T
      <3>1. QED
        BY <1>1, WFMin, NatLessThanWellFounded
    <2>2. PICK n \in T : \A y \in T : ~(<<y, n>> \in OpToRel(<, Nat))
      BY <2>1
    <2> HIDE DEF T
    <2>3. ASSUME NEW y \in T PROVE n <= y
      <3>1. y \in Nat /\ n \in Nat
        BY <1>1
      <3>2. <<y, n>> \in Nat \X Nat /\ ~(<<y, n>> \in OpToRel(<, Nat))
        BY <2>2, <3>1
      <3>3. ~(<<y, n>>[1] < <<y, n>>[2])
        BY <3>2, Zenon DEF OpToRel
      <3>4. ~(y < n)
        BY <3>3
      <3>5. QED
        BY <3>1, <3>4
    <2>4. \E x \in T : \A y \in T : x =< y
      BY <2>3
    <2>5. QED
      BY <2>4 DEF Min
  <1>3. PICK m \in S : Min(T) = N - m
    BY <1>2
  <1>4. ASSUME NEW l \in S PROVE l <= m
    <2>1. N - l \in T
      OBVIOUS
    <2>2. N - m <= N - l
      BY <1>2, <1>3, <2>1
    <2>3. m \in Nat /\ l \in Nat
      OBVIOUS
    <2>4. QED
      BY <2>2, <2>3
  <1>5. S \in SUBSET Nat
    OBVIOUS
  <1>6. Max(S) = m
    BY <1>4, <1>5, MaxIs
  <1>7. QED
    BY <1>6

\* What arrives later does not change whether a packet jumped.
LEMMA JumpsSame ==
    ASSUME NEW a, NEW b, NEW acc, NEW more, NEW c, Len(a) \in Nat,
           acc \subseteq 1..Len(a),
           \A k \in 1..Len(a) : b[k] = a[k],
           more = acc \/ more = acc \cup {Len(a) + 1},
           NEW n \in 1..Len(a)
    PROVE  JumpsIn(n, b, more, c) <=> JumpsIn(n, a, acc, c)
  <1> DEFINE P == Prior(n, a, acc, c)
             m == PreviousIn(n, a, acc, c)
  <1>1. \A k \in acc : k \in 1..Len(a) /\ b[k] = a[k]
    OBVIOUS
  <1>2. ~(Len(a) + 1 < n) /\ b[n] = a[n]
    OBVIOUS
  <1>3. Prior(n, b, more, c) = P
    BY <1>1, <1>2 DEF Prior
  <1>4. P \in SUBSET (1..Len(a))
    BY DEF Prior
  <1>5. m = IF P = {} THEN 0 ELSE Max(P)
    BY DEF PreviousIn
  <1>6. PreviousIn(n, b, more, c) = m
    BY <1>3, <1>5, Zenon DEF PreviousIn
  <1> HIDE DEF P
  <1>7. m # 0 => m \in 1..Len(a)
    BY <1>4, <1>5, MaxInSet
  <1> HIDE DEF m
  <1>8. m # 0 => b[m] = a[m]
    BY <1>7
  <1>9. JumpsIn(n, a, acc, c) <=> m # 0 /\ a[n].cc # (a[m].cc + 1) % 16
    BY Zenon DEF JumpsIn, m
  <1>10. JumpsIn(n, b, more, c) <=> m # 0 /\ b[n].cc # (b[m].cc + 1) % 16
    BY <1>6, Zenon DEF JumpsIn
  <1>11. QED
    BY <1>2, <1>8, <1>9, <1>10, Zenon

\* p is the packet that makes b of the packets a.
NewPacket(n, p, q, a, b, acc, c) ==
    /\ Len(a) \in Nat /\ acc \subseteq 1..Len(a) /\ c \in Nat
    /\ \A k \in 1..Len(a) : b[k] = a[k]
    /\ n = Len(a) + 1 /\ b[n] = p /\ p.pid = q

\* The packet that arrives jumped if last_cc_ says so.
LEMMA NewJumps ==
    ASSUME NEW q, NEW a, NEW b, NEW acc, NEW c, NEW p, NEW n,
           NewPacket(n, p, q, a, b, acc, c)
    PROVE  /\ Recent(q, a, acc, c) = {} => ~JumpsIn(n, b, acc \cup {n}, c)
           /\ \A m \in Recent(q, a, acc, c) :
                 (\A l \in Recent(q, a, acc, c) : l <= m)
                 => (JumpsIn(n, b, acc \cup {n}, c)
                       <=> p.cc # (a[m].cc + 1) % 16)
  <1> DEFINE S == Recent(q, a, acc, c)
             more == acc \cup {n}
  <1> USE DEF NewPacket
  <1>1. \A k \in acc : k \in 1..Len(a) /\ b[k] = a[k] /\ k < n
    OBVIOUS
  <1>2. b[n] = p /\ p.pid = q /\ ~(n < n)
    OBVIOUS
  <1>3. Prior(n, b, more, c) = S
    BY <1>1, <1>2 DEF Prior, Recent
  <1>4. S \in SUBSET Nat /\ S \subseteq acc
    <2>1. S \subseteq acc
      BY DEF Recent
    <2>2. \A k \in acc : k \in Nat
      BY <1>1
    <2> HIDE DEF S
    <2>3. QED
      BY <2>1, <2>2
  <1>5. PreviousIn(n, b, more, c) = IF S = {} THEN 0 ELSE Max(S)
    BY <1>3, Zenon DEF PreviousIn
  <1>6. JumpsIn(n, b, more, c)
          <=> /\ PreviousIn(n, b, more, c) # 0
              /\ p.cc # (b[PreviousIn(n, b, more, c)].cc + 1) % 16
    BY <1>2, Zenon DEF JumpsIn
  <1>7. ASSUME S = {} PROVE ~JumpsIn(n, b, more, c)
    <2>1. PreviousIn(n, b, more, c) = 0
      BY <1>5, <1>7
    <2>2. QED
      BY <1>6, <2>1
  <1>8. ASSUME NEW m \in S, \A l \in S : l <= m
        PROVE  JumpsIn(n, b, more, c) <=> p.cc # (a[m].cc + 1) % 16
    <2> HIDE DEF S
    <2>2. Max(S) = m
      BY <1>4, <1>8, MaxIs
    <2>3. PreviousIn(n, b, more, c) = m
      BY <1>5, <1>8, <2>2
    <2>4. m \in 1..Len(a) /\ b[m] = a[m]
      BY <1>1, <1>4
    <2>5. m # 0
      BY <2>4
    <2>6. JumpsIn(n, b, more, c) <=> m # 0 /\ p.cc # (b[m].cc + 1) % 16
      BY <1>6, <2>3, Zenon
    <2>7. QED
      BY <2>4, <2>5, <2>6, Zenon
  <1> HIDE DEF S, more
  <1>9. /\ S = {} => ~JumpsIn(n, b, more, c)
        /\ \A m \in S : (\A l \in S : l <= m)
              => (JumpsIn(n, b, more, c) <=> p.cc # (a[m].cc + 1) % 16)
    BY <1>7, <1>8, Zenon
  <1>10. QED
    BY <1>9 DEF S, more

\* When an accepted packet arrives
LEMMA AcceptedCounters ==
    ASSUME NEW p, AddPacket(p), Accepts(p)
    PROVE  /\ accepted' = accepted \cup {Len(arrived) + 1}
           /\ last_cc' = Put(last_cc, p.pid, p.cc)
           /\ UNCHANGED clearedAt
  BY Zenon DEF AddPacket, SkipPacket, StartIteration, ContinueIteration

LEMMA OtherCounters ==
    ASSUME [Next]_vars
    PROVE  \/ UNCHANGED <<accepted, last_cc, clearedAt>>
           \/ ClearAll
           \/ \E p \in Packets : AddPacket(p) /\ Accepts(p)
  <1>1. ASSUME NEW p \in Packets, AddPacket(p), ~Accepts(p)
        PROVE  UNCHANGED <<accepted, last_cc, clearedAt>>
    BY <1>1 DEF AddPacket, SkipPacket, StartIteration, ContinueIteration,
                currentVars
  <1>2. QED
    BY <1>1 DEF Next, vars, FinalizeAllIterations, historyVars, currentVars,
                ClearIteration, ClearStream, ClearAllCrashes, SetProgramsTable

LEMMA StepAccepted ==
    TypeOK /\ AcceptedInv /\ [Next]_vars => AcceptedInv'
  <1> SUFFICES ASSUME TypeOK, AcceptedInv, [Next]_vars PROVE AcceptedInv'
    OBVIOUS
  <1>1. /\ Len(arrived) \in Nat /\ Len(arrived)' \in Nat
        /\ Len(arrived) <= Len(arrived)'
    BY ArrivedGrows
  <1>2. CASE UNCHANGED accepted
    BY <1>1, <1>2 DEF AcceptedInv
  <1>3. ASSUME NEW p \in Packets, AddPacket(p), Accepts(p)
        PROVE  AcceptedInv'
    <2>1. accepted' = accepted \cup {Len(arrived) + 1}
          /\ Len(arrived)' = Len(arrived) + 1
      BY <1>3, AcceptedCounters, PacketFacts
    <2>2. \A k \in accepted : k \in 1..(Len(arrived) + 1)
      BY <1>1 DEF AcceptedInv
    <2>3. Len(arrived) + 1 \in 1..(Len(arrived) + 1)
      BY <1>1
    <2>4. accepted' \subseteq 1..Len(arrived)'
      BY <2>1, <2>2, <2>3
    <2>5. QED
      BY <2>4 DEF AcceptedInv
  <1>4. ClearAll => UNCHANGED accepted
    BY DEF ClearAll
  <1>5. QED
    BY <1>2, <1>3, <1>4, OtherCounters

LEMMA StepCounters ==
    TypeOK /\ AcceptedInv /\ CounterInv /\ [Next]_vars => CounterInv'
  <1> SUFFICES ASSUME TypeOK, AcceptedInv, CounterInv, [Next]_vars,
                      NEW q \in Pid
               PROVE  LET S == Recent(q, arrived', accepted', clearedAt')
                      IN  /\ q \notin DOMAIN last_cc' => S = {}
                          /\ q \in DOMAIN last_cc' =>
                                \E m \in S : /\ \A l \in S : l <= m
                                             /\ last_cc'[q] = arrived'[m].cc
    BY Zenon DEF CounterInv, LastCounterIs
  <1> DEFINE S == Recent(q, arrived, accepted, clearedAt)
             T == Recent(q, arrived', accepted', clearedAt')
             n == Len(arrived) + 1
  <1>1. /\ q \notin DOMAIN last_cc => S = {}
        /\ q \in DOMAIN last_cc =>
              \E m \in S : (\A l \in S : l <= m) /\ last_cc[q] = arrived[m].cc
    BY Zenon DEF CounterInv, LastCounterIs
  <1>2. /\ Len(arrived) \in Nat
        /\ \A k \in 1..Len(arrived) : arrived'[k] = arrived[k]
        /\ clearedAt \in Nat /\ clearedAt <= Len(arrived)
    BY ArrivedGrows DEF TypeOK, HistoryTypeOK
  <1>3. /\ \A k \in accepted : k \in 1..Len(arrived)
                               /\ arrived'[k] = arrived[k]
        /\ S \subseteq accepted
    BY <1>2 DEF AcceptedInv, Recent
  <1>4. CASE UNCHANGED <<accepted, last_cc, clearedAt>>
    <2>1. T = S
      BY <1>3, <1>4 DEF Recent
    <2> HIDE DEF S, T
    <2>2. \A m \in S : arrived'[m].cc = arrived[m].cc
      BY <1>3
    <2>3. QED
      BY <1>1, <1>4, <2>1, <2>2 DEF T
  <1>5. CASE ClearAll
    <2>1. /\ clearedAt' = Len(arrived) /\ UNCHANGED accepted
          /\ last_cc' = <<>>
      BY <1>5 DEF ClearAll
    <2>2. DOMAIN last_cc' = {}
      BY <2>1, EmptyMap
    <2>3. T = {}
      BY <1>2, <1>3, <2>1 DEF Recent
    <2>4. QED
      BY <2>2, <2>3
  <1>6. ASSUME NEW p \in Packets, AddPacket(p), Accepts(p)
        PROVE  /\ q \notin DOMAIN last_cc' => T = {}
               /\ q \in DOMAIN last_cc' =>
                     \E m \in T : /\ \A l \in T : l <= m
                                  /\ last_cc'[q] = arrived'[m].cc
    <2>1. /\ accepted' = accepted \cup {n} /\ clearedAt' = clearedAt
          /\ last_cc' = Put(last_cc, p.pid, p.cc)
          /\ arrived'[n] = p /\ n \in Nat
      BY <1>6, AcceptedCounters, PacketFacts
    <2>2. /\ DOMAIN last_cc' = DOMAIN last_cc \cup {p.pid}
          /\ last_cc'[p.pid] = p.cc
          /\ \A r \in DOMAIN last_cc \ {p.pid} : last_cc'[r] = last_cc[r]
      BY <2>1 DEF Put
    <2>3. n > clearedAt /\ \A k \in accepted : k <= n
      BY <1>2, <1>3
    <2> HIDE DEF n
    <2>4. CASE p.pid = q
      <3>1. n \in T /\ \A l \in T : l <= n
        BY <2>1, <2>3, <2>4 DEF Recent
      <3> HIDE DEF T
      <3>2. last_cc'[q] = arrived'[n].cc /\ q \in DOMAIN last_cc'
        BY <2>1, <2>2, <2>4
      <3>3. QED
        BY <3>1, <3>2
    <2>5. CASE p.pid # q
      <3>1. T = S
        BY <1>3, <2>1, <2>5 DEF Recent
      <3>2. q \in DOMAIN last_cc' <=> q \in DOMAIN last_cc
        BY <2>2, <2>5
      <3>3. q \in DOMAIN last_cc => last_cc'[q] = last_cc[q]
        BY <2>2, <2>5
      <3> HIDE DEF S, T
      <3>4. \A m \in S : arrived'[m].cc = arrived[m].cc
        BY <1>3
      <3>5. QED
        BY <1>1, <3>1, <3>2, <3>3, <3>4
    <2>6. QED
      BY <2>4, <2>5
  <1>7. QED
    BY <1>4, <1>5, <1>6, OtherCounters

LEMMA FlagSame ==
    ASSUME NEW d \in IterationData, NEW q, NEW a, NEW b, NEW acc, NEW more,
           NEW c, Len(a) \in Nat, KnownIn(d, q, a), acc \subseteq 1..Len(a),
           \A k \in 1..Len(a) : b[k] = a[k],
           more = acc \/ more = acc \cup {Len(a) + 1},
           FlagIsJump(d, a, acc, c)
    PROVE  FlagIsJump(d, b, more, c)
  <1>1. ASSUME NEW n \in PktsOf(d)
        PROVE  /\ b[n] = a[n]
               /\ JumpsIn(n, b, more, c) <=> JumpsIn(n, a, acc, c)
    <2>1. n \in 1..Len(a)
      BY PktsKnown
    <2>2. QED
      BY <2>1, JumpsSame
  <1>2. QED
    BY <1>1, Zenon DEF FlagIsJump

LEMMA ExtendedFlag ==
    ASSUME NEW d \in IterationData, NEW p \in Packet, NEW n \in Nat,
           NEW b, NEW more, NEW c, FlagIsJump(d, b, more, c), b[n] = p,
           JumpsIn(n, b, more, c) /\ p.disc <=> Discontinuity(p)
    PROVE  FlagIsJump(Extended(d, p, n), b, more, c)
  <1> DEFINE e == Extended(d, p, n)
  <1>1. e.discontinuity_detected
          <=> d.discontinuity_detected \/ Discontinuity(p)
    BY Zenon DEF Extended
  <1>2. PktsOf(e) = PktsOf(d) \cup {n}
    BY ExtendedPktsOf
  <1> HIDE DEF e
  <1>3. (\E m \in PktsOf(e) : JumpsIn(m, b, more, c) /\ b[m].disc)
          <=> \/ \E m \in PktsOf(d) : JumpsIn(m, b, more, c) /\ b[m].disc
              \/ JumpsIn(n, b, more, c) /\ b[n].disc
    BY <1>2, Zenon
  <1>4. QED
    BY <1>1, <1>3, Zenon DEF FlagIsJump, e

LEMMA NewFlag ==
    ASSUME NEW p, NEW b, NEW more, NEW c
    PROVE  FlagIsJump(NewIteration(p), b, more, c)
  <1> DEFINE d == NewIteration(p)
  <1>1. d.discontinuity_detected = FALSE /\ d.pkts = <<>>
    BY DEF NewIteration
  <1> HIDE DEF d
  <1>2. PktsOf(d) = {}
    BY <1>1, EmptyMap DEF PktsOf
  <1>3. QED
    BY <1>1, <1>2, Zenon DEF FlagIsJump, d

LEMMA StepJumps ==
    /\ TypeOK /\ OrderInv /\ AcceptedInv /\ CounterInv /\ JumpInv
    /\ [Next]_vars
    => JumpInv'
  <1> SUFFICES ASSUME TypeOK, OrderInv, AcceptedInv, CounterInv, JumpInv,
                      [Next]_vars, NEW q \in Pid,
                      NEW i \in 1..Len(Iterations(q)')
               PROVE  FlagIsJump(Iterations(q)'[i], arrived', accepted',
                                 clearedAt')
    BY DEF JumpInv
  <1> DEFINE t == Iterations(q)
             d == Iterations(q)'[i]
             n == Len(arrived) + 1
  <1>1. /\ Len(arrived) \in Nat /\ clearedAt \in Nat
        /\ \A k \in 1..Len(arrived) : arrived'[k] = arrived[k]
        /\ accepted \subseteq 1..Len(arrived)
    BY ArrivedGrows DEF TypeOK, HistoryTypeOK, AcceptedInv
  <1>2. ~ClearAll
    <2>1. ASSUME ClearAll PROVE FALSE
      <3>1. Iterations(q)' = <<>>
        BY <2>1, ClearAllIterations
      <3>2. Len(<<>>) = 0
        BY EmptySeq
      <3>3. i \in 1..0
        BY <3>1, <3>2, Zenon
      <3>4. QED
        BY <3>3
    <2>2. QED
      BY <2>1
  <1>3. /\ clearedAt' = clearedAt
        /\ accepted' = accepted \/ accepted' = accepted \cup {n}
    BY <1>2, OtherCounters, AcceptedCounters
  <1>4. ASSUME NEW j \in 1..Len(t)
        PROVE  /\ t[j] \in IterationData
               /\ FlagIsJump(t[j], arrived', accepted', clearedAt')
    <2>1. t[j] \in IterationData
      BY IterationsShape, ElementOfSeq
    <2>2. KnownIn(t[j], q, arrived)
          /\ FlagIsJump(t[j], arrived, accepted, clearedAt)
      BY DEF OrderInv, Ordered, JumpInv
    <2> HIDE DEF t
    <2>3. FlagIsJump(t[j], arrived', accepted', clearedAt)
      BY <1>1, <1>3, <2>1, <2>2, FlagSame
    <2>4. QED
      BY <1>3, <2>1, <2>3
  <1>5. \/ \E j \in 1..Len(t) : d = t[j]
        \/ \E p \in Packets :
              /\ Takes(p, q)
              /\ \/ d = Extended(NewIteration(p), p, n)
                 \/ ~p.pusi /\ \E j \in 1..Len(t) : d = Extended(t[j], p, n)
    BY ComesFrom
  <1> HIDE DEF t, d
  <1>6. CASE \E j \in 1..Len(t) : d = t[j]
    BY <1>4, <1>6 DEF d
  <1>7. ASSUME NEW p \in Packets, Takes(p, q),
               \/ d = Extended(NewIteration(p), p, n)
               \/ ~p.pusi /\ \E j \in 1..Len(t) : d = Extended(t[j], p, n)
        PROVE  FlagIsJump(d, arrived', accepted', clearedAt')
    <2>1. /\ AddPacket(p) /\ Accepts(p) /\ p.pid = q
          /\ p \in Packet /\ n \in Nat /\ arrived'[n] = p
      BY <1>7, PacketFacts DEF Takes
    <2>2. accepted' = accepted \cup {n}
      BY <2>1, AcceptedCounters
    <2> DEFINE known == q \in DOMAIN last_cc
    <2>3. LastCounterIs(Recent(q, arrived, accepted, clearedAt), arrived,
                        known, last_cc[q])
      BY DEF CounterInv
    <2>4. known \in BOOLEAN
      OBVIOUS
    <2>5. Discontinuity(p)
            <=> (known /\ p.cc # (last_cc[q] + 1) % 16) /\ p.disc
      BY <2>1, Zenon DEF Discontinuity
    <2> HIDE DEF known
    <2>a. n = Len(arrived) + 1
      OBVIOUS
    <2> HIDE DEF n
    <2> DEFINE S == Recent(q, arrived, accepted, clearedAt)
               J == JumpsIn(n, arrived', accepted \cup {n}, clearedAt)
    <2>b. NewPacket(n, p, q, arrived, arrived', accepted, clearedAt)
      BY <1>1, <2>1, <2>a DEF NewPacket
    <2>c. /\ S = {} => ~J
          /\ \A m \in S : (\A l \in S : l <= m)
                => (J <=> p.cc # (arrived[m].cc + 1) % 16)
      BY <2>b, NewJumps
    <2>d. /\ ~known => S = {}
          /\ known => \E m \in S : (\A l \in S : l <= m)
                                     /\ last_cc[q] = arrived[m].cc
      BY <2>3, Zenon DEF LastCounterIs
    <2> HIDE DEF S, J
    <2>e. J <=> known /\ p.cc # (last_cc[q] + 1) % 16
      <3>1. CASE ~known
        BY <2>c, <2>d, <3>1, Zenon
      <3>2. CASE known
        <4>1. PICK m \in S : (\A l \in S : l <= m)
                             /\ last_cc[q] = arrived[m].cc
          BY <2>d, <3>2, Zenon
        <4>2. J <=> p.cc # (arrived[m].cc + 1) % 16
          BY <2>c, <4>1, Zenon
        <4>3. QED
          BY <3>2, <4>1, <4>2, Zenon
      <3>3. QED
        BY <3>1, <3>2
    <2>6. JumpsIn(n, arrived', accepted \cup {n}, clearedAt)
            <=> known /\ p.cc # (last_cc[q] + 1) % 16
      BY <2>e DEF J
    <2>7. JumpsIn(n, arrived', accepted', clearedAt') /\ p.disc
            <=> Discontinuity(p)
      BY <1>3, <2>2, <2>5, <2>6, Zenon
    <2>8. /\ NewIteration(p) \in IterationData
          /\ FlagIsJump(NewIteration(p), arrived', accepted', clearedAt')
      BY <2>1, NewIterationType, NewFlag
    <2>9. CASE d = Extended(NewIteration(p), p, n)
      BY <2>1, <2>7, <2>8, <2>9, ExtendedFlag
    <2>10. CASE \E j \in 1..Len(t) : d = Extended(t[j], p, n)
      BY <1>4, <2>1, <2>7, <2>10, ExtendedFlag
    <2>11. QED
      BY <1>7, <2>9, <2>10
  <1>8. QED
    BY <1>5, <1>6, <1>7 DEF d

LEMMA JumpsAreEnough == TypeOK /\ JumpInv => DiscontinuityIsAnnouncedJump
  <1> SUFFICES ASSUME TypeOK, JumpInv, NEW q \in Pid,
                      NEW i \in DOMAIN Iterations(q)
               PROVE  Iterations(q)[i].discontinuity_detected
                        <=> \E n \in PktsOf(Iterations(q)[i]) :
                               CounterJumps(n) /\ arrived[n].disc
    BY DEF DiscontinuityIsAnnouncedJump
  <1>1. i \in 1..Len(Iterations(q))
    BY IterationsShape, LenProperties
  <1>2. FlagIsJump(Iterations(q)[i], arrived, accepted, clearedAt)
    BY <1>1 DEF JumpInv
  <1>3. QED
    BY <1>2, CounterJumpsAre, Zenon DEF FlagIsJump

\* For any PIDs, packets and tables: an iteration is flagged exactly when one
\* of its packets announces a jump from the PID's previous packet, whatever
\* was finished, cleared or filtered in between.
THEOREM DiscontinuityTheorem == Spec => []DiscontinuityIsAnnouncedJump
  <1>1. Init => AcceptedInv /\ CounterInv /\ JumpInv
    <2>1. ASSUME Init PROVE AcceptedInv
      BY <2>1 DEF Init, AcceptedInv
    <2>2. ASSUME Init PROVE CounterInv
      <3>1. DOMAIN last_cc = {} /\ accepted = {}
        BY <2>2, EmptyMap DEF Init
      <3>2. QED
        BY <3>1 DEF CounterInv, LastCounterIs, Recent
    <2>3. ASSUME Init PROVE JumpInv
      <3>1. \A q : \A i \in 1..Len(Iterations(q)) : FALSE
        <4>1. ASSUME NEW q PROVE \A i \in 1..Len(Iterations(q)) : FALSE
          <5>1. Len(Iterations(q)) = 0
            BY <2>3, NoIterationsInitially
          <5>2. QED
            BY <5>1
        <4>2. QED
          BY <4>1
      <3>2. QED
        BY <3>1, Zenon DEF JumpInv
    <2>4. QED
      BY <2>1, <2>2, <2>3
  <1>2. TypeOK /\ AcceptedInv /\ [Next]_vars => AcceptedInv'
    BY StepAccepted
  <1>3. TypeOK /\ AcceptedInv /\ CounterInv /\ [Next]_vars => CounterInv'
    BY StepCounters
  <1>4. /\ TypeOK /\ OrderInv /\ AcceptedInv /\ CounterInv /\ JumpInv
        /\ [Next]_vars
        => JumpInv'
    BY StepJumps
  <1>5. TypeOK /\ JumpInv => DiscontinuityIsAnnouncedJump
    BY JumpsAreEnough
  <1>6. QED
    BY <1>1, <1>2, <1>3, <1>4, <1>5, OrderAlways, PTL DEF Spec
-----------------------------------------------------------------------------
(***************************************************************************)
(* What the user can read, having cleared nothing.                         *)
(***************************************************************************)

\* The packets accepted since the table was set are those it lets pass.
AcceptsInv ==
    \A n \in 1..Len(arrived) :
       (programs_table_available => n > tableAt) =>
          (n \in accepted <=> Accepts(arrived[n]))

LEMMA StepAccepts ==
    TypeOK /\ AcceptedInv /\ AcceptsInv /\ [Next]_vars => AcceptsInv'
  <1> SUFFICES ASSUME TypeOK, AcceptedInv, AcceptsInv, [Next]_vars
               PROVE  AcceptsInv'
    OBVIOUS
  <1>1. /\ Len(arrived) \in Nat /\ tableAt \in 0..Len(arrived)
        /\ arrived \in Seq(Packets)
    BY LenProperties DEF TypeOK, HistoryTypeOK
  <1>2. ASSUME NEW p \in Packets, AddPacket(p) PROVE AcceptsInv'
    <2>1. /\ UNCHANGED <<tableVars, tableAt>>
          /\ Len(arrived') = Len(arrived) + 1
          /\ \A n \in 1..Len(arrived) : arrived'[n] = arrived[n]
          /\ arrived'[Len(arrived) + 1] = p
      BY <1>1, <1>2, AppendProperties DEF AddPacket
    <2>2. UNCHANGED <<programs_table_available, known_program_pids, tableAt>>
      BY <2>1 DEF tableVars
    <2>3. accepted' = IF Accepts(p) THEN accepted \cup {Len(arrived) + 1}
                      ELSE accepted
      <3>1. CASE Accepts(p)
        BY <1>2, <3>1, AcceptedCounters
      <3>2. CASE ~Accepts(p)
        BY <1>2, <3>2
           DEF AddPacket, SkipPacket, StartIteration, ContinueIteration
      <3>3. QED
        BY <3>1, <3>2
    <2>4. ASSUME NEW n \in 1..(Len(arrived) + 1),
                 programs_table_available => n > tableAt
          PROVE  n \in accepted' <=> Accepts(arrived'[n])
      <3>1. CASE n = Len(arrived) + 1
        <4>1. n \notin accepted
          BY <1>1, <3>1 DEF AcceptedInv
        <4>2. QED
          BY <2>1, <2>3, <3>1, <4>1
      <3>2. CASE n # Len(arrived) + 1
        <4>1. n \in 1..Len(arrived)
          BY <1>1, <3>2
        <4>2. n \in accepted <=> Accepts(arrived[n])
          BY <2>4, <4>1 DEF AcceptsInv
        <4>3. QED
          BY <2>1, <2>3, <3>2, <4>1, <4>2
      <3>3. QED
        BY <3>1, <3>2
    <2>5. \A n \in 1..Len(arrived') :
             (programs_table_available' => n > tableAt') =>
                (n \in accepted' <=>
                    /\ arrived'[n].pid \notin SystemPid
                    /\ programs_table_available'
                          => arrived'[n].pid \in known_program_pids')
      BY <2>1, <2>2, <2>4 DEF Accepts
    <2>6. QED
      BY <2>5 DEF AcceptsInv, Accepts
  <1>3. ASSUME NEW K \in Tables, SetProgramsTable(K) PROVE AcceptsInv'
    <2>1. /\ arrived' = arrived /\ tableAt' = Len(arrived)
          /\ programs_table_available' = TRUE
      BY <1>3 DEF SetProgramsTable
    <2>2. QED
      BY <1>1, <2>1 DEF AcceptsInv
  <1>4. CASE UNCHANGED <<arrived, accepted, tableVars, tableAt>>
    BY <1>4 DEF AcceptsInv, Accepts, tableVars
  <1>5. CASE \/ FinalizeAllIterations \/ UNCHANGED vars
             \/ ClearAll \/ ClearAllCrashes
    BY <1>4, <1>5 DEF FinalizeAllIterations, historyVars, vars, ClearAll,
                      ClearAllCrashes, tableVars
  <1>6. ASSUME NEW q \in Pid, ClearStream(q) \/ \E id : ClearIteration(q, id)
        PROVE  AcceptsInv'
    BY <1>4, <1>6 DEF ClearStream, ClearIteration
  <1>7. QED
    BY <1>2, <1>3, <1>5, <1>6 DEF Next

\* The user has cleared nothing of what arrived since the last clearAll().
KeptAll ==
    /\ owed = {n \in accepted : n > clearedAt}
    /\ programs_table_available => tableAt <= clearedAt

\* What of a PID should be there then
Expected(q) ==
    {n \in (clearedAt + 1)..Len(arrived) :
        arrived[n].pid = q /\ Accepts([pid |-> q])}

\* All of it, and nothing else, is in the units of the PID, in order.
ReadsAll ==
    \A q \in Pid :
       /\ KeptAll =>
             Expected(q) = UNION {{Units[q][u][k] : k \in DOMAIN Units[q][u]} :
                                     u \in DOMAIN Units[q]}
       /\ \A u, v \in DOMAIN Units[q] :
             \A k \in DOMAIN Units[q][u], l \in DOMAIN Units[q][v] :
                (u < v \/ (u = v /\ k < l)) => Units[q][u][k] < Units[q][v][l]

LEMMA ReadsAllIsImplied ==
    TypeOK /\ PacketsInOrder /\ HeldIsOwed /\ AcceptedInv /\ AcceptsInv
       => ReadsAll
  <1> SUFFICES ASSUME TypeOK, PacketsInOrder, HeldIsOwed, AcceptedInv,
                      AcceptsInv
               PROVE  ReadsAll
    OBVIOUS
  <1>1. ASSUME NEW q \in Pid
        PROVE  /\ DOMAIN Units[q] = DOMAIN Iterations(q)
               /\ \A u \in DOMAIN Units[q] : Units[q][u] = Iterations(q)[u].pkts
    BY <1>1 DEF Units
  <1>2. ASSUME NEW q \in Pid
        PROVE  UNION {{Units[q][u][k] : k \in DOMAIN Units[q][u]} :
                         u \in DOMAIN Units[q]}
                 = HeldIn(Iterations(q))
    BY <1>1 DEF HeldIn, PktsOf
  <1>3. ASSUME NEW q \in Pid, NEW u \in DOMAIN Units[q],
               NEW k \in DOMAIN Units[q][u]
        PROVE  /\ arrived[Units[q][u][k]].pid = q
               /\ \A l \in DOMAIN Units[q][u] :
                     k < l => Units[q][u][k] < Units[q][u][l]
               /\ \A v \in DOMAIN Units[q] : \A l \in DOMAIN Units[q][v] :
                     u < v => Units[q][u][k] < Units[q][v][l]
    <2>1. /\ u \in DOMAIN Iterations(q)
          /\ Units[q][u] = Iterations(q)[u].pkts
          /\ k \in DOMAIN Iterations(q)[u].pkts
      BY <1>1
    <2>2. LET n == Iterations(q)[u].pkts[k]
          IN  /\ arrived[n].pid = q
              /\ \A l \in DOMAIN Iterations(q)[u].pkts :
                    k < l => n < Iterations(q)[u].pkts[l]
              /\ \A j \in DOMAIN Iterations(q) :
                    u < j => \A m \in PktsOf(Iterations(q)[j]) : n < m
      BY <2>1 DEF PacketsInOrder
    <2>3. ASSUME NEW v \in DOMAIN Units[q], NEW l \in DOMAIN Units[q][v]
          PROVE  /\ v \in DOMAIN Iterations(q)
                 /\ Units[q][v][l] \in PktsOf(Iterations(q)[v])
      BY <1>1, <2>3 DEF PktsOf
    <2> QED BY <2>1, <2>2, <2>3
  <1>4. ASSUME NEW q \in Pid, NEW n \in HeldIn(Iterations(q))
        PROVE  arrived[n].pid = q
    <2>1. PICK u \in DOMAIN Units[q] :
             \E k \in DOMAIN Units[q][u] : n = Units[q][u][k]
      BY <1>2, <1>4
    <2>2. PICK k \in DOMAIN Units[q][u] : n = Units[q][u][k]
      BY <2>1
    <2> QED BY <1>3, <2>2
  <1>5. \A n : n \in owed <=> \E q \in Pid : n \in HeldIn(Iterations(q))
    BY HeldAre
  <1>6. ASSUME KeptAll, NEW q \in Pid
        PROVE  Expected(q) = HeldIn(Iterations(q))
    <2>1. /\ Len(arrived) \in Nat /\ clearedAt \in 0..Len(arrived)
          /\ tableAt \in 0..Len(arrived)
      BY LenProperties DEF TypeOK, HistoryTypeOK
    <2>2. ASSUME NEW n \in (clearedAt + 1)..Len(arrived)
          PROVE  n \in owed <=> Accepts(arrived[n])
      <3>1. /\ n \in 1..Len(arrived) /\ n > clearedAt
            /\ programs_table_available => n > tableAt
        BY <1>6, <2>1 DEF KeptAll
      <3>2. n \in owed <=> n \in accepted
        BY <1>6, <3>1 DEF KeptAll
      <3>3. n \in accepted <=> Accepts(arrived[n])
        BY <3>1 DEF AcceptsInv
      <3> QED BY <3>2, <3>3
    <2>3. ASSUME NEW n \in owed PROVE n \in (clearedAt + 1)..Len(arrived)
      BY <1>6, <2>1 DEF KeptAll, AcceptedInv
    <2>4. ASSUME NEW n \in HeldIn(Iterations(q)) PROVE n \in Expected(q)
      <3>1. n \in owed /\ arrived[n].pid = q
        BY <1>4, <1>5
      <3>2. n \in (clearedAt + 1)..Len(arrived) /\ Accepts(arrived[n])
        BY <2>2, <2>3, <3>1
      <3> QED BY <3>1, <3>2 DEF Expected, Accepts
    <2>5. ASSUME NEW n \in Expected(q) PROVE n \in HeldIn(Iterations(q))
      <3>1. /\ n \in (clearedAt + 1)..Len(arrived) /\ arrived[n].pid = q
            /\ Accepts([pid |-> q])
        BY DEF Expected
      <3>2. Accepts(arrived[n])
        BY <3>1 DEF Accepts
      <3>3. PICK r \in Pid : n \in HeldIn(Iterations(r))
        BY <1>5, <2>2, <3>1, <3>2
      <3> QED BY <1>4, <3>1, <3>3
    <2> QED BY <2>4, <2>5
  <1>7. ASSUME NEW q \in Pid, NEW u \in DOMAIN Units[q],
               NEW v \in DOMAIN Units[q], NEW k \in DOMAIN Units[q][u],
               NEW l \in DOMAIN Units[q][v], u < v \/ (u = v /\ k < l)
        PROVE  Units[q][u][k] < Units[q][v][l]
    BY <1>3, <1>7
  <1> QED BY <1>2, <1>6, <1>7 DEF ReadsAll

\* For any PIDs, packets and tables: a user who cleared nothing since clearAll()
\* reads every packet that the filter lets pass, of its PID and in order.
THEOREM ReadsAllTheorem == Spec => []ReadsAll
  <1>1. Init => AcceptedInv /\ AcceptsInv
    <2> SUFFICES ASSUME Init PROVE AcceptedInv /\ AcceptsInv
      OBVIOUS
    <2>1. accepted = {} /\ Len(arrived) = 0
      BY EmptySeq DEF Init
    <2> QED BY <2>1 DEF AcceptedInv, AcceptsInv
  <1>2. TypeOK /\ AcceptedInv /\ [Next]_vars => AcceptedInv'
    BY StepAccepted
  <1>3. TypeOK /\ AcceptedInv /\ AcceptsInv /\ [Next]_vars => AcceptsInv'
    BY StepAccepts
  <1>4. Spec => []TypeOK
    BY TypeCorrect
  <1>5. Spec => []PacketsInOrder
    BY PacketsInOrderTheorem
  <1>6. Spec => []HeldIsOwed
    BY HeldIsOwedTheorem
  <1> QED BY <1>1, <1>2, <1>3, <1>4, <1>5, <1>6, ReadsAllIsImplied, PTL DEF Spec
====
