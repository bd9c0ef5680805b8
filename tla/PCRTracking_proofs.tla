-------------------------- MODULE PCRTracking_proofs --------------------------
(***************************************************************************)
(* Theorems about PCRTracking, for every period of the clock, size of the  *)
(* window and threshold: what the window holds, and that discontinuity,    *)
(* average and jitter are those of the clock.                              *)
(***************************************************************************)
EXTENDS PCRTracking, FiniteSetTheorems, WellFoundedInduction, TLAPS

-----------------------------------------------------------------------------
(***************************************************************************)
(* Sums.  The library's induction theorems cannot be used, so what is true *)
(* of all sums is shown of a least counterexample.                         *)
(***************************************************************************)

\* A sum over a set is the chosen member's value and the sum over the rest.
Chosen(s) == CHOOSE x \in s : TRUE

PartSum(g, f, s) ==
    IF s = {} THEN 0 ELSE f[Chosen(s)] + g[s \ {Chosen(s)}]

LEMMA SumIsOfParts ==
    ASSUME NEW f, NEW S
    PROVE  SumFunctionOnSet(f, S) =
              (CHOOSE g : g = [s \in SUBSET S |-> PartSum(g, f, s)])[S]
  BY DEF SumFunctionOnSet, FoldFunctionOnSet, MapThenFoldSet, PartSum, Chosen

LEMMA LeastOfSet ==
    ASSUME NEW S \in SUBSET Nat, S # {}
    PROVE  \E n \in S : \A m \in S : n <= m
  <1>1. PICK n \in S : \A m \in S : ~(<<m, n>> \in OpToRel(<, Nat))
    BY WFMin, NatLessThanWellFounded
  <1>2. ASSUME NEW m \in S PROVE n <= m
    <2>1. <<m, n>> \in Nat \X Nat /\ ~(<<m, n>> \in OpToRel(<, Nat))
      BY <1>1
    <2>2. ~(<<m, n>>[1] < <<m, n>>[2])
      BY <2>1, Zenon DEF OpToRel
    <2> QED BY <2>2
  <1> QED BY <1>2

\* A subset s of S is empty or has one member more than the rest of it.
PartOf(s, S) ==
    /\ Cardinality(s) \in Nat
    /\ Cardinality(s) = 0 <=> s = {}
    /\ s # {} => /\ Chosen(s) \in s
                 /\ s \ {Chosen(s)} \in SUBSET S
                 /\ Cardinality(s \ {Chosen(s)}) = Cardinality(s) - 1

LEMMA PartsOf ==
    ASSUME NEW S, IsFiniteSet(S)
    PROVE  \A s \in SUBSET S : PartOf(s, S)
  <1> SUFFICES ASSUME NEW s \in SUBSET S PROVE PartOf(s, S)
    OBVIOUS
  <1>1. IsFiniteSet(s)
    BY FS_Subset
  <1>2. Cardinality(s) \in Nat /\ (Cardinality(s) = 0 <=> s = {})
    BY <1>1, FS_CardinalityType, FS_EmptySet
  <1>3. s # {} => Chosen(s) \in s
    BY DEF Chosen
  <1>4. s # {} => Cardinality(s \ {Chosen(s)}) = Cardinality(s) - 1
    BY <1>1, <1>3, FS_RemoveElement
  <1> QED BY <1>2, <1>3, <1>4 DEF PartOf

\* The sums over all subsets of S with at most n members.
Sums(g, f, S, n) ==
    /\ g \in [SUBSET S -> Nat]
    /\ \A s \in SUBSET S : Cardinality(s) <= n => g[s] = PartSum(g, f, s)

LEMMA SumsOfMore ==
    ASSUME NEW S, IsFiniteSet(S), NEW f, \A x \in S : f[x] \in Nat,
           NEW n \in Nat, NEW g, Sums(g, f, S, n)
    PROVE  \E h : Sums(h, f, S, n + 1)
  <1> DEFINE h == [s \in SUBSET S |->
                      IF Cardinality(s) <= n THEN g[s] ELSE PartSum(g, f, s)]
  <1>1. /\ g \in [SUBSET S -> Nat]
        /\ \A s \in SUBSET S : Cardinality(s) <= n => g[s] = PartSum(g, f, s)
    BY DEF Sums
  <1>0. \A s \in SUBSET S : PartOf(s, S)
    BY PartsOf
  <1>2. ASSUME NEW s \in SUBSET S PROVE PartSum(g, f, s) \in Nat
    <2>1. s # {} => /\ f[Chosen(s)] \in Nat
                    /\ g[s \ {Chosen(s)}] \in Nat
      BY <1>0, <1>1 DEF PartOf
    <2> QED BY <2>1 DEF PartSum
  <1>3. h \in [SUBSET S -> Nat]
    BY <1>1, <1>2
  <1>4. ASSUME NEW s \in SUBSET S, Cardinality(s) <= n + 1
        PROVE  h[s] = PartSum(h, f, s)
    <2>1. h[s] = PartSum(g, f, s)
      BY <1>1
    <2>2. CASE s = {}
      BY <2>1, <2>2 DEF PartSum
    <2>3. CASE s # {}
      <3>1. /\ s \ {Chosen(s)} \in SUBSET S
            /\ Cardinality(s \ {Chosen(s)}) <= n
        BY <1>0, <1>4, <2>3 DEF PartOf
      <3>2. h[s \ {Chosen(s)}] = g[s \ {Chosen(s)}]
        BY <3>1
      <3> QED BY <2>1, <2>3, <3>2 DEF PartSum
    <2> QED BY <2>2, <2>3
  <1> HIDE DEF h
  <1>5. Sums(h, f, S, n + 1)
    BY <1>3, <1>4 DEF Sums
  <1> QED BY <1>5

LEMMA SumsExist ==
    ASSUME NEW S, IsFiniteSet(S), NEW f, \A x \in S : f[x] \in Nat
    PROVE  \A n \in Nat : \E g : Sums(g, f, S, n)
  <1> DEFINE without == {n \in Nat : ~\E g : Sums(g, f, S, n)}
  <1> SUFFICES ASSUME without # {} PROVE FALSE
    OBVIOUS
  <1>1. PICK n \in without : \A m \in without : n <= m
    BY LeastOfSet
  <1>2. CASE n = 0
    <2> DEFINE g == [s \in SUBSET S |-> 0]
    <2>1. ASSUME NEW s \in SUBSET S, Cardinality(s) <= 0 PROVE s = {}
      <3>1. PartOf(s, S)
        BY PartsOf
      <3> QED BY <2>1, <3>1 DEF PartOf
    <2>2. Sums(g, f, S, 0)
      BY <2>1 DEF Sums, PartSum
    <2> QED BY <1>1, <1>2, <2>2
  <1>3. CASE n # 0
    <2>1. n - 1 \in Nat /\ ~(n <= n - 1) /\ (n - 1) + 1 = n
      BY <1>1, <1>3
    <2>2. n - 1 \notin without
      BY <1>1, <2>1
    <2>3. \E g : Sums(g, f, S, n - 1)
      BY <2>1, <2>2
    <2>4. \E g : Sums(g, f, S, n)
      BY <2>1, <2>3, SumsOfMore
    <2> QED BY <1>1, <2>4
  <1> QED BY <1>2, <1>3

\* A sum of naturals over a finite set is a natural.
LEMMA SumType ==
    ASSUME NEW S, IsFiniteSet(S), NEW f, \A x \in S : f[x] \in Nat
    PROVE  SumFunctionOnSet(f, S) \in Nat
  <1> DEFINE IsSum(g) == g = [s \in SUBSET S |-> PartSum(g, f, s)]
             h == CHOOSE g : IsSum(g)
  <1>1. PICK g : Sums(g, f, S, Cardinality(S))
    <2>1. PartOf(S, S)
      BY PartsOf
    <2> QED BY <2>1, SumsExist DEF PartOf
  <1>2. IsSum(g)
    <2>1. \A s \in SUBSET S : g[s] = PartSum(g, f, s)
      BY <1>1, FS_Subset DEF Sums
    <2> QED BY <1>1, <2>1 DEF Sums
  <1>3. IsSum(h)
    BY <1>2, Zenon
  <1>4. SumFunctionOnSet(f, S) = h[S]
    BY SumIsOfParts
  <1>5. \A s \in SUBSET S : h[s] = PartSum(h, f, s)
    BY <1>3
  <1> HIDE DEF h, IsSum
  <1>6. \A s \in SUBSET S : PartOf(s, S)
    BY PartsOf
  <1>7. \A s \in SUBSET S : h[s] \in Nat
    <2> DEFINE wrong == {Cardinality(s) :
                           s \in {t \in SUBSET S : h[t] \notin Nat}}
    <2> SUFFICES ASSUME wrong # {} PROVE FALSE
      OBVIOUS
    <2>1. wrong \in SUBSET Nat
      <3>1. \A s \in SUBSET S : Cardinality(s) \in Nat
        <4> SUFFICES ASSUME NEW s \in SUBSET S PROVE Cardinality(s) \in Nat
          OBVIOUS
        <4>1. PartOf(s, S)
          BY <1>6
        <4> QED BY <4>1 DEF PartOf
      <3> QED BY <3>1, Zenon
    <2>2. PICK n \in wrong : \A m \in wrong : n <= m
      BY <2>1, LeastOfSet
    <2>3. PICK s \in SUBSET S : Cardinality(s) = n /\ h[s] \notin Nat
      BY <2>2
    <2>4. s # {}
      BY <1>5, <2>3 DEF PartSum
    <2>5. /\ Chosen(s) \in S /\ s \ {Chosen(s)} \in SUBSET S
          /\ Cardinality(s \ {Chosen(s)}) < n /\ n \in Nat
          /\ Cardinality(s \ {Chosen(s)}) \in Nat
      BY <1>6, <2>3, <2>4 DEF PartOf
    <2>6. h[s \ {Chosen(s)}] \in Nat
      BY <2>2, <2>5
    <2>7. f[Chosen(s)] \in Nat
      BY <2>5
    <2>8. h[s] = f[Chosen(s)] + h[s \ {Chosen(s)}]
      BY <1>5, <2>4, Zenon DEF PartSum
    <2> QED BY <2>3, <2>6, <2>7, <2>8
  <1> QED BY <1>4, <1>7

-----------------------------------------------------------------------------
(* The operators. *)

\* The difference of two PCRs is the advance of the clock between them.
LEMMA DifferenceIsAdvance ==
    ASSUME NEW t \in 0..(Wrap - 1), NEW d \in Int,
           2 * d < Wrap, -2 * d < Wrap
    PROVE  /\ (t + d) % Wrap \in 0..(Wrap - 1)
           /\ pcrDifference(t, (t + d) % Wrap) = d
  <1> DEFINE s == (t + d) % Wrap
             h == Wrap \div 2
  <1>1. Wrap \in Nat /\ Wrap >= 1
    BY TrackerAssumption
  <1>2. t \in Int /\ 0 <= t /\ t < Wrap
    BY <1>1
  <1>3. s \in Int /\ 0 <= s /\ s < Wrap
    BY <1>1, <1>2
  <1>4. s \in {t + d, t + d - Wrap, t + d + Wrap}
    <2>1. -Wrap <= d /\ d <= Wrap
      BY <1>1
    <2> QED BY <1>1, <1>2, <2>1
  <1>5. h \in Int /\ 2 * h <= Wrap /\ Wrap <= 2 * h + 1
    BY <1>1
  <1>6. s \in 0..(Wrap - 1)
    BY <1>1, <1>3
  <1> HIDE DEF s, h
  <1>7. (IF s - t > h THEN (s - t) - Wrap
         ELSE IF s - t < -h THEN (s - t) + Wrap ELSE s - t) = d
    BY <1>1, <1>2, <1>3, <1>4, <1>5
  <1> QED BY <1>6, <1>7 DEF pcrDifference, s, h

LEMMA MaxOfPair ==
    ASSUME NEW a \in Int, NEW b \in Int
    PROVE  Max({a, b}) = IF a >= b THEN a ELSE b
  <1> DEFINE m == IF a >= b THEN a ELSE b
  <1>1. m \in {a, b} /\ \A y \in {a, b} : m >= y
    OBVIOUS
  <1>2. \A x \in {a, b} : (\A y \in {a, b} : x >= y) => x = m
    OBVIOUS
  <1> QED BY <1>1, <1>2 DEF Max

LEMMA MinOfPair ==
    ASSUME NEW a \in Int, NEW b \in Int
    PROVE  Min({a, b}) = IF a <= b THEN a ELSE b
  <1> DEFINE m == IF a <= b THEN a ELSE b
  <1>1. m \in {a, b} /\ \A y \in {a, b} : m <= y
    OBVIOUS
  <1>2. \A x \in {a, b} : (\A y \in {a, b} : x <= y) => x = m
    OBVIOUS
  <1> QED BY <1>1, <1>2 DEF Min

LEMMA AbsType == ASSUME NEW n \in Int PROVE AbsOf(n) \in Nat
  BY DEF AbsOf

LEMMA AppendAt ==
    ASSUME NEW T, NEW s \in Seq(T), NEW e \in T
    PROVE  /\ Append(s, e) \in Seq(T)
           /\ Len(Append(s, e)) = Len(s) + 1
           /\ \A i \in 1..Len(s) : Append(s, e)[i] = s[i]
           /\ Append(s, e)[Len(s) + 1] = e
  OBVIOUS

LEMMA ReceiptsAt ==
    ASSUME NEW r \in Seq(Receipt), NEW i \in 1..Len(r)
    PROVE  r[i].pcr \in 0..(Wrap - 1) /\ r[i].advance \in Int /\ r[i].packet \in Nat
  <1>1. r[i] \in Receipt
    OBVIOUS
  <1> QED BY <1>1 DEF Receipt

LEMMA TailAt ==
    ASSUME NEW T, NEW s \in Seq(T), Len(s) > 0
    PROVE  /\ Tail(s) \in Seq(T)
           /\ Len(Tail(s)) = Len(s) - 1
           /\ \A i \in 1..(Len(s) - 1) : Tail(s)[i] = s[i + 1]
  OBVIOUS

-----------------------------------------------------------------------------
(* One tracker t, the PCRs r it was given, and their clock c. *)

SampleOf(e) == [pcr |-> e.pcr, packet_number |-> e.packet]

HoldsLast(samples, r) ==
    /\ samples \in Seq(PCRSample)
    /\ Len(samples) = IF Len(r) <= MaxSamples THEN Len(r) ELSE MaxSamples
    /\ \A i \in 1..Len(samples) :
          samples[i] = SampleOf(r[Len(r) - Len(samples) + i])

Jumped(r) == \E i \in 1..(Len(r) - 1) : IsJump(r[i + 1].advance)

JitterOf(e) == AbsOf(e.advance - Expected)

IsLargest(jitter, r) ==
    /\ jitter \in Nat
    /\ \A i \in 1..(Len(r) - 1) :
          IsSteady(r[i + 1].advance) => JitterOf(r[i + 1]) <= jitter
    /\ \/ jitter = 0
       \/ \E i \in 1..(Len(r) - 1) : /\ IsSteady(r[i + 1].advance)
                                     /\ JitterOf(r[i + 1]) = jitter

\* Neighbours differ by what the clock advanced between them.
ClockSays(r) ==
    \A i \in 1..(Len(r) - 1) :
        pcrDifference(r[i].pcr, r[i + 1].pcr) = r[i + 1].advance

Averages == [total : Nat, intervals : Nat]

\* The advances the average is made of.
LastAdvances(r) ==
    LET n == Len(r)
        count == Min({n, AverageSamples})
    IN  [k \in 1..(count - 1) |-> r[n - count + k + 1].advance]

SteadyOf(r) ==
    {k \in 1..(Min({Len(r), AverageSamples}) - 1) :
        IsSteady(LastAdvances(r)[k])}

AverageIs(average, r) ==
    SteadyOf(r) # {} =>
        average = [total |-> SumFunctionOnSet(LastAdvances(r), SteadyOf(r)),
                   intervals |-> Cardinality(SteadyOf(r))]

TrackerOK(t, r, c) ==
    /\ t \in Tracker
    /\ HoldsLast(t.samples, r)
    /\ t.discontinuity_detected <=> Jumped(r)
    /\ IsLargest(t.max_jitter, r)
    /\ AverageIs(t.average, r)
    /\ ClockSays(r)
    /\ Len(r) > 0 => c = r[Len(r)].pcr

LEMMA NewTrackerOK == ASSUME NEW c PROVE TrackerOK(NewTracker, <<>>, c)
  <1>1. /\ NewTracker.samples = <<>>
        /\ NewTracker.discontinuity_detected = FALSE
        /\ NewTracker.max_jitter = 0
    BY DEF NewTracker
  <1>2. HoldsLast(<<>>, <<>>)
    BY TrackerAssumption DEF HoldsLast
  <1>3. ~Jumped(<<>>)
    BY DEF Jumped
  <1>4. IsLargest(0, <<>>)
    BY DEF IsLargest
  <1>5. ~(Len(<<>>) > 0)
    OBVIOUS
  <1>6. FALSE <=> Jumped(<<>>)
    BY <1>3
  <1>7. NewTracker \in Tracker
    BY DEF NewTracker, Tracker
  <1>8. ClockSays(<<>>)
    BY DEF ClockSays
  <1>9. AverageIs(NewTracker.average, <<>>)
    <2>1. Min({Len(<<>>), AverageSamples}) = 0
      BY TrackerAssumption, MinOfPair
    <2>2. SteadyOf(<<>>) = {}
      BY <2>1 DEF SteadyOf
    <2> QED BY <2>2 DEF AverageIs
  <1> QED BY Zenon, <1>1, <1>2, <1>4, <1>5, <1>6, <1>7, <1>8, <1>9 DEF TrackerOK

\* The window after one more PCR.
LEMMA WindowMoves ==
    ASSUME NEW r \in Seq(Receipt), NEW samples, HoldsLast(samples, r),
           NEW e \in Receipt
    PROVE  HoldsLast(Limited(Append(samples, SampleOf(e))), Append(r, e))
  <1> DEFINE s == Append(samples, SampleOf(e))
             q == Append(r, e)
             n == Len(r)
             l == Len(samples)
  <1>1. /\ samples \in Seq(PCRSample)
        /\ n \in Nat /\ l \in Nat
        /\ l = IF n <= MaxSamples THEN n ELSE MaxSamples
        /\ \A i \in 1..l : samples[i] = SampleOf(r[n - l + i])
    BY DEF HoldsLast
  <1>2. SampleOf(e) \in PCRSample
    BY DEF SampleOf, Receipt, PCRSample
  <1>3. /\ s \in Seq(PCRSample) /\ Len(s) = l + 1
        /\ \A i \in 1..l : s[i] = samples[i]
        /\ s[l + 1] = SampleOf(e)
    BY <1>1, <1>2, AppendAt
  <1>4. /\ Len(q) = n + 1
        /\ \A i \in 1..n : q[i] = r[i]
        /\ q[n + 1] = e
    BY AppendAt
  <1>5. MaxSamples \in Nat /\ MaxSamples >= 2
    BY TrackerAssumption
  <1> HIDE DEF s, q, n, l
  <1>6. \A i \in 1..(l + 1) : s[i] = SampleOf(q[n - l + i])
    <2> SUFFICES ASSUME NEW i \in 1..(l + 1)
                 PROVE  s[i] = SampleOf(q[n - l + i])
      OBVIOUS
    <2>1. CASE i = l + 1
      <3>1. n - l + i = n + 1
        BY <1>1, <2>1
      <3> QED BY <1>3, <1>4, <2>1, <3>1
    <2>2. CASE i # l + 1
      <3>1. i \in 1..l /\ n - l + i \in 1..n
        BY <1>1, <1>5, <2>2
      <3> QED BY <1>1, <1>3, <1>4, <3>1
    <2> QED BY <2>1, <2>2
  <1>7. CASE l + 1 <= MaxSamples
    <2>1. Limited(s) = s
      BY <1>1, <1>3, <1>5, <1>7 DEF Limited
    <2>2. n + 1 <= MaxSamples /\ l = n
      BY <1>1, <1>5, <1>7
    <2>3. Len(s) = IF Len(q) <= MaxSamples THEN Len(q) ELSE MaxSamples
      BY <1>1, <1>3, <1>4, <1>5, <2>2
    <2>4. \A i \in 1..Len(s) : s[i] = SampleOf(q[Len(q) - Len(s) + i])
      <3>1. \A i \in 1..(l + 1) : (n + 1) - (l + 1) + i = n - l + i
        BY <1>1, SMTT(30)
      <3> QED BY <1>3, <1>4, <1>6, <3>1
    <2>5. HoldsLast(s, q)
      BY <1>3, <2>3, <2>4 DEF HoldsLast
    <2> QED BY <2>1, <2>5 DEF s, q
  <1>8. CASE l + 1 > MaxSamples
    <2>1. Limited(s) = Tail(s)
      BY <1>3, <1>8 DEF Limited
    <2>2. /\ Tail(s) \in Seq(PCRSample) /\ Len(Tail(s)) = l
          /\ \A i \in 1..l : Tail(s)[i] = s[i + 1]
      BY <1>1, <1>3, TailAt
    <2>3. l = MaxSamples /\ n >= MaxSamples
      BY <1>1, <1>5, <1>8
    <2>4. Len(Tail(s)) = IF Len(q) <= MaxSamples THEN Len(q) ELSE MaxSamples
      BY <1>1, <1>4, <1>5, <2>2, <2>3
    <2>5. \A i \in 1..l : Tail(s)[i] = SampleOf(q[(n + 1) - l + i])
      <3> SUFFICES ASSUME NEW i \in 1..l
                   PROVE  Tail(s)[i] = SampleOf(q[(n + 1) - l + i])
        OBVIOUS
      <3>1. i + 1 \in 1..(l + 1) /\ n - l + (i + 1) = (n + 1) - l + i
        BY <1>1
      <3> QED BY <1>6, <2>2, <3>1
    <2>6. HoldsLast(Tail(s), q)
      <3> DEFINE tail == Tail(s)
      <3> HIDE DEF tail
      <3>1. /\ tail \in Seq(PCRSample) /\ Len(tail) = l
            /\ Len(tail) = IF Len(q) <= MaxSamples THEN Len(q) ELSE MaxSamples
            /\ \A i \in 1..Len(tail) :
                  tail[i] = SampleOf(q[Len(q) - Len(tail) + i])
        BY <1>4, <2>2, <2>4, <2>5 DEF tail
      <3> QED BY <3>1 DEF HoldsLast, tail
    <2> QED BY <2>1, <2>6 DEF s, q
  <1> QED BY <1>1, <1>5, <1>7, <1>8

\* The advances after one more PCR.
LEMMA OneMore ==
    ASSUME NEW r \in Seq(Receipt), NEW e \in Receipt
    PROVE  LET q == Append(r, e)
           IN  /\ Len(q) = Len(r) + 1
               /\ \A i \in 1..(Len(r) - 1) : q[i + 1] = r[i + 1]
               /\ q[Len(r) + 1] = e
               /\ 1..(Len(q) - 1) = 1..Len(r)
  OBVIOUS

LEMMA JumpsMore ==
    ASSUME NEW r \in Seq(Receipt), NEW e \in Receipt
    PROVE  Jumped(Append(r, e)) <=>
              Jumped(r) \/ (Len(r) > 0 /\ IsJump(e.advance))
  <1> DEFINE q == Append(r, e)
             n == Len(r)
  <1>1. /\ Len(q) = n + 1 /\ n \in Nat
        /\ \A i \in 1..(n - 1) : q[i + 1] = r[i + 1]
        /\ q[n + 1] = e
        /\ 1..(Len(q) - 1) = 1..n
    BY OneMore
  <1> HIDE DEF q, n
  <1>2. Jumped(q) <=> \E i \in 1..n : IsJump(q[i + 1].advance)
    BY <1>1 DEF Jumped
  <1>3. Jumped(r) <=> \E i \in 1..(n - 1) : IsJump(r[i + 1].advance)
    BY DEF Jumped, n
  <1>4. CASE n = 0
    BY <1>2, <1>3, <1>4 DEF q, n
  <1>5. CASE n > 0
    <2>1. 1..n = 1..(n - 1) \cup {n}
      BY <1>1, <1>5
    <2>2. Jumped(q) <=> \/ \E i \in 1..(n - 1) : IsJump(q[i + 1].advance)
                        \/ IsJump(q[n + 1].advance)
      BY Zenon, <1>2, <2>1
    <2> QED BY Zenon, <1>1, <1>3, <1>5, <2>2 DEF q, n
  <1> QED BY <1>1, <1>4, <1>5

LEMMA LargestMore ==
    ASSUME NEW r \in Seq(Receipt), NEW e \in Receipt, NEW jitter,
           IsLargest(jitter, r), NEW new,
           new = IF Len(r) > 0 /\ IsSteady(e.advance)
                 THEN Max({jitter, JitterOf(e)}) ELSE jitter
    PROVE  IsLargest(new, Append(r, e))
  <1> DEFINE q == Append(r, e)
             n == Len(r)
             j == JitterOf(e)
  <1>1. /\ Len(q) = n + 1 /\ n \in Nat
        /\ \A i \in 1..(n - 1) : q[i + 1] = r[i + 1]
        /\ q[n + 1] = e
        /\ 1..(Len(q) - 1) = 1..n
    BY OneMore
  <1>2. j \in Nat
    <2>1. e.advance - Expected \in Int
      BY TrackerAssumption DEF Receipt
    <2> QED BY <2>1, AbsType DEF JitterOf
  <1>3. /\ jitter \in Nat
        /\ \A i \in 1..(n - 1) :
              IsSteady(r[i + 1].advance) => JitterOf(r[i + 1]) <= jitter
        /\ \/ jitter = 0
           \/ \E i \in 1..(n - 1) : /\ IsSteady(r[i + 1].advance)
                                    /\ JitterOf(r[i + 1]) = jitter
    BY DEF IsLargest
  <1>4. new = IF n > 0 /\ IsSteady(e.advance)
              THEN (IF jitter >= j THEN jitter ELSE j) ELSE jitter
    <2>1. Max({jitter, j}) = IF jitter >= j THEN jitter ELSE j
      BY <1>2, <1>3, MaxOfPair
    <2> HIDE DEF j
    <2> QED BY Zenon, <2>1 DEF j
  <1> HIDE DEF q, n, j
  <1>5. new \in Nat /\ jitter <= new
    BY <1>2, <1>3, <1>4
  <1>6. \A i \in 1..n : IsSteady(q[i + 1].advance) => JitterOf(q[i + 1]) <= new
    <2> SUFFICES ASSUME NEW i \in 1..n, IsSteady(q[i + 1].advance)
                 PROVE  JitterOf(q[i + 1]) <= new
      OBVIOUS
    <2>1. CASE i = n
      <3>1. q[i + 1] = e /\ n > 0
        BY <1>1, <2>1
      <3>2. IsSteady(e.advance) /\ JitterOf(q[i + 1]) = j
        BY <3>1 DEF j
      <3>3. j <= new
        BY <1>2, <1>3, <1>4, <3>1, <3>2
      <3> QED BY <3>2, <3>3
    <2>2. CASE i # n
      <3>1. i \in 1..(n - 1) /\ q[i + 1] = r[i + 1]
        BY <1>1, <2>2
      <3>2. JitterOf(r[i + 1]) <= jitter
        BY <1>3, <3>1
      <3>3. JitterOf(r[i + 1]) \in Nat
        <4>1. i + 1 \in 1..n
          BY <1>1, <3>1
        <4>2. r[i + 1] \in Receipt
          BY <4>1 DEF n
        <4>3. r[i + 1].advance - Expected \in Int
          BY <4>2, TrackerAssumption DEF Receipt
        <4> QED BY <4>3, AbsType DEF JitterOf
      <3> QED BY <1>3, <1>5, <3>1, <3>2, <3>3
    <2> QED BY <2>1, <2>2
  <1>7. new = 0 \/ \E i \in 1..n : /\ IsSteady(q[i + 1].advance)
                                   /\ JitterOf(q[i + 1]) = new
    <2>1. CASE new = jitter
      <3>1. CASE \E i \in 1..(n - 1) : /\ IsSteady(r[i + 1].advance)
                                       /\ JitterOf(r[i + 1]) = jitter
        <4>1. PICK i \in 1..(n - 1) : /\ IsSteady(r[i + 1].advance)
                                      /\ JitterOf(r[i + 1]) = jitter
          BY <3>1
        <4>2. i \in 1..n /\ q[i + 1] = r[i + 1]
          BY <1>1
        <4> QED BY <2>1, <4>1, <4>2
      <3> QED BY <1>3, <2>1, <3>1
    <2>2. CASE new # jitter
      <3>1. n > 0 /\ IsSteady(e.advance) /\ new = j
        BY <1>4, <2>2
      <3>2. n \in 1..n
        BY <1>1, <3>1
      <3> QED BY <1>1, <3>1, <3>2 DEF j
    <2> QED BY <2>1, <2>2
  <1>8. IsLargest(new, q)
    BY <1>1, <1>5, <1>6, <1>7 DEF IsLargest
  <1> QED BY <1>8 DEF q

\* The average over the window is that of the clock.
LEMMA AverageMoves ==
    ASSUME NEW r \in Seq(Receipt), NEW samples, HoldsLast(samples, r),
           ClockSays(r), NEW average \in Averages
    PROVE  /\ updateStatistics(average, samples) \in Averages
           /\ AverageIs(updateStatistics(average, samples), r)
  <1> DEFINE n == Len(r)
             l == Len(samples)
             first == l - Min({l, AverageSamples})
  <1>1. /\ n \in Nat /\ l \in Nat
        /\ l = IF n <= MaxSamples THEN n ELSE MaxSamples
        /\ \A i \in 1..l : samples[i] = SampleOf(r[n - l + i])
    BY DEF HoldsLast
  <1>2. /\ MaxSamples \in Nat /\ AverageSamples \in Nat
        /\ AverageSamples <= MaxSamples
    BY TrackerAssumption
  <1>3. PICK c : c = Min({n, AverageSamples})
    OBVIOUS
  <1>4. c \in Nat /\ c <= l /\ c <= n /\ Min({l, AverageSamples}) = c
    <2>1. c = IF n <= AverageSamples THEN n ELSE AverageSamples
      BY <1>1, <1>2, <1>3, MinOfPair
    <2>2. Min({l, AverageSamples}) =
             IF l <= AverageSamples THEN l ELSE AverageSamples
      BY <1>1, <1>2, MinOfPair
    <2> HIDE DEF n, l
    <2> QED BY <1>1, <1>2, <2>1, <2>2
  <1> DEFINE interval == [k \in 1..(c - 1) |->
                             Interval(samples[l - c + k],
                                      samples[l - c + k + 1])]
  <1>5. ASSUME NEW k \in 1..(c - 1)
        PROVE  Interval(samples[l - c + k], samples[l - c + k + 1])
                  = r[n - c + k + 1].advance
    <2> HIDE DEF n, l
    <2>1. /\ l - c + k \in 1..l /\ l - c + k + 1 \in 1..l
          /\ n - l + (l - c + k) = n - c + k
          /\ n - l + (l - c + k + 1) = n - c + k + 1
          /\ n - c + k \in 1..(n - 1)
      BY <1>1, <1>4
    <2>2. /\ samples[l - c + k] = SampleOf(r[n - c + k])
          /\ samples[l - c + k + 1] = SampleOf(r[n - c + k + 1])
      BY <1>1, <2>1
    <2>3. pcrDifference(r[n - c + k].pcr, r[n - c + k + 1].pcr)
             = r[n - c + k + 1].advance
      BY <2>1 DEF ClockSays, n
    <2> QED BY <2>2, <2>3 DEF Interval, SampleOf
  <1>6. interval = LastAdvances(r)
    <2>1. LastAdvances(r) = [k \in 1..(c - 1) |-> r[n - c + k + 1].advance]
      BY <1>3 DEF LastAdvances
    <2> HIDE DEF n, l
    <2> QED BY <1>5, <2>1
  <1>7. SteadyOf(r) = {k \in 1..(c - 1) : IsSteady(interval[k])}
    BY <1>3, <1>6 DEF SteadyOf
  <1> HIDE DEF interval
  <1>8. updateStatistics(average, samples) =
           IF SteadyOf(r) = {} THEN average
           ELSE [total |-> SumFunctionOnSet(LastAdvances(r), SteadyOf(r)),
                 intervals |-> Cardinality(SteadyOf(r))]
    <2>1. updateStatistics(average, samples) = AverageOver(average, samples, c)
      BY <1>4 DEF updateStatistics
    <2>2. AverageOver(average, samples, c) =
             IF {k \in 1..(c - 1) : IsSteady(interval[k])} = {} THEN average
             ELSE [total |-> SumFunctionOnSet(interval,
                                {k \in 1..(c - 1) : IsSteady(interval[k])}),
                   intervals |-> Cardinality(
                                {k \in 1..(c - 1) : IsSteady(interval[k])})]
      BY DEF AverageOver, interval
    <2> QED BY <1>6, <1>7, <2>1, <2>2
  <1>9. /\ SumFunctionOnSet(LastAdvances(r), SteadyOf(r)) \in Nat
        /\ Cardinality(SteadyOf(r)) \in Nat
    <2>1. IsFiniteSet(1..(c - 1))
      BY <1>4, FS_Interval
    <2>2. SteadyOf(r) \in SUBSET (1..(c - 1))
      BY <1>7
    <2>3. IsFiniteSet(SteadyOf(r))
      BY <2>1, <2>2, FS_Subset
    <2>4. \A k \in SteadyOf(r) : LastAdvances(r)[k] \in Nat
      <3> SUFFICES ASSUME NEW k \in SteadyOf(r)
                   PROVE  LastAdvances(r)[k] \in Nat
        OBVIOUS
      <3>1. /\ k \in 1..(c - 1) /\ IsSteady(LastAdvances(r)[k])
        BY <1>6, <1>7
      <3>2. LastAdvances(r)[k] = r[n - c + k + 1].advance
        BY <1>3, <3>1 DEF LastAdvances
      <3>3. n - c + k + 1 \in 1..n
        BY <1>1, <1>4, <3>1
      <3>4. r[n - c + k + 1] \in Receipt
        <4> HIDE DEF n
        <4> QED BY <3>3 DEF n
      <3>5. LastAdvances(r)[k] \in Int
        BY <3>2, <3>4 DEF Receipt
      <3> QED BY <3>1, <3>5 DEF IsSteady
    <2> QED BY <2>3, <2>4, SumType, FS_CardinalityType
  <1> QED BY <1>8, <1>9 DEF Averages, AverageIs

LEMMA ClockMoves ==
    ASSUME NEW r \in Seq(Receipt), ClockSays(r), NEW e \in Receipt,
           Len(r) > 0 => pcrDifference(r[Len(r)].pcr, e.pcr) = e.advance
    PROVE  ClockSays(Append(r, e))
  <1> DEFINE q == Append(r, e)
             n == Len(r)
  <1>1. /\ n \in Nat /\ Len(q) = n + 1 /\ q[n + 1] = e
        /\ \A i \in 1..n : q[i] = r[i]
    BY AppendAt
  <1> HIDE DEF q
  <1>2. ASSUME NEW i \in 1..n
        PROVE  pcrDifference(q[i].pcr, q[i + 1].pcr) = q[i + 1].advance
    <2>1. CASE i = n
      BY <1>1, <2>1
    <2>2. CASE i # n
      <3> HIDE DEF n
      <3>1. i \in 1..(n - 1) /\ i + 1 \in 1..n
        BY <1>1, <2>2
      <3> QED BY <1>1, <3>1 DEF ClockSays, n
    <2> QED BY <2>1, <2>2
  <1>3. 1..(Len(q) - 1) = 1..n
    BY <1>1
  <1> QED BY <1>2, <1>3 DEF ClockSays, q

LEMMA AddKeeps ==
    ASSUME NEW t, NEW r \in Seq(Receipt), NEW c \in 0..(Wrap - 1),
           TrackerOK(t, r, c), NEW m \in Moves, NEW p \in Nat
    PROVE  LET now == (c + m.clock) % Wrap
               e == [pcr |-> now, advance |-> m.clock, packet |-> p]
           IN  /\ now \in 0..(Wrap - 1)
               /\ e \in Receipt
               /\ TrackerOK(addPCR(t, [pcr |-> now, packet_number |-> p]),
                            Append(r, e), now)
  <1> DEFINE now == (c + m.clock) % Wrap
             e == [pcr |-> now, advance |-> m.clock, packet |-> p]
             s == [pcr |-> now, packet_number |-> p]
             new == addPCR(t, s)
             first == t.samples = <<>>
             last == Last(t.samples)
             interval == Interval(last, s)
  <1>1. m.clock \in Int /\ 2 * m.clock < Wrap /\ -2 * m.clock < Wrap
    BY TrackerAssumption DEF Move
  <1>2. now \in 0..(Wrap - 1) /\ pcrDifference(c, now) = m.clock
    BY <1>1, DifferenceIsAdvance
  <1> HIDE DEF now
  <1>3. e \in Receipt /\ e.advance = m.clock /\ e.pcr = now
    BY <1>1, <1>2 DEF Receipt
  <1>4. s = SampleOf(e)
    BY DEF SampleOf
  <1>5. /\ HoldsLast(t.samples, r)
        /\ t.discontinuity_detected \in BOOLEAN
        /\ t.discontinuity_detected <=> Jumped(r)
        /\ IsLargest(t.max_jitter, r)
        /\ t.average \in Averages
        /\ ClockSays(r)
        /\ Len(r) > 0 => c = r[Len(r)].pcr
    <2>1. t.discontinuity_detected \in BOOLEAN /\ t.average \in Averages
      BY DEF TrackerOK, Tracker, Averages
    <2> QED BY <2>1, Zenon DEF TrackerOK
  <1>6. first <=> Len(r) = 0
    BY <1>5, TrackerAssumption DEF HoldsLast
  <1>7. ~first => interval = m.clock
    <2> SUFFICES ASSUME ~first PROVE interval = m.clock
      OBVIOUS
    <2>1. /\ Len(r) \in Nat /\ Len(r) > 0
          /\ Len(t.samples) \in Nat /\ Len(t.samples) > 0
      BY <1>5, <1>6 DEF HoldsLast
    <2>2. last = SampleOf(r[Len(r)])
      <3>1. Len(t.samples) \in 1..Len(t.samples)
        BY <2>1
      <3>2. Len(r) - Len(t.samples) + Len(t.samples) = Len(r)
        BY <2>1
      <3> QED BY <1>5, <3>1, <3>2 DEF HoldsLast, Last
    <2>3. last.pcr = c
      BY <1>5, <2>1, <2>2 DEF SampleOf
    <2> QED BY <1>2, <2>3 DEF Interval
  <1>8. /\ new.samples = Limited(Append(t.samples, s))
        /\ new.average = updateStatistics(t.average, new.samples)
        /\ new.max_jitter = IF ~first /\ IsSteady(interval)
                            THEN Max({t.max_jitter, AbsOf(interval - Expected)})
                            ELSE t.max_jitter
        /\ new.discontinuity_detected =
              (t.discontinuity_detected \/ (~first /\ IsJump(interval)))
    BY DEF addPCR
  <1>a. new = [samples |-> new.samples, average |-> new.average,
               max_jitter |-> new.max_jitter,
               discontinuity_detected |-> new.discontinuity_detected]
    BY DEF addPCR
  <1> HIDE DEF e, s, new, first, last, interval
  <1>9. HoldsLast(new.samples, Append(r, e))
    BY <1>3, <1>4, <1>5, <1>8, WindowMoves
  <1>10. Len(r) \in Nat /\ (Len(r) > 0 <=> Len(r) # 0)
    OBVIOUS
  <1>11. /\ new.discontinuity_detected \in BOOLEAN
         /\ new.discontinuity_detected <=> Jumped(Append(r, e))
    <2>1. Jumped(Append(r, e)) <=>
             Jumped(r) \/ (Len(r) > 0 /\ IsJump(e.advance))
      BY <1>3, JumpsMore
    <2>2. ~first /\ IsJump(interval) <=> Len(r) > 0 /\ IsJump(e.advance)
      BY Zenon, <1>3, <1>6, <1>7, <1>10
    <2> QED BY Zenon, <1>5, <1>8, <2>1, <2>2
  <1>12. IsLargest(new.max_jitter, Append(r, e))
    <2>1. new.max_jitter = IF Len(r) > 0 /\ IsSteady(e.advance)
                           THEN Max({t.max_jitter, JitterOf(e)})
                           ELSE t.max_jitter
      BY Zenon, <1>3, <1>6, <1>7, <1>8, <1>10 DEF JitterOf
    <2> QED BY <1>3, <1>5, <2>1, LargestMore
  <1>13. now = Append(r, e)[Len(Append(r, e))].pcr
    BY <1>3, OneMore
  <1>14. Append(r, e) \in Seq(Receipt)
    BY <1>3, AppendAt
  <1>15. ClockSays(Append(r, e))
    BY <1>2, <1>3, <1>5, ClockMoves
  <1>16. /\ new.average \in Averages
         /\ AverageIs(new.average, Append(r, e))
    BY <1>5, <1>8, <1>9, <1>14, <1>15, AverageMoves
  <1>17. new \in Tracker
    <2>1. new.samples \in Seq(PCRSample) /\ new.max_jitter \in Nat
      BY <1>9, <1>12 DEF HoldsLast, IsLargest
    <2> QED BY <1>a, <1>11, <1>16, <2>1 DEF Tracker, Averages
  <1>18. TrackerOK(new, Append(r, e), now)
    BY <1>9, <1>11, <1>12, <1>13, <1>15, <1>16, <1>17 DEF TrackerOK
  <1> QED BY <1>2, <1>3, <1>18 DEF new, s, e, now

-----------------------------------------------------------------------------
(* The inductive invariant. *)

\* The packets of PCRs do not go back, and the last is not before them.
PacketsUpTo(r, p) ==
    \A i, j \in 1..Len(r) :
        i <= j => r[i].packet <= r[j].packet /\ r[j].packet <= p

IInv ==
    /\ DOMAIN trackers \subseteq Pid
    /\ trackers \in [DOMAIN trackers -> Tracker]
    /\ packet_number \in Nat /\ added \in 0..MaxAdded
    /\ clock \in [Pid -> 0..(Wrap - 1)]
    /\ received \in [Pid -> Seq(Receipt)]
    /\ \A pid \in Pid : TrackerOK(TrackerOf(pid), received[pid], clock[pid])
    /\ \A pid \in Pid : PacketsUpTo(received[pid], packet_number)

LEMMA InitIInv == Init => IInv
  <1> SUFFICES ASSUME Init PROVE IInv
    OBVIOUS
  <1>1. /\ DOMAIN trackers = {} /\ packet_number = 0 /\ added = 0
        /\ trackers \in [DOMAIN trackers -> Tracker]
        /\ received = [pid \in Pid |-> <<>>]
        /\ clock \in [Pid -> 0..(Wrap - 1)]
    <2>1. Starts \subseteq 0..(Wrap - 1)
      BY TrackerAssumption
    <2>2. clock \in [Pid -> Starts]
      BY DEF Init
    <2>3. clock \in [Pid -> 0..(Wrap - 1)]
      BY <2>1, <2>2
    <2> QED BY <2>3 DEF Init
  <1>2. \A pid \in Pid : TrackerOf(pid) = NewTracker
    BY <1>1 DEF TrackerOf
  <1>3. received \in [Pid -> Seq(Receipt)]
    BY <1>1
  <1>4. \A pid \in Pid : received[pid] = <<>>
    BY <1>1
  <1>5. \A pid \in Pid : PacketsUpTo(received[pid], packet_number)
    BY <1>4 DEF PacketsUpTo
  <1>6. added \in 0..MaxAdded /\ packet_number \in Nat
    BY <1>1, TrackerAssumption
  <1> QED BY <1>1, <1>2, <1>3, <1>4, <1>5, <1>6, NewTrackerOK DEF IInv

LEMMA PacketsMore ==
    ASSUME NEW r \in Seq(Receipt), NEW p \in Nat, PacketsUpTo(r, p),
           NEW e \in Receipt, p <= e.packet
    PROVE  PacketsUpTo(Append(r, e), e.packet)
  <1> DEFINE q == Append(r, e)
             n == Len(r)
  <1>1. /\ n \in Nat /\ Len(q) = n + 1 /\ q[n + 1] = e
        /\ \A i \in 1..n : q[i] = r[i]
    BY AppendAt
  <1>2. e.packet \in Nat /\ \A i \in 1..n : r[i].packet \in Nat
    BY ReceiptsAt DEF Receipt
  <1>3. \A i, j \in 1..n :
           i <= j => r[i].packet <= r[j].packet /\ r[j].packet <= p
    BY DEF PacketsUpTo
  <1> HIDE DEF q, n
  <1>4. ASSUME NEW i \in 1..(n + 1), NEW j \in 1..(n + 1), i <= j
        PROVE  q[i].packet <= q[j].packet /\ q[j].packet <= e.packet
    <2>1. CASE j = n + 1
      <3>1. CASE i = n + 1
        BY <1>1, <1>2, <2>1, <3>1
      <3>2. CASE i # n + 1
        <4>1. i \in 1..n /\ i <= i
          BY <1>1, <3>2
        <4> QED BY <1>1, <1>2, <1>3, <2>1, <4>1
      <3> QED BY <3>1, <3>2
    <2>2. CASE j # n + 1
      <3>1. i \in 1..n /\ j \in 1..n
        BY <1>1, <1>4, <2>2
      <3> QED BY <1>1, <1>2, <1>3, <1>4, <3>1
    <2> QED BY <2>1, <2>2
  <1> QED BY <1>1, <1>4 DEF PacketsUpTo, q

LEMMA AddIInv ==
    ASSUME IInv, NEW pid \in Pid, NEW move \in Moves, AddPCR(pid, move)
    PROVE  IInv'
  <1> DEFINE now == (clock[pid] + move.clock) % Wrap
             packet == packet_number + move.packets
             e == [pcr |-> now, advance |-> move.clock, packet |-> packet]
             new == addPCR(TrackerOf(pid),
                           [pcr |-> now, packet_number |-> packet])
  <1>1. packet \in Nat /\ packet_number \in Nat /\ packet_number <= packet
    BY TrackerAssumption, SMTT(30) DEF IInv, Move
  <1>2. /\ clock[pid] \in 0..(Wrap - 1)
        /\ received[pid] \in Seq(Receipt)
        /\ TrackerOK(TrackerOf(pid), received[pid], clock[pid])
    BY DEF IInv
  <1>3. /\ clock' = [clock EXCEPT ![pid] = now]
        /\ packet_number' = packet
        /\ trackers' = [q \in DOMAIN trackers \cup {pid} |->
                           IF q = pid THEN new ELSE trackers[q]]
        /\ received' = [received EXCEPT ![pid] = Append(@, e)]
        /\ added' \in 0..MaxAdded
    BY TrackerAssumption DEF AddPCR, IInv
  <1> HIDE DEF packet
  <1>4. /\ now \in 0..(Wrap - 1) /\ e \in Receipt
        /\ TrackerOK(new, Append(received[pid], e), now)
    BY <1>1, <1>2, AddKeeps
  <1> HIDE DEF now, e, new
  <1>5. Append(received[pid], e) \in Seq(Receipt)
    BY <1>2, <1>4, AppendAt
  <1>6. /\ clock' \in [Pid -> 0..(Wrap - 1)] /\ clock'[pid] = now
        /\ received' \in [Pid -> Seq(Receipt)]
        /\ received'[pid] = Append(received[pid], e)
        /\ \A q \in Pid \ {pid} :
              clock'[q] = clock[q] /\ received'[q] = received[q]
    BY <1>3, <1>4, <1>5 DEF IInv
  <1>7. /\ DOMAIN trackers' \subseteq Pid
        /\ TrackerOf(pid)' = new
        /\ \A q \in Pid \ {pid} : TrackerOf(q)' = TrackerOf(q)
    BY <1>3 DEF IInv, TrackerOf
  <1>8. \A q \in Pid :
            TrackerOK(TrackerOf(q), received[q], clock[q])'
    <2> SUFFICES ASSUME NEW q \in Pid
                 PROVE  TrackerOK(TrackerOf(q)', received'[q], clock'[q])
      BY DEF TrackerOK
    <2>1. CASE q = pid
      BY <1>4, <1>6, <1>7, <2>1
    <2>2. CASE q # pid
      <3>1. TrackerOK(TrackerOf(q), received[q], clock[q])
        BY DEF IInv
      <3>2. /\ TrackerOf(q)' = TrackerOf(q)
            /\ received'[q] = received[q] /\ clock'[q] = clock[q]
        BY <1>6, <1>7, <2>2
      <3> QED BY Zenon, <3>1, <3>2
    <2> QED BY <2>1, <2>2
  <1>9. trackers' \in [DOMAIN trackers' -> Tracker]
    BY <1>3, <1>4 DEF IInv, TrackerOK
  <1>10. \A q \in Pid : PacketsUpTo(received[q], packet_number)'
    <2> SUFFICES ASSUME NEW q \in Pid
                 PROVE  PacketsUpTo(received'[q], packet_number')
      BY DEF PacketsUpTo
    <2>1. PacketsUpTo(received[q], packet_number)
          /\ received[q] \in Seq(Receipt)
      BY DEF IInv
    <2>2. CASE q = pid
      <3>1. PacketsUpTo(Append(received[q], e), packet)
        BY <1>1, <1>4, <2>1, PacketsMore DEF e
      <3> QED BY <1>3, <1>6, <2>2, <3>1
    <2>3. CASE q # pid
      <3>1. \A i \in 1..Len(received[q]) : received[q][i].packet \in Nat
        BY <2>1, ReceiptsAt
      <3>2. PacketsUpTo(received[q], packet)
        BY <1>1, <2>1, <3>1 DEF PacketsUpTo
      <3> QED BY <1>3, <1>6, <2>3, <3>2
    <2> QED BY <2>2, <2>3
  <1> QED BY <1>1, <1>3, <1>6, <1>7, <1>8, <1>9, <1>10 DEF IInv

\* The trackers of some PIDs are cleared or removed.
LEMMA ClearedIInv ==
    ASSUME IInv, NEW P \in SUBSET Pid,
           DOMAIN trackers' \subseteq Pid,
           trackers' \in [DOMAIN trackers' -> Tracker],
           \A pid \in P : TrackerOf(pid)' = NewTracker,
           \A pid \in Pid \ P : TrackerOf(pid)' = TrackerOf(pid),
           received' = [pid \in Pid |->
                           IF pid \in P THEN <<>> ELSE received[pid]],
           UNCHANGED <<packet_number, added, clock>>
    PROVE  IInv'
  <1>1. received' \in [Pid -> Seq(Receipt)]
    BY DEF IInv
  <1>2. \A q \in Pid : TrackerOK(TrackerOf(q), received[q], clock[q])'
    <2> SUFFICES ASSUME NEW q \in Pid
                 PROVE  TrackerOK(TrackerOf(q)', received'[q], clock'[q])
      BY DEF TrackerOK
    <2>1. CASE q \in P
      BY <2>1, NewTrackerOK
    <2>2. CASE q \notin P
      <3>1. TrackerOK(TrackerOf(q), received[q], clock[q])
        BY DEF IInv
      <3>2. /\ TrackerOf(q)' = TrackerOf(q)
            /\ received'[q] = received[q] /\ clock'[q] = clock[q]
        BY <2>2
      <3> QED BY Zenon, <3>1, <3>2
    <2> QED BY <2>1, <2>2
  <1>3. \A q \in Pid : PacketsUpTo(received[q], packet_number)'
    BY DEF IInv, PacketsUpTo
  <1> QED BY <1>1, <1>2, <1>3 DEF IInv

LEMMA NextIInv == IInv /\ [Next]_vars => IInv'
  <1> SUFFICES ASSUME IInv, [Next]_vars PROVE IInv'
    OBVIOUS
  <1>1. ASSUME NEW pid \in Pid, NEW move \in Moves, AddPCR(pid, move)
        PROVE  IInv'
    BY <1>1, AddIInv
  <1>2. ASSUME NEW pid \in Pid, ClearTracker(pid) PROVE IInv'
    <2>1. /\ pid \in DOMAIN trackers
          /\ trackers' = [trackers EXCEPT ![pid] = NewTracker]
          /\ received' = [received EXCEPT ![pid] = <<>>]
          /\ UNCHANGED <<packet_number, added, clock>>
      BY <1>2 DEF ClearTracker
    <2>2. /\ DOMAIN trackers' \subseteq Pid
          /\ trackers' \in [DOMAIN trackers' -> Tracker]
          /\ \A q \in {pid} : TrackerOf(q)' = NewTracker
          /\ \A q \in Pid \ {pid} : TrackerOf(q)' = TrackerOf(q)
      <3>1. NewTracker \in Tracker
        BY DEF NewTracker, Tracker
      <3> HIDE DEF NewTracker
      <3> QED BY <2>1, <3>1 DEF IInv, TrackerOf
    <2>3. received' = [q \in Pid |->
                          IF q \in {pid} THEN <<>> ELSE received[q]]
      BY <2>1 DEF IInv
    <2> QED BY <2>1, <2>2, <2>3, ClearedIInv
  <1>3. ASSUME ClearManager PROVE IInv'
    <2>1. /\ DOMAIN trackers' = {}
          /\ trackers' \in [DOMAIN trackers' -> Tracker]
          /\ received' = [q \in Pid |->
                             IF q \in Pid THEN <<>> ELSE received[q]]
          /\ UNCHANGED <<packet_number, added, clock>>
      BY <1>3 DEF ClearManager
    <2>2. /\ \A q \in Pid : TrackerOf(q)' = NewTracker
          /\ \A q \in Pid \ Pid : TrackerOf(q)' = TrackerOf(q)
      BY <2>1 DEF TrackerOf
    <2> QED BY <2>1, <2>2, ClearedIInv
  <1>4. CASE UNCHANGED vars
    BY <1>4 DEF IInv, TrackerOf, vars
  <1> QED BY <1>1, <1>2, <1>3, <1>4 DEF Next

LEMMA Invariance == Spec => []IInv
  BY InitIInv, NextIInv, PTL DEF Spec

-----------------------------------------------------------------------------
(* The theorems. *)

\* Every variable has its type, and no window grows beyond MaxSamples.
THEOREM TypeCorrect == Spec => []TypeOK
  <1>1. IInv => TypeOK
    <2> SUFFICES ASSUME IInv PROVE TypeOK
      OBVIOUS
    <2>1. ASSUME NEW pid \in DOMAIN trackers
          PROVE  Len(trackers[pid].samples) <= MaxSamples
      <3>1. /\ HoldsLast(TrackerOf(pid).samples, received[pid])
            /\ received[pid] \in Seq(Receipt)
        BY DEF IInv, TrackerOK
      <3>2. TrackerOf(pid) = trackers[pid]
        BY DEF TrackerOf
      <3> QED BY <3>1, <3>2, TrackerAssumption DEF HoldsLast
    <2> QED BY <2>1 DEF IInv, TypeOK
  <1> QED BY <1>1, Invariance, PTL

\* The window of a PID is the last MaxSamples of its own PCRs, in order.
THEOREM WindowTheorem == Spec => []WindowIsRecent
  <1>1. IInv => WindowIsRecent
    <2> SUFFICES ASSUME IInv, NEW pid \in Pid
                 PROVE  LET n == Len(received[pid])
                            samples == TrackerOf(pid).samples
                            dropped == n - Len(samples)
                        IN  /\ Len(samples) = Min({n, MaxSamples})
                            /\ \A i \in DOMAIN samples :
                                  samples[i] =
                                     [pcr |-> received[pid][dropped + i].pcr,
                                      packet_number |->
                                         received[pid][dropped + i].packet]
      BY DEF WindowIsRecent
    <2>1. /\ HoldsLast(TrackerOf(pid).samples, received[pid])
          /\ received[pid] \in Seq(Receipt)
      BY DEF IInv, TrackerOK
    <2>2. Len(received[pid]) \in Int /\ MaxSamples \in Int
      BY <2>1, TrackerAssumption
    <2>3. Min({Len(received[pid]), MaxSamples}) =
             IF Len(received[pid]) <= MaxSamples
             THEN Len(received[pid]) ELSE MaxSamples
      BY <2>2, MinOfPair
    <2> QED BY <2>1, <2>3 DEF HoldsLast, SampleOf
  <1> QED BY <1>1, Invariance, PTL

\* The average is that of the clock's advances over the last AverageSamples
\* PCRs that are no jumps, wherever the PCR wrapped around.
THEOREM AverageTheorem == Spec => []AverageIsOfClock
  <1>1. IInv => AverageIsOfClock
    <2> SUFFICES ASSUME IInv PROVE AverageIsOfClock
      OBVIOUS
    <2>1. \A pid \in Pid : AverageIs(TrackerOf(pid).average, received[pid])
      BY DEF IInv, TrackerOK
    <2> QED BY <2>1 DEF AverageIsOfClock, AverageIs, SteadyOf, LastAdvances,
                        Advance
  <1> QED BY <1>1, Invariance, PTL

\* The discontinuity flag says exactly whether the clock ever went back or
\* jumped, whatever has left the window and wherever the PCR wrapped around.
THEOREM DiscontinuityTheorem == Spec => []DiscontinuityIsJump
  <1>1. IInv => DiscontinuityIsJump
    BY DEF IInv, TrackerOK, Jumped, DiscontinuityIsJump, Advance
  <1> QED BY <1>1, Invariance, PTL

LEMMA MaxUnique ==
    ASSUME NEW S \in SUBSET Int, NEW m \in S, \A x \in S : m >= x
    PROVE  Max(S) = m
  <1>1. \A y \in S : (\A x \in S : y >= x) => y = m
    OBVIOUS
  <1> QED BY <1>1 DEF Max

\* The jitter is the largest of all advances that are no jumps.
THEOREM JitterTheorem == Spec => []JitterIsLargest
  <1>1. IInv => JitterIsLargest
    <2> SUFFICES ASSUME IInv, NEW pid \in Pid
                 PROVE  LET steady == {i \in 1..(Len(received[pid]) - 1) :
                                          IsSteady(Advance(pid, i))}
                            jitters == {AbsOf(Advance(pid, i) - Expected) :
                                           i \in steady}
                        IN  TrackerOf(pid).max_jitter = Max(jitters \cup {0})
      BY DEF JitterIsLargest
    <2> DEFINE r == received[pid]
               steady == {i \in 1..(Len(r) - 1) : IsSteady(Advance(pid, i))}
               jitters == {AbsOf(Advance(pid, i) - Expected) : i \in steady}
               m == TrackerOf(pid).max_jitter
    <2>1. IsLargest(m, r) /\ r \in Seq(Receipt)
      BY DEF IInv, TrackerOK
    <2>2. \A i \in 1..(Len(r) - 1) :
             /\ Advance(pid, i) = r[i + 1].advance
             /\ AbsOf(Advance(pid, i) - Expected) = JitterOf(r[i + 1])
             /\ JitterOf(r[i + 1]) \in Nat
      <3> SUFFICES ASSUME NEW i \in 1..(Len(r) - 1)
                   PROVE  /\ Advance(pid, i) = r[i + 1].advance
                          /\ AbsOf(Advance(pid, i) - Expected)
                                = JitterOf(r[i + 1])
                          /\ JitterOf(r[i + 1]) \in Nat
        OBVIOUS
      <3>1. i + 1 \in 1..Len(r)
        BY <2>1
      <3>2. r[i + 1] \in Receipt
        BY <2>1, <3>1
      <3>3. r[i + 1].advance - Expected \in Int
        BY <3>2, TrackerAssumption DEF Receipt
      <3> QED BY <3>3, AbsType DEF JitterOf, Advance
    <2> HIDE DEF r, m
    <2>3. jitters \in SUBSET Int
      BY <2>2
    <2>4. m \in jitters \cup {0}
      BY <2>1, <2>2 DEF IsLargest
    <2>5. \A x \in jitters \cup {0} : m >= x
      BY <2>1, <2>2 DEF IsLargest
    <2> HIDE DEF jitters
    <2>6. Max(jitters \cup {0}) = m
      BY <2>3, <2>4, <2>5, MaxUnique
    <2> QED BY <2>6 DEF jitters, m, r
  <1> QED BY <1>1, Invariance, PTL

-----------------------------------------------------------------------------
(***************************************************************************)
(* Interpolation.                                                          *)
(***************************************************************************)

LEMMA DivisionSays ==
    ASSUME NEW a \in Nat, NEW b \in Nat \ {0}
    PROVE  /\ a \div b \in Int /\ a % b \in 0..(b - 1)
           /\ a = b * (a \div b) + (a % b)
  <1>1. a % b \in 0..(b - 1)
    OBVIOUS
  <1>2. a \div b \in Int
    OBVIOUS
  <1>3. a = b * (a \div b) + (a % b)
    OBVIOUS
  <1> QED BY <1>1, <1>2, <1>3

LEMMA ProductsOrdered ==
    ASSUME NEW a \in Int, NEW b \in Int, NEW c \in Nat, a <= b
    PROVE  a * c <= b * c
  OBVIOUS

LEMMA OneLessTimes ==
    ASSUME NEW a \in Int, NEW b \in Int
    PROVE  /\ (a - 1) * b = a * b - b /\ (a + 1) * b = a * b + b
           /\ a * b = b * a /\ a * b \in Int
  OBVIOUS

\* A quotient that may be one too small is still off by less than one tick, or
\* by one, and not negative.
LEMMA QuotientSays ==
    ASSUME NEW a \in Nat, NEW b \in Nat \ {0}, NEW q \in Quotient(a, b)
    PROVE  q \in Nat /\ q * b \in Int /\ q * b <= a /\ a <= q * b + b
  <1> DEFINE d == a \div b
             m == a % b
  <1>1. d \in Int /\ m \in 0..(b - 1) /\ a = b * d + m
    BY DivisionSays
  <1>2. q = d \/ (q = d - 1 /\ a # 0 /\ m = 0)
    BY DEF Quotient
  <1> HIDE DEF d, m
  <1>3. /\ d * b = b * d /\ d * b \in Int
        /\ (d - 1) * b = d * b - b
    BY <1>1, OneLessTimes
  <1>4. d >= 0
    <2> SUFFICES ASSUME d <= -1 PROVE FALSE
      BY <1>1
    <2>1. d * b <= (-1) * b
      BY <1>1, ProductsOrdered
    <2> QED BY <1>1, <1>3, <2>1
  <1>5. CASE q = d
    BY <1>1, <1>3, <1>4, <1>5
  <1>6. CASE q = d - 1 /\ a # 0 /\ m = 0
    <2>1. d # 0
      BY <1>1, <1>6
    <2>2. q \in Nat
      BY <1>1, <1>4, <1>6, <2>1
    <2>3. q * b = d * b - b
      BY <1>3, <1>6
    <2> QED BY <1>1, <1>3, <1>6, <2>2, <2>3
  <1> QED BY <1>2, <1>5, <1>6

LEMMA QuotientExists == ASSUME NEW a, NEW b PROVE Quotient(a, b) # {}
  BY DEF Quotient

\* The share of an advance that belongs to a part of the packets.
LEMMA QuotientIsShare ==
    ASSUME NEW advance \in Nat, NEW part \in Nat, NEW whole \in Nat \ {0},
           NEW q \in Quotient(advance * part, whole)
    PROVE  /\ q \in Nat /\ IsShare(q, advance, part, whole)
           /\ part <= whole => q <= advance
  <1> DEFINE a == advance * part
  <1>1. a \in Nat
    <2>1. a \in Int
      BY OneLessTimes
    <2>2. 0 * part <= advance * part
      BY ProductsOrdered
    <2> QED BY <2>1, <2>2
  <1> HIDE DEF a
  <1>2. q \in Quotient(a, whole)
    BY DEF a
  <1>3. q \in Nat /\ q * whole \in Int /\ q * whole <= a /\ a <= q * whole + whole
    BY <1>1, <1>2, QuotientSays
  <1>4. AbsOf(q * whole - a) <= whole
    <2>1. \A x \in Int : x <= 0 /\ -x <= whole => AbsOf(x) <= whole
      BY DEF AbsOf
    <2>2. q * whole - a \in Int /\ q * whole - a <= 0
          /\ -(q * whole - a) <= whole
      BY <1>1, <1>3
    <2> QED BY <2>1, <2>2
  <1>5. ASSUME part <= whole PROVE q <= advance
    <2> SUFFICES ASSUME advance + 1 <= q PROVE FALSE
      BY <1>3
    <2>1. (advance + 1) * whole <= q * whole
      BY <1>3, ProductsOrdered
    <2>2. (advance + 1) * whole = advance * whole + whole
          /\ advance * whole \in Int
      BY OneLessTimes
    <2>3. advance * part <= advance * whole
      <3>1. part * advance <= whole * advance
        BY <1>5, ProductsOrdered
      <3> QED BY <3>1, OneLessTimes
    <2>4. a <= advance * whole
      BY <2>3 DEF a
    <2> QED BY <1>1, <1>3, <2>1, <2>2, <2>4
  <1> QED BY <1>3, <1>4, <1>5 DEF IsShare, a

\* A PCR and its share of the advance are a PCR unless the clock wraps.
LEMMA ShareBelowWrap ==
    ASSUME NEW from \in Int, NEW advance \in Nat, NEW part \in Nat,
           NEW whole \in Nat \ {0}, NEW q \in Quotient(advance * part, whole),
           StaysBelowWrap(from, advance, part, whole)
    PROVE  from + q < Wrap
  <1> DEFINE a == advance * part
  <1>1. a \in Nat
    <2>1. a \in Int
      BY OneLessTimes
    <2>2. 0 * part <= advance * part
      BY ProductsOrdered
    <2> QED BY <2>1, <2>2
  <1>2. from * whole + a < Wrap * whole
    BY DEF StaysBelowWrap
  <1> HIDE DEF a
  <1>3. q \in Nat /\ q * whole \in Int /\ q * whole <= a
    <2>1. q \in Quotient(a, whole)
      BY DEF a
    <2> QED BY <1>1, <2>1, QuotientSays
  <1>4. \A x, y \in Int : (x + y) * whole = x * whole + y * whole
    OBVIOUS
  <1>5. Wrap \in Nat
    BY TrackerAssumption
  <1>6. /\ from * whole \in Int /\ Wrap * whole \in Int
        /\ (from + q) * whole = from * whole + q * whole
    BY <1>3, <1>4, <1>5, OneLessTimes
  <1> SUFFICES ASSUME Wrap <= from + q PROVE FALSE
    BY <1>3, <1>5
  <1>7. Wrap * whole <= (from + q) * whole
    BY <1>3, <1>5, ProductsOrdered
  <1> QED BY <1>1, <1>2, <1>3, <1>6, <1>7

\* The least index of an interval of them.
LEMMA MinOfInterval ==
    ASSUME NEW a \in Int, NEW b \in Int, a <= b
    PROVE  Min(a..b) = a
  <1>1. a \in a..b /\ \A y \in a..b : a <= y
    OBVIOUS
  <1>2. \A x \in a..b : (\A y \in a..b : x <= y) => x = a
    BY <1>1
  <1> QED BY <1>1, <1>2 DEF Min

LEMMA WindowOf ==
    ASSUME NEW r \in Seq(Receipt), NEW samples, HoldsLast(samples, r)
    PROVE  /\ Len(r) \in Nat /\ Len(samples) \in Nat /\ Len(samples) <= Len(r)
           /\ DOMAIN samples = 1..Len(samples)
           /\ \A k \in 1..Len(samples) :
                 samples[k] = SampleOf(r[Len(r) - Len(samples) + k])
  <1>1. /\ Len(r) \in Nat /\ Len(samples) \in Nat
        /\ Len(samples) = IF Len(r) <= MaxSamples THEN Len(r) ELSE MaxSamples
        /\ DOMAIN samples = 1..Len(samples)
        /\ \A k \in 1..Len(samples) :
              samples[k] = SampleOf(r[Len(r) - Len(samples) + k])
    BY DEF HoldsLast
  <1>2. MaxSamples \in Nat
    BY TrackerAssumption
  <1>3. Len(samples) <= Len(r)
    <2>1. \A l, n, m \in Nat : l = (IF n <= m THEN n ELSE m) => l <= n
      OBVIOUS
    <2> QED BY <1>1, <1>2, <2>1, Zenon
  <1> QED BY <1>1, <1>3

\* The receipts the j-th sample of the window and the one behind it are of.
LEMMA WindowAt ==
    ASSUME NEW r \in Seq(Receipt), NEW samples, HoldsLast(samples, r),
           ClockSays(r),
           NEW i \in (Len(r) - Len(samples) + 1)..(Len(r) - 1)
    PROVE  LET j == i - (Len(r) - Len(samples))
           IN  /\ Len(samples) \in Nat /\ Len(r) \in Nat
               /\ i \in 1..Len(r) /\ i + 1 \in 1..Len(r)
               /\ j \in 1..(Len(samples) - 1)
               /\ samples[j] = SampleOf(r[i])
               /\ samples[j + 1] = SampleOf(r[i + 1])
               /\ Interval(samples[j], samples[j + 1]) = r[i + 1].advance
  <1> DEFINE n == Len(r)
             l == Len(samples)
             j == i - (n - l)
  <1>1. /\ n \in Nat /\ l \in Nat /\ l <= n
        /\ \A k \in 1..l : samples[k] = SampleOf(r[n - l + k])
    BY WindowOf
  <1>2. i \in (n - l + 1)..(n - 1)
    OBVIOUS
  <1> HIDE DEF n, l
  <1>3. /\ i \in 1..n /\ i + 1 \in 1..n /\ i \in 1..(n - 1)
        /\ j \in 1..(l - 1) /\ j \in 1..l /\ j + 1 \in 1..l
        /\ n - l + j = i /\ n - l + (j + 1) = i + 1
    BY <1>1, <1>2
  <1> HIDE DEF j
  <1>4. samples[j] = SampleOf(r[i]) /\ samples[j + 1] = SampleOf(r[i + 1])
    BY <1>1, <1>3
  <1>5. pcrDifference(r[i].pcr, r[i + 1].pcr) = r[i + 1].advance
    BY <1>3 DEF ClockSays, n
  <1>6. Interval(samples[j], samples[j + 1]) = r[i + 1].advance
    BY <1>4, <1>5 DEF Interval, SampleOf
  <1> QED BY <1>1, <1>3, <1>4, <1>6 DEF n, l, j

\* Which samples are later than packet p.
LEMMA LaterSamples ==
    ASSUME NEW r \in Seq(Receipt), NEW samples, HoldsLast(samples, r),
           NEW last \in Nat, PacketsUpTo(r, last),
           NEW i \in (Len(r) - Len(samples) + 1)..Len(r), NEW p \in Nat,
           r[i].packet <= p, i < Len(r) => p < r[i + 1].packet
    PROVE  {k \in DOMAIN samples : samples[k].packet_number > p}
              = (i - (Len(r) - Len(samples)) + 1)..Len(samples)
  <1> DEFINE n == Len(r)
             l == Len(samples)
             j == i - (n - l)
  <1>1. /\ n \in Nat /\ l \in Nat /\ l <= n /\ DOMAIN samples = 1..l
        /\ \A k \in 1..l : samples[k] = SampleOf(r[n - l + k])
    BY WindowOf
  <1>2. i \in (n - l + 1)..n /\ (i < n => p < r[i + 1].packet)
    OBVIOUS
  <1>3. /\ \A k \in 1..n : r[k].packet \in Nat
        /\ \A k, m \in 1..n : k <= m => r[k].packet <= r[m].packet
    BY ReceiptsAt, Zenon DEF PacketsUpTo
  <1> HIDE DEF n, l
  <1>4. ASSUME NEW k \in 1..l
        PROVE  samples[k].packet_number > p <=> k \in (j + 1)..l
    <2>1. n - l + k \in 1..n /\ i \in 1..n
      BY <1>1, <1>2
    <2>2. samples[k].packet_number = r[n - l + k].packet
      BY <1>1 DEF SampleOf
    <2>3. CASE k <= j
      <3>1. n - l + k <= i
        BY <1>1, <1>2, <2>3
      <3>2. r[n - l + k].packet <= r[i].packet
        BY <1>3, <2>1, <3>1
      <3>3. ~(r[n - l + k].packet > p)
        BY <1>3, <2>1, <3>2
      <3>4. k \notin (j + 1)..l
        BY <1>1, <1>2, <2>3
      <3> QED BY <2>2, <3>3, <3>4
    <2>4. CASE k > j
      <3>1. i + 1 <= n - l + k /\ i < n /\ i + 1 \in 1..n
        BY <1>1, <1>2, <2>4
      <3>2. r[i + 1].packet <= r[n - l + k].packet
        BY <1>3, <2>1, <3>1
      <3>3. r[n - l + k].packet > p
        BY <1>2, <1>3, <2>1, <3>1, <3>2, SMTT(30)
      <3>4. k \in (j + 1)..l
        BY <1>1, <1>2, <2>4
      <3> QED BY <2>2, <3>3, <3>4
    <2> QED BY <1>1, <1>2, <2>3, <2>4
  <1>5. (j + 1)..l \subseteq 1..l
    BY <1>1, <1>2
  <1> HIDE DEF j
  <1>6. {k \in 1..l : samples[k].packet_number > p} = (j + 1)..l
    BY <1>4, <1>5
  <1> QED BY <1>1, <1>6 DEF n, l, j

\* Where the clock was at packet p, from its e-th PCR on, if it advances as
\* between the i-th PCR and the next.
ClockAt(r, e, i, p) ==
    {r[e].pcr + q : q \in Quotient(r[i + 1].advance * (p - r[e].packet),
                                   r[i + 1].packet - r[i].packet)}

LEMMA InterpolatesBetween ==
    ASSUME NEW r \in Seq(Receipt), NEW samples, HoldsLast(samples, r),
           ClockSays(r), NEW last \in Nat, PacketsUpTo(r, last),
           NEW i \in (Len(r) - Len(samples) + 1)..(Len(r) - 1),
           NEW p \in r[i].packet..(r[i + 1].packet - 1)
    PROVE  interpolatePCR(samples, p) = ClockAt(r, i, i, p)
  <1> DEFINE n == Len(r)
             l == Len(samples)
             j == i - (n - l)
             later == {k \in DOMAIN samples : samples[k].packet_number > p}
  <1>1. /\ l \in Nat /\ n \in Nat
        /\ i \in 1..n /\ i + 1 \in 1..n
        /\ j \in 1..(l - 1)
        /\ samples[j] = SampleOf(r[i])
        /\ samples[j + 1] = SampleOf(r[i + 1])
        /\ Interval(samples[j], samples[j + 1]) = r[i + 1].advance
    BY WindowAt
  <1>2. /\ r[i].packet \in Nat /\ r[i + 1].packet \in Nat
    BY <1>1, ReceiptsAt
  <1>3. p \in Nat /\ r[i].packet <= p /\ p < r[i + 1].packet
    BY <1>2
  <1>4. later = (j + 1)..l
    <2>1. i \in (n - l + 1)..n
      BY <1>1
    <2> QED BY <1>3, <2>1, LaterSamples
  <1> HIDE DEF n, l, j, later
  <1>5. later # {} /\ Min(later) = j + 1
    <2>1. j + 1 \in Int /\ l \in Int /\ j + 1 <= l
      BY <1>1
    <2>2. Min((j + 1)..l) = j + 1
      BY <2>1, MinOfInterval
    <2>3. j + 1 \in (j + 1)..l
      BY <2>1
    <2> QED BY <1>4, <2>2, <2>3
  <1>6. ~(l < 2 \/ j = 0) /\ (j + 1) - 1 = j
    BY <1>1
  <1>7. interpolatePCR(samples, p) = Between(samples[j], samples[j + 1], p)
    BY <1>5, <1>6 DEF interpolatePCR, later, l
  <1>8. /\ samples[j].pcr = r[i].pcr
        /\ samples[j].packet_number = r[i].packet
        /\ samples[j + 1].packet_number = r[i + 1].packet
    BY <1>1 DEF SampleOf
  <1> QED BY <1>1, <1>7, <1>8 DEF Between, ClockAt

\* The clock and the packets advanced to the last PCR from the one before.
AdvancesLast(r, i) ==
    /\ i = Len(r) - 1 /\ r[i + 1].advance > 0
    /\ r[i + 1].packet - r[i].packet > 0

LEMMA InterpolatesBehind ==
    ASSUME NEW r \in Seq(Receipt), NEW samples, HoldsLast(samples, r),
           ClockSays(r), NEW last \in Nat, PacketsUpTo(r, last),
           NEW i \in (Len(r) - Len(samples) + 1)..(Len(r) - 1),
           AdvancesLast(r, i), NEW p \in Nat, r[Len(r)].packet <= p
    PROVE  interpolatePCR(samples, p) = ClockAt(r, Len(r), i, p)
  <1> DEFINE n == Len(r)
             l == Len(samples)
             j == i - (n - l)
             later == {k \in DOMAIN samples : samples[k].packet_number > p}
  <1>1. /\ l \in Nat /\ n \in Nat
        /\ i \in 1..n /\ i + 1 \in 1..n
        /\ j \in 1..(l - 1)
        /\ samples[j] = SampleOf(r[i])
        /\ samples[j + 1] = SampleOf(r[i + 1])
        /\ Interval(samples[j], samples[j + 1]) = r[i + 1].advance
    BY WindowAt
  <1>a. /\ i = n - 1 /\ r[i + 1].advance > 0
        /\ r[i + 1].packet - r[i].packet > 0
    BY DEF AdvancesLast
  <1>2. i + 1 = n /\ j + 1 = l /\ l - 1 = j /\ l >= 2
    BY <1>1, <1>a
  <1>3. later = (n - (n - l) + 1)..l
    <2>1. n \in (n - l + 1)..n /\ ~(n < n)
      BY <1>1
    <2> QED BY <2>1, LaterSamples
  <1> HIDE DEF n, l, j, later
  <1>4. later = {}
    BY <1>1, <1>3
  <1>5. interpolatePCR(samples, p) = Behind(samples[j], samples[j + 1], p)
    <2>1. ~(l < 2 \/ l = 0)
      BY <1>1, <1>2
    <2>2. interpolatePCR(samples, p) = Behind(samples[l - 1], samples[l], p)
      BY <1>4, <2>1 DEF interpolatePCR, later, l
    <2> QED BY <1>2, <2>2
  <1>6. /\ samples[j + 1].pcr = r[n].pcr
        /\ samples[j].packet_number = r[i].packet
        /\ samples[j + 1].packet_number = r[n].packet
        /\ r[i + 1] = r[n]
    BY <1>1, <1>2 DEF SampleOf
  <1>7. Behind(samples[j], samples[j + 1], p) =
           {r[n].pcr + q : q \in Quotient(
               r[i + 1].advance * (p - r[n].packet),
               r[i + 1].packet - r[i].packet)}
    BY <1>1, <1>a, <1>6 DEF Behind
  <1> QED BY <1>5, <1>7 DEF n, ClockAt

\* What is interpolated is where the clock was, for every period of the clock,
\* size of the window and number of packets between PCRs.
THEOREM InterpolationTheorem == Spec => []InterpolationFollowsClock
  <1>1. IInv => InterpolationFollowsClock
    <2> SUFFICES ASSUME IInv, NEW pid \in Pid,
                        NEW r, r = received[pid],
                        NEW samples, samples = TrackerOf(pid).samples,
                        NEW i \in (Len(r) - Len(samples) + 1)..(Len(r) - 1)
                 PROVE  LET whole == r[i + 1].packet - r[i].packet
                            advance == r[i + 1].advance
                        IN
                 /\ advance >= 0 =>
                       \A p \in r[i].packet..(r[i + 1].packet - 1) :
                          LET values == interpolatePCR(samples, p)
                              part == p - r[i].packet
                          IN  /\ values # {}
                              /\ StaysBelowWrap(r[i].pcr, advance, part, whole)
                                   => \A v \in values :
                                         /\ v < Wrap
                                         /\ v - r[i].pcr \in 0..advance
                                         /\ IsShare(v - r[i].pcr, advance,
                                                    part, whole)
                 /\ i = Len(r) - 1 /\ advance > 0 /\ whole > 0 =>
                       \A p \in r[Len(r)].packet..(r[Len(r)].packet + whole) :
                          LET values == interpolatePCR(samples, p)
                              part == p - r[Len(r)].packet
                          IN  /\ values # {}
                              /\ StaysBelowWrap(r[Len(r)].pcr, advance, part,
                                                whole)
                                   => \A v \in values :
                                         /\ v < Wrap
                                         /\ IsShare(v - r[Len(r)].pcr, advance,
                                                    part, whole)
      BY DEF InterpolationFollowsClock, Advance
    <2> DEFINE advance == r[i + 1].advance
               whole == r[i + 1].packet - r[i].packet
    <2>1. /\ r \in Seq(Receipt) /\ HoldsLast(samples, r) /\ ClockSays(r)
          /\ packet_number \in Nat /\ PacketsUpTo(r, packet_number)
      BY DEF IInv, TrackerOK
    <2>2. Len(r) \in Nat /\ i \in 1..Len(r) /\ i + 1 \in 1..Len(r)
      BY <2>1, WindowAt
    <2>3. /\ r[i].packet \in Nat /\ r[i + 1].packet \in Nat
          /\ r[i].pcr \in Int /\ r[i + 1].pcr \in Int /\ advance \in Int
      BY <2>1, <2>2, ReceiptsAt, TrackerAssumption, SMTT(30)
    <2>4. ASSUME NEW p \in r[i].packet..(r[i + 1].packet - 1), advance >= 0
          PROVE  LET values == interpolatePCR(samples, p)
                     part == p - r[i].packet
                 IN  /\ values # {}
                     /\ StaysBelowWrap(r[i].pcr, advance, part, whole) =>
                           \A v \in values :
                              /\ v < Wrap
                              /\ v - r[i].pcr \in 0..advance
                              /\ IsShare(v - r[i].pcr, advance, part, whole)
      <3>1. interpolatePCR(samples, p) =
               {r[i].pcr + q : q \in Quotient(advance * (p - r[i].packet),
                                              whole)}
        <4>1. interpolatePCR(samples, p) = ClockAt(r, i, i, p)
          BY <2>1, InterpolatesBetween
        <4> QED BY <4>1 DEF ClockAt
      <3>2. /\ advance \in Nat /\ whole \in Nat \ {0}
            /\ p - r[i].packet \in Nat /\ p - r[i].packet <= whole
        <4>1. \A a, b \in Nat : \A x \in a..(b - 1) :
                 b - a \in Nat \ {0} /\ x - a \in Nat /\ x - a <= b - a
          OBVIOUS
        <4>2. whole \in Nat \ {0} /\ p - r[i].packet \in Nat
              /\ p - r[i].packet <= whole
          BY <2>3, <4>1, Zenon
        <4> HIDE DEF advance
        <4>3. advance \in Nat
          BY <2>3, <2>4
        <4> QED BY <4>2, <4>3
      <3> DEFINE part == p - r[i].packet
      <3> HIDE DEF advance, whole, part
      <3>3. \A q \in Quotient(advance * part, whole) :
               /\ q \in Nat /\ IsShare(q, advance, part, whole)
               /\ q <= advance
        BY <3>2, QuotientIsShare DEF part
      <3>4. \A q \in Nat : (r[i].pcr + q) - r[i].pcr = q
        BY <2>3
      <3>5. Quotient(advance * part, whole) # {}
        BY QuotientExists
      <3>6. interpolatePCR(samples, p) =
               {r[i].pcr + q : q \in Quotient(advance * part, whole)}
        BY <3>1 DEF part
      <3>7. ASSUME NEW v \in interpolatePCR(samples, p),
                   StaysBelowWrap(r[i].pcr, advance, part, whole)
            PROVE  /\ v < Wrap
                   /\ v - r[i].pcr \in 0..advance
                   /\ IsShare(v - r[i].pcr, advance, part, whole)
        <4>1. PICK q \in Quotient(advance * part, whole) : v = r[i].pcr + q
          BY <3>6
        <4>2. q \in Nat /\ IsShare(q, advance, part, whole) /\ q <= advance
          BY <3>3
        <4>3. v - r[i].pcr = q
          BY <3>4, <4>1, <4>2
        <4>4. v < Wrap
          <5>1. part \in Nat
            BY <3>2 DEF part
          <5>2. r[i].pcr + q < Wrap
            BY <2>3, <3>2, <3>7, <4>1, <5>1, ShareBelowWrap
          <5> QED BY <4>1, <5>2
        <4> QED BY <3>2, <4>2, <4>3, <4>4, SMTT(30)
      <3> QED BY <3>5, <3>6, <3>7 DEF part
    <2>5. ASSUME NEW p \in r[Len(r)].packet..(r[Len(r)].packet + whole),
                 i = Len(r) - 1, advance > 0, whole > 0
          PROVE  LET values == interpolatePCR(samples, p)
                     part == p - r[Len(r)].packet
                 IN  /\ values # {}
                     /\ StaysBelowWrap(r[Len(r)].pcr, advance, part, whole) =>
                           \A v \in values :
                              /\ v < Wrap
                              /\ IsShare(v - r[Len(r)].pcr, advance, part,
                                         whole)
      <3> DEFINE end == r[Len(r)]
                 part == p - end.packet
      <3>1. end = r[i + 1] /\ end.packet \in Nat /\ end.pcr \in Int
        BY <2>2, <2>3, <2>5
      <3>2. /\ advance \in Nat /\ whole \in Nat \ {0}
            /\ p \in Nat /\ end.packet <= p /\ part \in Nat
        <4> HIDE DEF advance, end
        <4>1. whole \in Int
          BY <2>3
        <4>2. p \in end.packet..(end.packet + whole)
          BY DEF end
        <4> HIDE DEF whole
        <4>3. advance \in Nat /\ whole \in Nat \ {0}
          BY <2>3, <2>5, <4>1
        <4>4. \A a \in Nat, b \in Int : \A x \in a..(a + b) :
                 x \in Nat /\ a <= x /\ x - a \in Nat
          OBVIOUS
        <4>5. p \in Nat /\ end.packet <= p /\ p - end.packet \in Nat
          BY <3>1, <4>1, <4>2, <4>4, Zenon
        <4> QED BY <4>3, <4>5
      <3>3. interpolatePCR(samples, p) =
               {end.pcr + q : q \in Quotient(advance * part, whole)}
        <4>1. interpolatePCR(samples, p) = ClockAt(r, Len(r), i, p)
          <5>1. AdvancesLast(r, i)
            BY <2>5 DEF AdvancesLast
          <5>2. p \in Nat /\ r[Len(r)].packet <= p
            BY <3>2
          <5> QED BY <2>1, <5>1, <5>2, InterpolatesBehind, ZenonT(60)
        <4> QED BY <4>1 DEF ClockAt
      <3> HIDE DEF advance, whole, part, end
      <3>4. \A q \in Quotient(advance * part, whole) :
               q \in Nat /\ IsShare(q, advance, part, whole)
        BY <3>2, QuotientIsShare
      <3>5. \A q \in Nat : (end.pcr + q) - end.pcr = q
        BY <3>1
      <3>6. Quotient(advance * part, whole) # {}
        BY QuotientExists
      <3>7. ASSUME NEW v \in interpolatePCR(samples, p),
                   StaysBelowWrap(end.pcr, advance, part, whole)
            PROVE  v < Wrap /\ IsShare(v - end.pcr, advance, part, whole)
        <4>1. PICK q \in Quotient(advance * part, whole) : v = end.pcr + q
          BY <3>3
        <4>2. q \in Nat /\ IsShare(q, advance, part, whole)
          BY <3>4
        <4>3. v - end.pcr = q
          BY <3>5, <4>1, <4>2
        <4>4. v < Wrap
          BY <3>1, <3>2, <3>7, <4>1, ShareBelowWrap
        <4> QED BY <4>2, <4>3, <4>4
      <3> QED BY <3>3, <3>6, <3>7 DEF part, end
    <2> QED BY <2>4, <2>5
  <1> QED BY <1>1, Invariance, PTL

=============================================================================
