------------------------- MODULE EquityWatchProofs --------------------------
(***************************************************************************)
(* Theorems about EquityWatch, for any thresholds, equities and tables.    *)
(***************************************************************************)
EXTENDS EquityWatch, WellOrder

----------------------------------------------------------------------------
(* What evaluate's arithmetic and the high-water mark come to *)

\* The rounded percentage reaches a threshold exactly on a fall of that depth.
LEMMA LossPctIsFall ==
    ASSUME NEW base \in Nat, base > 0, NEW now \in Nat, NEW pct \in Nat
    PROVE  LossPct(base, now) \in Int /\ (LossPct(base, now) >= pct <=> Fallen(base, now, pct))
<1> DEFINE loss == 20000 * (base - now) + base
           twice == 2 * base
           quotient == loss \div twice
<1>1. loss \in Int /\ twice \in Nat \ {0}
  OBVIOUS
<1> HIDE DEF loss, twice
<1>2. quotient \in Int /\ twice * quotient <= loss /\ loss < twice * (quotient + 1)
  BY <1>1
<1> HIDE DEF quotient
<1>3. CASE quotient >= pct
  <2>1. twice * quotient >= twice * pct
    BY <1>1, <1>2, <1>3
  <2> QED
    BY <1>1, <1>2, <1>3, <2>1 DEF loss, twice, quotient, LossPct, Fallen
<1>4. CASE quotient < pct
  <2>1. twice * (quotient + 1) <= twice * pct
    BY <1>1, <1>2, <1>4
  <2> QED
    BY <1>1, <1>2, <1>4, <2>1 DEF loss, twice, quotient, LossPct, Fallen
<1> QED
  BY <1>2, <1>3, <1>4

\* evaluate returns nothing but what CircuitBreaker lets any evaluation be.
LEMMA VerdictIsEvaluation ==
    ASSUME NEW e, NEW h, NEW hwm, NEW day
    PROVE  Verdict(e, h, hwm, day) \in Evaluations
<1>1. LevelOf(e, h, hwm, day) \in Levels
  BY DEF LevelOf, Levels
<1> QED
  BY <1>1 DEF Verdict, Evaluations, Levels

\* The equities the high-water mark is taken of.
Recorded(s) == {0} \cup {s[i].equity : i \in EpochId(s) .. Len(s)}

IsGreatest(m, S) == m \in S /\ \A y \in S : y <= m

\* Max of the library is the greatest element.
LEMMA GreatestIsMax ==
    ASSUME NEW S \in SUBSET Nat, NEW m, IsGreatest(m, S)
    PROVE  Max(S) = m
<1>1. m \in S /\ \A y \in S : m >= y
  BY DEF IsGreatest
<1>2. Max(S) \in S /\ \A y \in S : Max(S) >= y
  BY <1>1 DEF Max
<1>3. Max(S) >= m /\ m >= Max(S) /\ Max(S) \in Nat /\ m \in Nat
  BY <1>1, <1>2
<1> QED
  BY <1>3

\* The newest marker is a row of the table that has no later one.
LEMMA EpochIsNewestMark ==
    ASSUME NEW s \in Seq(Snapshots)
    PROVE  /\ EpochId(s) \in 1 .. Len(s) + 1
           /\ (\A i \in DOMAIN s : ~s[i].manual) => EpochId(s) = 1
           /\ \A i \in DOMAIN s : s[i].manual =>
                  /\ i <= EpochId(s)
                  /\ EpochId(s) \in DOMAIN s
                  /\ s[EpochId(s)].manual
<1> DEFINE marks == {i \in DOMAIN s : s[i].manual}
<1>1. DOMAIN s = 1 .. Len(s) /\ Len(s) \in Nat
  OBVIOUS
<1>2. CASE marks = {}
  BY <1>1, <1>2 DEF EpochId
<1>3. CASE marks # {}
  <2>1. marks \in SUBSET Nat /\ IsFiniteSet(marks)
    <3>1. marks \in SUBSET (1 .. Len(s)) /\ marks \in SUBSET Nat
      BY <1>1
    <3>2. IsFiniteSet(1 .. Len(s))
      BY <1>1, FS_Interval
    <3> HIDE DEF marks
    <3> QED
      BY <3>1, <3>2, FS_Subset
  <2>2. EpochId(s) = Max(marks)
    BY <1>3 DEF EpochId
  <2>3. Max(marks) \in marks /\ \A y \in marks : y <= Max(marks)
    <3> HIDE DEF marks
    <3> QED
      BY <1>3, <2>1, MaxOfFinite
  <2>4. EpochId(s) \in DOMAIN s /\ s[EpochId(s)].manual
    BY <2>2, <2>3
  <2>5. \A i \in DOMAIN s : s[i].manual => i <= EpochId(s)
    BY <2>2, <2>3
  <2>6. ~ \A i \in DOMAIN s : ~s[i].manual
    BY <1>3
  <2> QED
    BY <1>1, <2>4, <2>5, <2>6
<1> QED
  BY <1>2, <1>3

\* A row more leaves the epoch where it was, unless it is a marker.
LEMMA EpochOfAppend ==
    ASSUME NEW s \in Seq(Snapshots), NEW row \in Snapshots
    PROVE  EpochId(Append(s, row)) = IF row.manual THEN Len(s) + 1 ELSE EpochId(s)
<1> DEFINE t == Append(s, row)
           epoch == EpochId(t)
<1>1. /\ t \in Seq(Snapshots) /\ Len(t) = Len(s) + 1 /\ Len(s) \in Nat
      /\ DOMAIN t = 1 .. Len(s) + 1 /\ DOMAIN s = 1 .. Len(s)
      /\ t[Len(s) + 1] = row /\ \A i \in DOMAIN s : t[i] = s[i]
  OBVIOUS
<1> HIDE DEF t
<1>2. /\ epoch \in 1 .. Len(s) + 2
      /\ (\A i \in DOMAIN t : ~t[i].manual) => epoch = 1
      /\ \A i \in DOMAIN t : t[i].manual =>
             i <= epoch /\ epoch \in DOMAIN t /\ t[epoch].manual
  BY <1>1, EpochIsNewestMark
<1> HIDE DEF epoch
<1>3. CASE row.manual
  <2>1. Len(s) + 1 <= epoch /\ epoch \in DOMAIN t
    BY <1>1, <1>2, <1>3
  <2>2. epoch = Len(s) + 1
    BY <1>1, <2>1
  <2> QED
    BY <1>3, <2>2 DEF t, epoch
<1>4. CASE ~row.manual
  <2>1. CASE \A i \in DOMAIN s : ~s[i].manual
    <3>1. epoch = 1
      BY <1>1, <1>2, <1>4, <2>1
    <3> QED
      BY <1>4, <2>1, <3>1, EpochIsNewestMark DEF t, epoch
  <2>2. ASSUME NEW i \in DOMAIN s, s[i].manual PROVE epoch = EpochId(s)
    <3>1. EpochId(s) \in DOMAIN s /\ s[EpochId(s)].manual
      BY <2>2, EpochIsNewestMark
    <3>2. EpochId(s) <= epoch /\ epoch \in DOMAIN t /\ t[epoch].manual
      BY <1>1, <1>2, <3>1
    <3>3. epoch \in DOMAIN s /\ s[epoch].manual
      BY <1>1, <1>4, <3>2
    <3>4. epoch <= EpochId(s)
      BY <3>3, EpochIsNewestMark
    <3> QED
      BY <1>1, <3>1, <3>2, <3>4
  <2> QED
    BY <1>4, <2>1, <2>2 DEF t, epoch
<1> QED
  BY <1>3, <1>4

\* The high-water mark with a row more, from the one before.
LEMMA GreatestOfAppend ==
    ASSUME NEW s \in Seq(Snapshots), NEW row \in Snapshots, NEW m \in Nat,
           row.manual \/ IsGreatest(m, Recorded(s))
    PROVE  IsGreatest(Max({IF row.manual THEN 0 ELSE m, row.equity}),
                      Recorded(Append(s, row)))
<1> DEFINE t == Append(s, row)
           floor == IF row.manual THEN 0 ELSE m
           top == Max({floor, row.equity})
<1>1. /\ Len(t) = Len(s) + 1 /\ Len(s) \in Nat
      /\ t[Len(s) + 1] = row /\ \A i \in DOMAIN s : t[i] = s[i]
      /\ DOMAIN s = 1 .. Len(s)
      /\ row.equity \in Nat /\ floor \in Nat
      /\ \A i \in DOMAIN s : s[i].equity \in Nat
  <2>1. row.equity \in Nat /\ row.manual \in BOOLEAN
    BY DEF Snapshots
  <2>2. \A i \in DOMAIN s : s[i] \in Snapshots
    OBVIOUS
  <2>3. \A i \in DOMAIN s : s[i].equity \in Nat
    BY <2>2 DEF Snapshots
  <2>4. floor \in Nat
    BY <2>1
  <2> QED
    BY <2>1, <2>3, <2>4
<1>2. /\ top \in {floor, row.equity} /\ floor <= top /\ row.equity <= top
      /\ top \in Nat
  <2>1. IsGreatest(IF floor >= row.equity THEN floor ELSE row.equity, {floor, row.equity})
    BY <1>1 DEF IsGreatest
  <2>2. top = IF floor >= row.equity THEN floor ELSE row.equity
    <3> HIDE DEF floor
    <3> QED
      BY <1>1, <2>1, GreatestIsMax
  <2> QED
    BY <1>1, <2>2
<1>3. EpochId(t) = IF row.manual THEN Len(s) + 1 ELSE EpochId(s)
  BY EpochOfAppend
<1>4. EpochId(s) \in 1 .. Len(s) + 1
  BY EpochIsNewestMark
<1> HIDE DEF t, top
<1>5. CASE row.manual
  <2>1. Recorded(t) = {0, row.equity}
    BY <1>1, <1>3, <1>5 DEF Recorded
  <2> QED
    BY <1>1, <1>2, <1>5, <2>1 DEF IsGreatest, t, top
<1>6. CASE ~row.manual
  <2>1. Recorded(t) = Recorded(s) \cup {row.equity}
    <3>1. EpochId(t) .. Len(t) = (EpochId(s) .. Len(s)) \cup {Len(s) + 1}
      BY <1>1, <1>3, <1>4, <1>6
    <3>2. \A i \in EpochId(s) .. Len(s) : t[i] = s[i]
      BY <1>1, <1>4
    <3> QED
      BY <1>1, <3>1, <3>2 DEF Recorded
  <2>2. m \in Recorded(s) /\ \A y \in Recorded(s) : y <= m /\ y \in Nat
    BY <1>1, <1>4, <1>6 DEF IsGreatest, Recorded
  <2>3. top \in Recorded(t) /\ \A y \in Recorded(t) : y <= top
    BY <1>1, <1>2, <1>6, <2>1, <2>2
  <2> QED
    BY <2>3 DEF IsGreatest, t, top
<1> QED
  BY <1>5, <1>6

----------------------------------------------------------------------------
(***************************************************************************)
(* The days of the table.  NewestFirst and EquityHistory are defined by    *)
(* what they yield; a sequence q that enumerates the last rows of the days *)
(* is what they yield, and it is kept up to date row by row.               *)
(***************************************************************************)

Decreasing(q, s) == \A a, b \in DOMAIN q : a < b => s[q[a]].date > s[q[b]].date

\* q lists the last row of each day of the table, the newest day first.
Enumerates(q, s) ==
    /\ q \in Seq(LastOfDays(s))
    /\ Decreasing(q, s)
    /\ \A i \in LastOfDays(s) : \E a \in DOMAIN q : q[a] = i

\* The days' last rows are rows of the epoch.
LEMMA DaysAreRows ==
    ASSUME NEW s \in Seq(Snapshots), NEW i \in LastOfDays(s)
    PROVE  /\ i \in DOMAIN s /\ i \in EpochId(s) .. Len(s)
           /\ s[i].date \in Nat \ {0} /\ s[i].equity \in Nat
<1>1. i \in EpochId(s) .. Len(s)
  BY DEF LastOfDays
<1>2. i \in DOMAIN s
  <2>1. EpochId(s) \in 1 .. Len(s) + 1 /\ Len(s) \in Nat /\ DOMAIN s = 1 .. Len(s)
    BY EpochIsNewestMark
  <2> QED
    BY <1>1, <2>1
<1>3. s[i] \in Snapshots
  BY <1>2
<1> QED
  BY <1>1, <1>2, <1>3 DEF Snapshots

\* Two lists of the same days by descending date are one: at the first place
\* where they differ, each would have to name the other's day later on.
LEMMA OneOrder ==
    ASSUME NEW s \in Seq(Snapshots), NEW n \in Nat,
           NEW q \in Surjection(1 .. n, LastOfDays(s)), Decreasing(q, s),
           NEW r \in Surjection(1 .. n, LastOfDays(s)), Decreasing(r, s)
    PROVE  q = r
<1> DEFINE apart == {k \in 1 .. n : q[k] # r[k]}
<1>1. /\ q \in [1 .. n -> LastOfDays(s)] /\ \A i \in LastOfDays(s) : \E a \in 1 .. n : q[a] = i
      /\ r \in [1 .. n -> LastOfDays(s)] /\ \A i \in LastOfDays(s) : \E a \in 1 .. n : r[a] = i
  BY DEF Surjection
<1> SUFFICES ASSUME apart # {} PROVE FALSE
  <2>1. apart = {} => \A k \in 1 .. n : q[k] = r[k]
    OBVIOUS
  <2>2. q \in [1 .. n -> LastOfDays(s)] /\ r \in [1 .. n -> LastOfDays(s)]
    BY <1>1
  <2> HIDE DEF apart
  <2>3. (\A k \in 1 .. n : q[k] = r[k]) => q = r
    BY <2>2
  <2> QED
    BY <2>1, <2>3
<1>2. PICK i \in apart : \A j \in apart : i <= j
  <2>1. apart \in SUBSET Nat
    OBVIOUS
  <2> HIDE DEF apart
  <2> QED
    BY <2>1, LeastNumber
<1>3. i \in 1 .. n /\ q[i] \in LastOfDays(s) /\ r[i] \in LastOfDays(s) /\ q[i] # r[i]
  BY <1>1, <1>2
<1>4. \A k \in 1 .. n : k < i => q[k] = r[k]
  BY <1>2
<1>5. PICK a \in 1 .. n : r[a] = q[i]
  BY <1>1, <1>3
<1>6. PICK b \in 1 .. n : q[b] = r[i]
  BY <1>1, <1>3
<1>7. \A k, l \in 1 .. n : k < l => q[k] # q[l] /\ r[k] # r[l]
  <2>1. \A k \in 1 .. n : s[q[k]].date \in Nat /\ s[r[k]].date \in Nat
    BY <1>1, DaysAreRows
  <2>2. DOMAIN q = 1 .. n /\ DOMAIN r = 1 .. n
    BY <1>1
  <2>3. \A k, l \in 1 .. n :
            k < l => s[q[k]].date > s[q[l]].date /\ s[r[k]].date > s[r[l]].date
    BY <2>2 DEF Decreasing
  <2> SUFFICES ASSUME NEW k \in 1 .. n, NEW l \in 1 .. n, k < l
               PROVE  q[k] # q[l] /\ r[k] # r[l]
    OBVIOUS
  <2>4. s[q[k]].date # s[q[l]].date /\ s[r[k]].date # s[r[l]].date
    BY <2>1, <2>3
  <2> QED
    BY <2>4
<1>8. a > i
  <2>1. ~(a < i)
    BY <1>3, <1>4, <1>5, <1>7
  <2> QED
    BY <1>3, <1>5, <2>1
<1>9. b > i
  <2>1. ~(b < i)
    BY <1>3, <1>4, <1>6, <1>7
  <2> QED
    BY <1>3, <1>6, <2>1
<1>10. s[r[i]].date > s[q[i]].date /\ s[q[i]].date > s[r[i]].date
  BY <1>1, <1>3, <1>5, <1>6, <1>8, <1>9 DEF Decreasing
<1> QED
  BY <1>3, <1>10, DaysAreRows

\* What lists the days by descending date is what NewestFirst picks.
LEMMA NewestFirstIs ==
    ASSUME NEW s \in Seq(Snapshots), NEW q, Enumerates(q, s)
    PROVE  Cardinality(LastOfDays(s)) = Len(q) /\ NewestFirst(s) = q
<1> DEFINE days == LastOfDays(s)
           n == Len(q)
<1>1. n \in Nat /\ DOMAIN q = 1 .. n /\ q \in [1 .. n -> days]
  BY DEF Enumerates
<1>2. q \in Surjection(1 .. n, days)
  BY <1>1 DEF Enumerates, Surjection
<1>3. ASSUME NEW r \in [1 .. n -> days], Decreasing(r, s)
      PROVE  r \in Injection(1 .. n, days)
  <2>1. \A k \in 1 .. n : s[r[k]].date \in Nat
    BY DaysAreRows
  <2>2. \A k, l \in 1 .. n : k < l => s[r[k]].date > s[r[l]].date
    BY <1>3 DEF Decreasing
  <2>3. \A k, l \in 1 .. n : r[k] = r[l] => k = l
    BY <1>1, <2>1, <2>2
  <2> QED
    BY <2>3 DEF Injection, IsInjective
<1>4. IsFiniteSet(1 .. n) /\ Cardinality(1 .. n) = n
  <2> HIDE DEF n
  <2> QED
    BY <1>1, FS_Interval
<1>5. IsFiniteSet(days) /\ Cardinality(days) = n
  <2>1. q \in Injection(1 .. n, days)
    BY <1>1, <1>3 DEF Enumerates
  <2>2. ExistsBijection(1 .. n, days)
    BY <1>2, <2>1 DEF ExistsBijection, Bijection
  <2> QED
    BY <1>4, <2>2, FS_Bijection
<1>6. /\ NewestFirst(s) \in [1 .. n -> days]
      /\ Decreasing(NewestFirst(s), s)
  <2>1. q \in [1 .. Cardinality(LastOfDays(s)) -> LastOfDays(s)]
        /\ \A a, b \in DOMAIN q : a < b => s[q[a]].date > s[q[b]].date
    BY <1>1, <1>5 DEF Enumerates, Decreasing
  <2>2. /\ NewestFirst(s) \in [1 .. Cardinality(LastOfDays(s)) -> LastOfDays(s)]
        /\ \A a, b \in DOMAIN NewestFirst(s) :
               a < b => s[NewestFirst(s)[a]].date > s[NewestFirst(s)[b]].date
    BY <2>1, Zenon DEF NewestFirst
  <2> QED
    BY <1>5, <2>2 DEF Decreasing
<1>7. NewestFirst(s) \in Surjection(1 .. n, days)
  <2>1. NewestFirst(s) \in Injection(1 .. n, days)
    BY <1>3, <1>6
  <2> HIDE DEF days
  <2> QED
    BY <1>4, <1>5, <2>1, FS_Injection
<1>8. NewestFirst(s) = q
  BY <1>1, <1>2, <1>6, <1>7, OneOrder DEF Enumerates
<1> QED
  BY <1>5, <1>8

\* A row takes the place of its day's last one, and a marker that of all.
LEMMA LastOfAppend ==
    ASSUME NEW s \in Seq(Snapshots), NEW row \in Snapshots
    PROVE  LastOfDays(Append(s, row)) =
               (IF row.manual THEN {} ELSE {i \in LastOfDays(s) : s[i].date # row.date})
               \cup {Len(s) + 1}
<1> DEFINE t == Append(s, row)
           rows == EpochId(s) .. Len(s)
           kept == IF row.manual THEN {} ELSE rows
<1>1. /\ Len(t) = Len(s) + 1 /\ Len(s) \in Nat /\ t[Len(s) + 1] = row
      /\ \A i \in 1 .. Len(s) : t[i] = s[i]
  OBVIOUS
<1>2. EpochId(t) = IF row.manual THEN Len(s) + 1 ELSE EpochId(s)
  BY EpochOfAppend
<1>3. EpochId(s) \in 1 .. Len(s) + 1
  BY EpochIsNewestMark
<1> HIDE DEF t
<1>4. EpochId(t) .. Len(t) = kept \cup {Len(s) + 1}
  BY <1>1, <1>2, <1>3
<1>5. \A i \in kept : i \in 1 .. Len(s) /\ i < Len(s) + 1 /\ t[i] = s[i]
  BY <1>1, <1>3
<1>6. LastOfDays(t) = {i \in kept \cup {Len(s) + 1} :
                          \A j \in kept \cup {Len(s) + 1} : t[j].date = t[i].date => j <= i}
  BY <1>4 DEF LastOfDays
<1> HIDE DEF kept
<1>7. LastOfDays(t) = {i \in kept : s[i].date # row.date
                           /\ \A j \in kept : s[j].date = s[i].date => j <= i}
                      \cup {Len(s) + 1}
  <2>1. ASSUME NEW i \in kept
        PROVE  i \in LastOfDays(t) <=>
                   /\ s[i].date # row.date
                   /\ \A j \in kept : s[j].date = s[i].date => j <= i
    <3>1. i \in LastOfDays(t) <=>
              \A j \in kept \cup {Len(s) + 1} : t[j].date = t[i].date => j <= i
      BY <1>6
    <3>2. i \in Int /\ ~(Len(s) + 1 <= i) /\ t[Len(s) + 1].date = row.date /\ t[i] = s[i]
      BY <1>1, <1>5
    <3> QED
      BY <1>5, <3>1, <3>2
  <2>2. Len(s) + 1 \in LastOfDays(t)
    BY <1>1, <1>5, <1>6
  <2> QED
    BY <1>6, <2>1, <2>2
<1>8. row.manual \in BOOLEAN
  BY DEF Snapshots
<1> QED
  BY <1>7, <1>8 DEF t, kept, LastOfDays

\* What remains of the list for the days before `day'.
DaysBefore(q, s, day) == IF q # <<>> /\ s[q[1]].date = day THEN Tail(q) ELSE q

\* Those days are all the days of the list but `day', if that is the newest.
LEMMA DaysBeforeAre ==
    ASSUME NEW s \in Seq(Snapshots), NEW q, Enumerates(q, s), NEW day \in Nat,
           \A i \in DOMAIN s : s[i].date <= day,
           NEW p, p = DaysBefore(q, s, day)
    PROVE  /\ p \in Seq(LastOfDays(s)) /\ Decreasing(p, s)
           /\ \A a \in DOMAIN p : s[p[a]].date < day
           /\ \A i \in LastOfDays(s) : s[i].date # day => \E a \in DOMAIN p : p[a] = i
<1>1. /\ q \in Seq(LastOfDays(s)) /\ Decreasing(q, s)
      /\ \A i \in LastOfDays(s) : \E a \in DOMAIN q : q[a] = i
  BY DEF Enumerates
<1>2. \A i \in LastOfDays(s) : s[i].date \in Nat /\ s[i].date <= day
  BY DaysAreRows
<1>3. /\ Len(q) \in Nat /\ DOMAIN q = 1 .. Len(q)
      /\ \A a \in DOMAIN q : q[a] \in LastOfDays(s)
      /\ \A a \in DOMAIN q : s[q[a]].date \in Nat /\ s[q[a]].date <= day
  BY <1>1, <1>2
<1>4. CASE q # <<>> /\ s[q[1]].date = day
  <2>1. /\ p \in Seq(LastOfDays(s)) /\ 1 \in DOMAIN q /\ DOMAIN p = 1 .. Len(q) - 1
        /\ \A a \in DOMAIN p : a + 1 \in DOMAIN q /\ p[a] = q[a + 1]
    <3>1. p = Tail(q)
      BY <1>4 DEF DaysBefore
    <3> QED
      BY <1>1, <1>4, <3>1
  <2>2. ASSUME NEW a \in DOMAIN p, NEW b \in DOMAIN p, a < b
        PROVE  s[p[a]].date > s[p[b]].date
    <3>1. a + 1 < b + 1 /\ p[a] = q[a + 1] /\ p[b] = q[b + 1]
          /\ a + 1 \in DOMAIN q /\ b + 1 \in DOMAIN q
      BY <2>1, <2>2, <1>3
    <3>2. s[q[a + 1]].date > s[q[b + 1]].date
      BY <1>1, <3>1, Zenon DEF Decreasing
    <3> QED
      BY <3>1, <3>2
  <2>3. \A a \in DOMAIN p : s[p[a]].date < day
    <3> SUFFICES ASSUME NEW a \in DOMAIN p PROVE s[p[a]].date < day
      OBVIOUS
    <3>1. 1 < a + 1 /\ a + 1 \in DOMAIN q /\ p[a] = q[a + 1]
      BY <2>1, <1>3
    <3>2. s[q[1]].date > s[q[a + 1]].date
      BY <1>1, <2>1, <3>1, Zenon DEF Decreasing
    <3> QED
      BY <1>3, <1>4, <3>1, <3>2
  <2>4. ASSUME NEW i \in LastOfDays(s), s[i].date # day PROVE \E a \in DOMAIN p : p[a] = i
    <3>1. PICK b \in DOMAIN q : q[b] = i
      BY <1>1
    <3>2. b # 1
      BY <1>4, <2>4, <3>1
    <3>3. b - 1 \in DOMAIN p /\ p[b - 1] = i
      BY <1>3, <2>1, <3>1, <3>2
    <3> QED
      BY <3>3
  <2> QED
    BY <2>1, <2>2, <2>3, <2>4 DEF Decreasing
<1>5. CASE ~(q # <<>> /\ s[q[1]].date = day)
  <2>1. p = q
    BY <1>5 DEF DaysBefore
  <2>2. ASSUME NEW a \in DOMAIN q PROVE s[q[a]].date < day
    <3>1. 1 \in DOMAIN q /\ s[q[1]].date < day
      BY <1>3, <1>5, <2>2
    <3>2. a # 1 => 1 < a
      BY <1>3, <2>2
    <3>3. a # 1 => s[q[1]].date > s[q[a]].date
      BY <1>1, <2>2, <3>1, <3>2, Zenon DEF Decreasing
    <3> QED
      BY <1>3, <3>1, <3>3
  <2> QED
    BY <1>1, <2>1, <2>2
<1> QED
  BY <1>4, <1>5

\* The list with a row more: the row, then the days before it.
LEMMA EnumeratesAppend ==
    ASSUME NEW s \in Seq(Snapshots), NEW q, Enumerates(q, s), NEW row \in Snapshots,
           \A i \in DOMAIN s : s[i].date <= row.date,
           NEW p, p = IF row.manual THEN <<>> ELSE DaysBefore(q, s, row.date)
    PROVE  Enumerates(<<Len(s) + 1>> \o p, Append(s, row))
<1> DEFINE t == Append(s, row)
           n == Len(s) + 1
           r == <<n>> \o p
<1>1. n \in Nat /\ t[n] = row /\ \A i \in DOMAIN s : t[i] = s[i]
  OBVIOUS
<1>2. row.date \in Nat \ {0} /\ row.manual \in BOOLEAN
  BY DEF Snapshots
<1> DEFINE kept == IF row.manual THEN {} ELSE {i \in LastOfDays(s) : s[i].date # row.date}
<1>3. LastOfDays(t) = kept \cup {n}
  BY LastOfAppend
<1>4. \A i \in kept : i \in DOMAIN s
  BY DaysAreRows
<1> HIDE DEF t
<1>5. /\ p \in Seq(kept) /\ Decreasing(p, s)
      /\ \A a \in DOMAIN p : s[p[a]].date < row.date
      /\ \A i \in kept : \E a \in DOMAIN p : p[a] = i
  <2>1. CASE row.manual
    BY <2>1 DEF Decreasing
  <2>2. CASE ~row.manual
    <3>1. /\ p \in Seq(LastOfDays(s)) /\ Decreasing(p, s)
          /\ \A a \in DOMAIN p : s[p[a]].date < row.date
          /\ \A i \in LastOfDays(s) : s[i].date # row.date => \E a \in DOMAIN p : p[a] = i
      BY <1>2, <2>2, DaysBeforeAre
    <3>2. \A a \in DOMAIN p : p[a] \in LastOfDays(s) /\ s[p[a]].date \in Nat
      BY <3>1, DaysAreRows
    <3>3. \A a \in DOMAIN p : p[a] \in kept
      BY <1>2, <2>2, <3>1, <3>2
    <3>4. p \in Seq(kept)
      <4>1. Len(p) \in Nat /\ p = [a \in 1 .. Len(p) |-> p[a]] /\ DOMAIN p = 1 .. Len(p)
        BY <3>1
      <4> HIDE DEF kept
      <4> QED
        BY <3>3, <4>1
    <3> QED
      BY <2>2, <3>1, <3>4
  <2> QED
    BY <2>1, <2>2
<1> HIDE DEF kept
<1>6. /\ r \in Seq(LastOfDays(t)) /\ Len(p) \in Nat
      /\ DOMAIN p = 1 .. Len(p) /\ DOMAIN r = 1 .. Len(p) + 1
      /\ r[1] = n /\ \A a \in DOMAIN p : r[a + 1] = p[a]
  <2>1. p \in Seq(LastOfDays(t)) /\ n \in LastOfDays(t)
    BY <1>3, <1>5
  <2> HIDE DEF n
  <2> QED
    BY <2>1
<1> HIDE DEF r, n
<1>7. Decreasing(r, t)
  <2> SUFFICES ASSUME NEW a \in DOMAIN r, NEW b \in DOMAIN r, a < b
               PROVE  t[r[a]].date > t[r[b]].date
    BY DEF Decreasing
  <2>1. b - 1 \in DOMAIN p /\ r[b] = p[b - 1]
    BY <1>6
  <2>2. t[r[b]] = s[p[b - 1]] /\ s[p[b - 1]].date < row.date
    BY <1>1, <1>4, <1>5, <2>1
  <2>3. CASE a = 1
    BY <1>1, <1>2, <1>6, <2>2, <2>3
  <2>4. CASE a # 1
    <3>1. a - 1 \in DOMAIN p /\ r[a] = p[a - 1] /\ a - 1 < b - 1
      BY <1>6, <2>4
    <3>2. t[r[a]] = s[p[a - 1]]
      BY <1>1, <1>4, <1>5, <3>1
    <3> QED
      BY <1>5, <2>1, <2>2, <3>1, <3>2 DEF Decreasing
  <2> QED
    BY <2>3, <2>4
<1>8. ASSUME NEW i \in LastOfDays(t) PROVE \E a \in DOMAIN r : r[a] = i
  <2>1. CASE i = n
    BY <1>6, <2>1
  <2>2. CASE i \in kept
    <3>1. PICK a \in DOMAIN p : p[a] = i
      BY <1>5, <2>2
    <3>2. a + 1 \in DOMAIN r /\ r[a + 1] = i
      BY <1>6, <3>1
    <3> QED
      BY <3>2
  <2> QED
    BY <1>3, <2>1, <2>2
<1> QED
  BY <1>6, <1>7, <1>8 DEF Enumerates, r, t, n

----------------------------------------------------------------------------
(* The book over the days *)

\* The equities the listed rows hold.
Closes(q, s) == [a \in 1 .. Len(q) |-> s[q[a]].equity]

\* prior is the first of the closes e, and streak counts the material losses in
\* a row from there on.
Follows(prior, streak, e) ==
    /\ prior = IF e = <<>> THEN 0 ELSE e[1]
    /\ streak \in Nat
    /\ \A m \in Nat \ {0} :
           streak >= m <=> m < Len(e) /\ \A k \in 1 .. m : Material(e[k + 1], e[k])

\* The book agrees with the days q of the table.
BookFits(b, q, s) ==
    /\ Enumerates(q, s)
    /\ q = <<>> => b = Blank
    /\ q # <<>> => /\ b.day = s[q[1]].date
                   /\ b.close = s[q[1]].equity
                   /\ Follows(b.prior, b.streak, Closes(Tail(q), s))

\* A list of days has a close for each.
LEMMA ClosesAreSeq ==
    ASSUME NEW s \in Seq(Snapshots), NEW q \in Seq(LastOfDays(s))
    PROVE  Closes(q, s) \in Seq(Nat) /\ Len(Closes(q, s)) = Len(q)
<1>1. Len(q) \in Nat /\ \A a \in 1 .. Len(q) : q[a] \in LastOfDays(s)
  OBVIOUS
<1>2. \A a \in 1 .. Len(q) : s[q[a]].equity \in Nat
  BY <1>1, DaysAreRows
<1> QED
  BY <1>1, <1>2 DEF Closes

\* Sequences equal place by place are equal.
LEMMA SameSequence ==
    ASSUME NEW S, NEW c \in Seq(S), NEW d \in Seq(S), Len(c) = Len(d),
           \A a \in 1 .. Len(c) : c[a] = d[a]
    PROVE  c = d
  OBVIOUS

\* Without a close there is no streak.
LEMMA FollowsNone == Follows(0, 0, <<>>)
  BY DEF Follows

\* A day more: it is the first of the closes, and it carries the streak on or
\* ends it.
LEMMA FollowsDay ==
    ASSUME NEW e \in Seq(Nat), NEW prior, NEW streak, Follows(prior, streak, e),
           NEW close \in Nat
    PROVE  Follows(close, IF Material(prior, close) THEN streak + 1 ELSE 0, <<close>> \o e)
<1> DEFINE d == <<close>> \o e
           next == IF Material(prior, close) THEN streak + 1 ELSE 0
<1>1. /\ Len(e) \in Nat /\ Len(d) = Len(e) + 1 /\ d # <<>> /\ d[1] = close
      /\ \A k \in 1 .. Len(e) : d[k + 1] = e[k] /\ e[k] \in Nat
      /\ e = <<>> <=> Len(e) = 0
  OBVIOUS
<1> HIDE DEF d
<1>2. /\ prior = IF e = <<>> THEN 0 ELSE e[1]
      /\ streak \in Nat
      /\ \A m \in Nat \ {0} :
             streak >= m <=> m < Len(e) /\ \A k \in 1 .. m : Material(e[k + 1], e[k])
  BY DEF Follows
<1>3. next \in Nat
  BY <1>2
<1>4. ASSUME NEW m \in Nat \ {0}
      PROVE  next >= m <=> m < Len(d) /\ \A k \in 1 .. m : Material(d[k + 1], d[k])
  <2>1. CASE ~Material(prior, close)
    <3>1. m < Len(d) => d[2] = prior /\ 1 \in 1 .. m
      BY <1>1, <1>2
    <3>2. ~(next >= m)
      BY <2>1
    <3> QED
      BY <1>1, <2>1, <3>1, <3>2
  <2>2. CASE Material(prior, close)
    <3>1. Len(e) > 0
      BY <1>1, <1>2, <2>2 DEF Material
    <3>2. d[2] = prior
      BY <1>1, <1>2, <3>1
    <3>3. CASE m = 1
      BY <1>1, <1>2, <2>2, <3>1, <3>2, <3>3
    <3>4. CASE m # 1
      <4> DEFINE n == m - 1
      <4>1. n \in Nat \ {0} /\ m = n + 1
        BY <3>4
      <4>2. next >= m <=> streak >= n
        BY <1>2, <2>2, <4>1
      <4>3. streak >= n <=> n < Len(e) /\ \A k \in 1 .. n : Material(e[k + 1], e[k])
        BY <1>2, <4>1
      <4>4. m < Len(d) <=> n < Len(e)
        BY <1>1, <4>1
      <4> HIDE DEF n
      <4>5. ASSUME n < Len(e)
            PROVE  (\A k \in 1 .. n : Material(e[k + 1], e[k]))
                       <=> \A k \in 1 .. m : Material(d[k + 1], d[k])
        <5>1. ASSUME NEW k \in 1 .. n
              PROVE  d[k + 1] = e[k] /\ d[(k + 1) + 1] = e[k + 1]
          <6>1. k \in 1 .. Len(e) /\ k + 1 \in 1 .. Len(e)
            BY <1>1, <4>1, <4>5
          <6> QED
            BY <1>1, <6>1
        <5>2. ASSUME \A k \in 1 .. n : Material(e[k + 1], e[k]), NEW k \in 1 .. m
              PROVE  Material(d[k + 1], d[k])
          <6>1. CASE k = 1
            BY <1>1, <2>2, <3>2, <6>1
          <6>2. CASE k # 1
            <7>1. k - 1 \in 1 .. n /\ (k - 1) + 1 = k
              BY <4>1, <6>2
            <7>2. d[k] = e[k - 1] /\ d[k + 1] = e[(k - 1) + 1]
              BY <5>1, <7>1
            <7> QED
              BY <5>2, <7>1, <7>2
          <6> QED
            BY <6>1, <6>2
        <5>3. ASSUME \A k \in 1 .. m : Material(d[k + 1], d[k]), NEW k \in 1 .. n
              PROVE  Material(e[k + 1], e[k])
          <6>1. k + 1 \in 1 .. m
            BY <4>1
          <6>2. Material(d[(k + 1) + 1], d[k + 1])
            BY <5>3, <6>1
          <6> QED
            BY <5>1, <6>2
        <5> QED
          BY <5>2, <5>3
      <4> QED
        BY <4>2, <4>3, <4>4, <4>5
    <3> QED
      BY <3>3, <3>4
  <2> QED
    BY <2>1, <2>2
<1> HIDE DEF next
<1>5. Follows(close, next, d)
  BY <1>1, <1>3, <1>4 DEF Follows
<1> QED
  BY <1>5 DEF next, d

\* A day turned leaves a book, with the peak it had.
LEMMA TurnIsBook ==
    ASSUME NEW b \in Books, NEW row \in Snapshots,
           NEW open, open = IF row.manual THEN Blank ELSE Turn(b, row.date)
    PROVE  open \in Books /\ open.peak = IF row.manual THEN 0 ELSE b.peak
<1>1. Blank \in Books /\ Blank.peak = 0
  BY DEF Blank, Books
<1>2. Turn(b, row.date) \in Books /\ Turn(b, row.date).peak = b.peak
  <2>1. /\ row.date \in Nat /\ b.close \in Nat /\ b.prior \in Nat
        /\ b.streak \in Nat /\ b.streak + 1 \in Nat
    BY DEF Books, Snapshots
  <2>2. (IF Material(b.prior, b.close) THEN b.streak + 1 ELSE 0) \in Nat
    BY <2>1
  <2> QED
    BY <2>1, <2>2 DEF Turn, Books
<1> QED
  BY <1>1, <1>2

\* The book turned to a day has the closes of the days before it.
LEMMA TurnFits ==
    ASSUME NEW s \in Seq(Snapshots), NEW b \in Books, NEW q, BookFits(b, q, s),
           NEW day \in Nat \ {0}, \A i \in DOMAIN s : s[i].date <= day,
           NEW p, p = DaysBefore(q, s, day), NEW c, c = Turn(b, day)
    PROVE  p \in Seq(LastOfDays(s)) /\ Follows(c.prior, c.streak, Closes(p, s))
<1>1. /\ q \in Seq(LastOfDays(s)) /\ Len(q) \in Nat
      /\ p \in Seq(LastOfDays(s)) /\ Enumerates(q, s)
  BY DaysBeforeAre DEF BookFits, Enumerates
<1>2. CASE q = <<>>
  <2>1. b = Blank /\ p = <<>>
    BY <1>2 DEF BookFits, DaysBefore
  <2>2. c.prior = 0 /\ c.streak = 0
    BY <2>1 DEF Turn, Blank
  <2>3. Closes(p, s) = <<>>
    BY <2>1 DEF Closes
  <2> QED
    BY <1>1, <2>2, <2>3, FollowsNone
<1>3. CASE q # <<>>
  <2>1. /\ b.day = s[q[1]].date /\ b.close = s[q[1]].equity
        /\ Follows(b.prior, b.streak, Closes(Tail(q), s))
    BY <1>3 DEF BookFits
  <2>2. q[1] \in LastOfDays(s) /\ Tail(q) \in Seq(LastOfDays(s)) /\ Len(Tail(q)) = Len(q) - 1
        /\ \A a \in 1 .. Len(q) - 1 : Tail(q)[a] = q[a + 1]
    BY <1>1, <1>3
  <2>3. b.day \in Nat \ {0} /\ b.close \in Nat
    BY <2>1, <2>2, DaysAreRows
  <2>4. CASE b.day = day
    <3>1. c = b /\ p = Tail(q)
      BY <1>3, <2>1, <2>4 DEF Turn, DaysBefore
    <3> QED
      BY <1>1, <2>1, <3>1
  <2>5. CASE b.day # day
    <3>1. p = q
      BY <2>1, <2>5 DEF DaysBefore
    <3>2. /\ c.prior = b.close
          /\ c.streak = IF Material(b.prior, b.close) THEN b.streak + 1 ELSE 0
      BY <2>3, <2>5 DEF Turn, Books
    <3> DEFINE e == Closes(Tail(q), s)
    <3>3. e \in Seq(Nat) /\ Len(e) = Len(q) - 1
      BY <2>2, ClosesAreSeq
    <3>4. Closes(q, s) = <<b.close>> \o e
      <4>1. Closes(q, s) \in Seq(Nat) /\ Len(Closes(q, s)) = Len(q)
        BY <1>1, ClosesAreSeq
      <4>2. /\ \A a \in 1 .. Len(q) : Closes(q, s)[a] = s[q[a]].equity
            /\ \A a \in 1 .. Len(q) - 1 : e[a] = s[q[a + 1]].equity
        BY <2>2 DEF Closes
      <4> HIDE DEF e
      <4> DEFINE d == <<b.close>> \o e
      <4>3. /\ d \in Seq(Nat) /\ Len(d) = Len(q) /\ d[1] = b.close
            /\ \A a \in 1 .. Len(q) - 1 : d[a + 1] = e[a]
        BY <1>1, <2>3, <3>3
      <4>4. ASSUME NEW a \in 1 .. Len(q) PROVE Closes(q, s)[a] = d[a]
        <5> HIDE DEF d
        <5>1. CASE a = 1
          BY <2>1, <4>2, <4>3, <5>1
        <5>2. CASE a # 1
          <6>1. a - 1 \in 1 .. Len(q) - 1 /\ (a - 1) + 1 = a
            BY <1>1, <5>2
          <6> QED
            BY <4>2, <4>3, <6>1
        <5> QED
          BY <5>1, <5>2
      <4> HIDE DEF d
      <4>5. Closes(q, s) = d
        BY <4>1, <4>3, <4>4, SameSequence
      <4> QED
        BY <4>5 DEF d
    <3> HIDE DEF e
    <3>5. Follows(b.close, IF Material(b.prior, b.close) THEN b.streak + 1 ELSE 0, Closes(q, s))
      BY <2>1, <2>3, <3>3, <3>4, FollowsDay DEF e
    <3> QED
      BY <1>1, <3>1, <3>2, <3>5
  <2> QED
    BY <2>4, <2>5
<1> QED
  BY <1>2, <1>3

\* A row posted keeps the book in agreement with the days.
LEMMA PostFits ==
    ASSUME NEW s \in Seq(Snapshots), NEW b \in Books, NEW q, BookFits(b, q, s),
           NEW row \in Snapshots, \A i \in DOMAIN s : s[i].date <= row.date
    PROVE  \E r : BookFits(Post(b, row), r, Append(s, row))
<1> DEFINE t == Append(s, row)
           n == Len(s) + 1
           p == IF row.manual THEN <<>> ELSE DaysBefore(q, s, row.date)
           r == <<n>> \o p
           open == IF row.manual THEN Blank ELSE Turn(b, row.date)
           new == Post(b, row)
<1>1. Enumerates(r, t)
  <2>1. Enumerates(q, s)
    BY DEF BookFits
  <2> HIDE DEF p
  <2>2. Enumerates(<<Len(s) + 1>> \o p, Append(s, row))
    BY <2>1, EnumeratesAppend DEF p
  <2> QED
    BY <2>2
<1>2. row.date \in Nat \ {0} /\ row.manual \in BOOLEAN /\ row.equity \in Nat
  BY DEF Snapshots
<1>3. p \in Seq(LastOfDays(s)) /\ Follows(open.prior, open.streak, Closes(p, s))
  <2>1. CASE row.manual
    <3>1. open.prior = 0 /\ open.streak = 0 /\ p = <<>> /\ Closes(p, s) = <<>>
      BY <2>1 DEF Blank, Closes
    <3> HIDE DEF p, open
    <3>2. p \in Seq(LastOfDays(s))
      BY <3>1
    <3> QED
      BY <3>1, <3>2, FollowsNone
  <2>2. CASE ~row.manual
    <3>1. p = DaysBefore(q, s, row.date) /\ open = Turn(b, row.date)
      BY <2>2
    <3> HIDE DEF p, open
    <3> QED
      BY <1>2, <3>1, TurnFits
  <2> QED
    BY <2>1, <2>2
<1>4. open \in Books
  BY <1>2, TurnIsBook
<1>5. new.day = row.date /\ new.close = row.equity /\ new.prior = open.prior
      /\ new.streak = open.streak
  <2>1. new = [open EXCEPT !.day = row.date, !.close = row.equity,
                           !.peak = Max({open.peak, row.equity})]
    BY DEF Post
  <2> HIDE DEF open
  <2> QED
    BY <1>4, <2>1 DEF Books
<1> HIDE DEF p, open, new
<1>6. r # <<>> /\ r[1] = n /\ Tail(r) = p
  BY <1>3
<1>7. t[n] = row /\ Closes(p, t) = Closes(p, s)
  <2>1. t[n] = row /\ \A i \in DOMAIN s : t[i] = s[i]
    OBVIOUS
  <2>2. Len(p) \in Nat /\ \A a \in 1 .. Len(p) : p[a] \in DOMAIN s
    <3>1. Len(p) \in Nat /\ \A a \in 1 .. Len(p) : p[a] \in LastOfDays(s)
      BY <1>3
    <3> QED
      BY <3>1, DaysAreRows
  <2> HIDE DEF t
  <2>3. \A a \in 1 .. Len(p) : t[p[a]] = s[p[a]]
    BY <2>1, <2>2
  <2> QED
    BY <2>1, <2>3 DEF Closes
<1> HIDE DEF t, r, n
<1>8. BookFits(new, r, t)
  BY <1>1, <1>3, <1>5, <1>6, <1>7 DEF BookFits
<1> QED
  BY <1>8 DEF new, t

----------------------------------------------------------------------------
(* What a check reads of the days, and the level it comes to *)

\* The history is the table's days, newest first, up to its limit.
LEMMA EquityHistoryIs ==
    ASSUME NEW s \in Seq(Snapshots), NEW q, Enumerates(q, s), NEW days \in Nat,
           NEW least, least = IF days <= Len(q) THEN days ELSE Len(q)
    PROVE  /\ EquityHistory(s, days) = [k \in 1 .. least |-> s[q[k]]]
           /\ EquityHistory(s, days) \in Seq(Snapshots)
<1>1. q \in Seq(LastOfDays(s)) /\ Len(q) \in Nat /\ least \in Nat /\ least <= Len(q)
  BY DEF Enumerates
<1>2. Min({days, Len(q)}) = least
  <2>1. least \in {days, Len(q)} /\ \A y \in {days, Len(q)} : least <= y
    BY <1>1
  <2>2. /\ Min({days, Len(q)}) \in {days, Len(q)}
        /\ \A y \in {days, Len(q)} : Min({days, Len(q)}) <= y
    BY <2>1 DEF Min
  <2> QED
    BY <1>1, <2>1, <2>2
<1>3. Cardinality(LastOfDays(s)) = Len(q) /\ NewestFirst(s) = q
  BY NewestFirstIs
<1>4. EquityHistory(s, days) = [k \in 1 .. least |-> s[q[k]]]
  BY <1>2, <1>3 DEF EquityHistory
<1>5. \A k \in 1 .. least : s[q[k]] \in Snapshots
  <2>1. \A k \in 1 .. least : q[k] \in LastOfDays(s)
    BY <1>1
  <2> QED
    BY <2>1, DaysAreRows
<1> QED
  BY <1>1, <1>4, <1>5

\* The first n of the listed rows.
RowsOf(p, n, s) == [k \in 1 .. n |-> s[p[k]]]

\* h holds the rows of p, all of them or all but one of `limit'.
HoldsDays(h, p, limit, s) ==
    \E n \in Nat : /\ n <= Len(p) /\ (n = Len(p) \/ n >= limit - 1)
                   /\ h = RowsOf(p, n, s)

\* Of that history evaluate keeps the days before today, all of them or all but
\* one of as many as it asked for.
LEMMA EarlierIs ==
    ASSUME NEW s \in Seq(Snapshots), NEW q, Enumerates(q, s), NEW day \in Nat,
           \A i \in DOMAIN s : s[i].date <= day,
           NEW p, p = DaysBefore(q, s, day), NEW limit \in Nat
    PROVE  HoldsDays(Earlier(EquityHistory(s, limit), day), p, limit, s)
<1> DEFINE least == IF limit <= Len(q) THEN limit ELSE Len(q)
           h == EquityHistory(s, limit)
           before == {k \in DOMAIN h : h[k].date < day}
<1>1. q \in Seq(LastOfDays(s)) /\ Len(q) \in Nat
  BY DEF Enumerates
<1>2. PICK off \in Nat :
          /\ off <= 1 /\ off <= Len(q) /\ (off = 1 => s[q[1]].date = day)
          /\ p \in Seq(LastOfDays(s)) /\ Len(p) = Len(q) - off
          /\ \A a \in 1 .. Len(p) : p[a] = q[a + off]
  <2>1. CASE q # <<>> /\ s[q[1]].date = day
    <3>1. p = Tail(q)
      BY <2>1 DEF DaysBefore
    <3>2. /\ 1 <= Len(q) /\ p \in Seq(LastOfDays(s)) /\ Len(p) = Len(q) - 1
          /\ \A a \in 1 .. Len(p) : p[a] = q[a + 1]
      BY <1>1, <2>1, <3>1
    <3> WITNESS 1 \in Nat
    <3> QED
      BY <2>1, <3>2
  <2>2. CASE ~(q # <<>> /\ s[q[1]].date = day)
    <3>1. p = q
      BY <2>2 DEF DaysBefore
    <3>2. \A a \in 1 .. Len(p) : a + 0 = a
      BY <1>1, <3>1
    <3>3. Len(p) = Len(q) - 0
      BY <1>1, <3>1
    <3> WITNESS 0 \in Nat
    <3> QED
      BY <1>1, <3>1, <3>2, <3>3
  <2> QED
    BY <2>1, <2>2
<1>3. \A a \in DOMAIN p : s[p[a]].date < day
  BY DaysBeforeAre
<1>4. PICK m \in Nat : m = least /\ m <= Len(q) /\ (m = Len(q) \/ m = limit)
  BY <1>1
<1>5. h = [k \in 1 .. m |-> s[q[k]]] /\ h \in Seq(Snapshots)
  <2>1. h = [k \in 1 .. least |-> s[q[k]]] /\ h \in Seq(Snapshots)
    BY EquityHistoryIs
  <2> HIDE DEF least, h
  <2> QED
    BY <1>4, <2>1
<1> HIDE DEF least, h
<1>6. PICK n \in Nat : n = IF m < off THEN 0 ELSE m - off
  <2>1. (IF m < off THEN 0 ELSE m - off) \in Nat
    BY <1>2, <1>4
  <2> QED
    BY <2>1
<1>7. n <= Len(p) /\ (n = Len(p) \/ n >= limit - 1)
  BY <1>1, <1>2, <1>4, <1>6
<1>8. before = off + 1 .. m
  <2> SUFFICES ASSUME NEW k \in 1 .. m
               PROVE  s[q[k]].date < day <=> k > off
    BY <1>2, <1>4, <1>5
  <2>1. CASE k > off
    <3>1. k - off \in 1 .. Len(p) /\ (k - off) + off = k
      BY <1>1, <1>2, <1>4, <2>1
    <3>2. k - off \in DOMAIN p /\ p[k - off] = q[k]
      BY <1>2, <3>1
    <3> QED
      BY <1>3, <2>1, <3>2
  <2>2. CASE ~(k > off)
    <3>1. off = 1 /\ k = 1
      BY <1>2, <2>2
    <3> QED
      BY <1>2, <2>2, <3>1
  <2> QED
    BY <2>1, <2>2
<1>9. Earlier(h, day) = IF before = {} THEN <<>> ELSE SubSeq(h, Min(before), Len(h))
  BY DEF Earlier
<1> HIDE DEF before
<1>10. Earlier(h, day) = [k \in 1 .. n |-> s[p[k]]]
  <2>1. CASE m <= off
    <3>1. before = {} /\ n = 0
      BY <1>2, <1>4, <1>6, <1>8, <2>1
    <3> QED
      BY <1>9, <3>1
  <2>2. CASE m > off
    <3>1. off + 1 \in before /\ \A k \in before : off + 1 <= k
      BY <1>2, <1>4, <1>8, <2>2
    <3>2. Min(before) = off + 1
      <4>1. Min(before) \in before /\ \A k \in before : Min(before) <= k
        BY <3>1 DEF Min
      <4> QED
        BY <1>2, <1>8, <3>1, <4>1
    <3>3. Len(h) = m /\ \A k \in 1 .. m : h[k] = s[q[k]]
      BY <1>4, <1>5
    <3>4. Earlier(h, day) = SubSeq(h, off + 1, m)
      BY <1>9, <3>1, <3>2, <3>3
    <3>5. n = m - off
      BY <1>2, <1>4, <1>6, <2>2
    <3> DEFINE sub == SubSeq(h, off + 1, m)
               rest == [k \in 1 .. n |-> s[p[k]]]
    <3>6. /\ sub \in Seq(Snapshots) /\ Len(sub) = n
          /\ \A k \in 1 .. n : sub[k] = h[k + off]
      BY <1>2, <1>4, <1>5, <2>2, <3>3, <3>5
    <3>7. ASSUME NEW k \in 1 .. n PROVE h[k + off] = s[p[k]]
      <4>1. k + off \in 1 .. m /\ k \in 1 .. Len(p)
        BY <1>1, <1>2, <1>4, <1>7, <3>5
      <4> QED
        BY <1>2, <3>3, <4>1
    <3> HIDE DEF sub
    <3>8. \A k \in 1 .. n : s[p[k]] \in Snapshots
      <4>1. \A k \in 1 .. n : p[k] \in LastOfDays(s)
        BY <1>2, <1>7
      <4> QED
        BY <4>1, DaysAreRows
    <3>9. rest \in Seq(Snapshots) /\ Len(rest) = n /\ \A k \in 1 .. n : rest[k] = s[p[k]]
      BY <3>8
    <3> HIDE DEF rest
    <3>10. sub = rest
      <4>1. \A k \in 1 .. n : sub[k] = rest[k]
        BY <3>6, <3>7, <3>9
      <4> QED
        BY <3>6, <3>9, <4>1, SameSequence
    <3> QED
      BY <3>4, <3>10 DEF sub, rest
  <2> QED
    BY <1>2, <1>4, <2>1, <2>2
<1> QED
  BY <1>7, <1>10 DEF h, RowsOf, HoldsDays

\* The streak reaches m exactly when the m newest days are material losses.
LEMMA LosingDaysReach ==
    ASSUME NEW series \in Seq(Nat), series # <<>>, NEW m \in Nat \ {0}
    PROVE  LosingDays(series) >= m
               <=> m < Len(series) /\ \A k \in 1 .. m : Material(series[k + 1], series[k])
<1> DEFINE S == {0} \cup {n \in 1 .. Len(series) - 1 :
                            \A k \in 1 .. n : Material(series[k + 1], series[k])}
<1>1. Len(series) \in Nat /\ S \in SUBSET Nat
  OBVIOUS
<1>2. IsFiniteSet(S)
  <2>1. S \subseteq 0 .. Len(series)
    BY <1>1
  <2>2. IsFiniteSet(0 .. Len(series))
    BY <1>1, FS_Interval
  <2> HIDE DEF S
  <2> QED
    BY <2>1, <2>2, FS_Subset
<1>3. Max(S) \in S /\ \A y \in S : y <= Max(S)
  <2>1. S # {}
    OBVIOUS
  <2> HIDE DEF S
  <2> QED
    BY <1>1, <1>2, <2>1, MaxOfFinite
<1>4. LosingDays(series) = Max(S)
  BY DEF LosingDays
<1>5. ASSUME Max(S) >= m
      PROVE  m < Len(series) /\ \A k \in 1 .. m : Material(series[k + 1], series[k])
  <2> DEFINE top == Max(S)
  <2>1. top \in S /\ top >= m
    BY <1>3, <1>5
  <2> HIDE DEF top
  <2>2. top \in 1 .. Len(series) - 1 /\ \A k \in 1 .. top : Material(series[k + 1], series[k])
    BY <2>1
  <2> QED
    BY <1>1, <2>1, <2>2
<1>6. ASSUME m < Len(series), \A k \in 1 .. m : Material(series[k + 1], series[k])
      PROVE  Max(S) >= m
  <2>1. m \in S
    BY <1>1, <1>6
  <2> HIDE DEF S
  <2> QED
    BY <1>1, <1>3, <2>1
<1> HIDE DEF S
<1> QED
  BY <1>4, <1>5, <1>6

\* What evaluate makes of the closes it kept is what the book makes of all of
\* them: a daily loss is measured from the first, and a streak that matters
\* lies within the days read.
LEMMA ClosesSuffice ==
    ASSUME NEW e \in Seq(Nat), NEW prior, NEW streak, Follows(prior, streak, e),
           NEW n \in Nat, n <= Len(e), n = Len(e) \/ n >= LosingDaysHalt + 1,
           NEW closes \in Seq(Nat), Len(closes) = n, \A k \in 1 .. n : closes[k] = e[k],
           NEW now \in Nat
    PROVE  /\ (IF closes # <<>> /\ closes[1] > 0 THEN LossPct(closes[1], now) ELSE 0) >= L1Loss
                  <=> Fallen(prior, now, L1Loss)
           /\ LosingDays(<<now>> \o closes) >= LosingDaysHalt
                  <=> (IF Material(prior, now) THEN streak + 1 ELSE 0) >= LosingDaysHalt
<1>1. /\ Len(e) \in Nat /\ \A k \in 1 .. Len(e) : e[k] \in Nat
      /\ L1Loss \in Nat \ {0} /\ LosingDaysHalt \in Nat \ {0}
  BY ThresholdAssumption
<1>2. /\ closes \in Seq(Nat) /\ Len(closes) = n
      /\ \A k \in 1 .. n : closes[k] = e[k]
      /\ (closes = <<>> <=> n = 0) /\ (e = <<>> <=> Len(e) = 0)
  BY <1>1
<1>3. (IF closes # <<>> /\ closes[1] > 0 THEN LossPct(closes[1], now) ELSE 0) >= L1Loss
          <=> Fallen(prior, now, L1Loss)
  <2>1. CASE n = 0
    <3>1. closes = <<>> /\ Len(e) = 0 /\ prior = 0
      BY <1>1, <1>2, <2>1 DEF Follows
    <3>2. ~Fallen(prior, now, L1Loss)
      BY <3>1 DEF Fallen
    <3> QED
      BY <1>1, <3>1, <3>2
  <2>2. CASE n # 0
    <3>1. closes # <<>> /\ 1 \in 1 .. n /\ Len(e) # 0
      BY <1>1, <1>2, <2>2
    <3>2. closes[1] = e[1] /\ e[1] \in Nat
      BY <1>1, <1>2, <3>1
    <3>3. prior = closes[1]
      BY <1>2, <3>1, <3>2 DEF Follows
    <3>4. CASE prior > 0
      <4>1. LossPct(prior, now) >= L1Loss <=> Fallen(prior, now, L1Loss)
        BY <1>1, <3>2, <3>3, <3>4, LossPctIsFall
      <4> QED
        BY <3>1, <3>3, <3>4, <4>1
    <3>5. CASE ~(prior > 0)
      <4>1. ~Fallen(prior, now, L1Loss)
        BY <3>5 DEF Fallen
      <4> QED
        BY <1>1, <3>3, <3>5, <4>1
    <3> QED
      BY <3>4, <3>5
  <2> QED
    BY <2>1, <2>2
<1> DEFINE d == <<now>> \o e
           c == <<now>> \o closes
           next == IF Material(prior, now) THEN streak + 1 ELSE 0
           m == LosingDaysHalt
<1>4. /\ Len(d) = Len(e) + 1 /\ Len(c) = n + 1 /\ c \in Seq(Nat) /\ c # <<>>
      /\ \A k \in 1 .. n + 1 : c[k] = d[k]
  <2>1. /\ Len(d) = Len(e) + 1 /\ d[1] = now
        /\ \A k \in 1 .. Len(e) : d[k + 1] = e[k]
    OBVIOUS
  <2>2. /\ Len(c) = n + 1 /\ c \in Seq(Nat) /\ c # <<>> /\ c[1] = now
        /\ \A k \in 1 .. n : c[k + 1] = closes[k]
    BY <1>2
  <2> HIDE DEF c, d
  <2>3. ASSUME NEW k \in 1 .. n + 1 PROVE c[k] = d[k]
    <3>1. CASE k = 1
      BY <2>1, <2>2, <3>1
    <3>2. CASE k # 1
      <4>1. k - 1 \in 1 .. n /\ k - 1 \in 1 .. Len(e) /\ (k - 1) + 1 = k
        BY <1>1, <3>2
      <4> QED
        BY <1>2, <2>1, <2>2, <4>1
    <3> QED
      BY <3>1, <3>2
  <2> QED
    BY <2>1, <2>2, <2>3
<1>5. next >= m <=> m < Len(d) /\ \A k \in 1 .. m : Material(d[k + 1], d[k])
  <2>1. Follows(now, next, d)
    BY FollowsDay
  <2> HIDE DEF next, d
  <2> QED
    BY <1>1, <2>1 DEF Follows
<1>6. LosingDays(c) >= m <=> m < Len(c) /\ \A k \in 1 .. m : Material(c[k + 1], c[k])
  <2> HIDE DEF c
  <2> QED
    BY <1>1, <1>4, LosingDaysReach
<1> HIDE DEF c, d, next
<1>7. m < Len(c) <=> m < Len(d)
  BY <1>1, <1>4
<1>8. ASSUME m < Len(c), NEW k \in 1 .. m
      PROVE  c[k] = d[k] /\ c[k + 1] = d[k + 1]
  <2>1. k \in 1 .. n + 1 /\ k + 1 \in 1 .. n + 1
    BY <1>1, <1>4, <1>8
  <2> QED
    BY <1>4, <2>1
<1>9. LosingDays(c) >= m <=> next >= m
  BY <1>5, <1>6, <1>7, <1>8
<1> QED
  BY <1>3, <1>9 DEF c, next

----------------------------------------------------------------------------
(***************************************************************************)
(* The invariant.  The book agrees with the days of the table, and its     *)
(* peak is the high-water mark; a history once read is still the table's,  *)
(* or a marker has come; a level the file reaches from 2 on is latched,    *)
(* and what a check has judged and not yet written is backed by the table. *)
(***************************************************************************)

PeakIsMark == IsGreatest(book.peak, Recorded(snapshots))

DeepLatches == file \in HaltStates /\ file.level >= 2 => file.requires_manual_reset

DrawnIsHalted ==
    drawn => file = Unreadable \/ (file \in HaltStates /\ file.level >= 2)

JudgedByTable ==
    stage = "update" /\ ev.level = 3 =>
        /\ equity > 0
        /\ \E i \in DOMAIN snapshots : Fallen(snapshots[i].equity, equity, L3Drawdown)

DeepIsJudged == deep => stage = "update" /\ ev.level >= 2

DatesPast == \A i \in DOMAIN snapshots : snapshots[i].date <= today

BookIsTable == \E q : BookFits(book, q, snapshots)

\* No check takes a snapshot while one is under way: only a marker can come in
\* between the reading of the history and the judgement.
HistoryRead ==
    stage = "judge" /\ equity > 0 =>
        Last(snapshots).manual \/ history = EquityHistory(snapshots, LosingDaysHalt + 2)

WatchInv ==
    /\ TypeOK /\ PeakIsMark /\ DeepLatches /\ DrawnIsHalted /\ JudgedByTable /\ DeepIsJudged
    /\ DatesPast /\ BookIsTable /\ HistoryRead

\* What a check writes is a halt state again, and a latched one stays latched.
LEMMA UpdatedIsState ==
    ASSUME NEW state \in HaltStates, NEW e \in Evaluations, NEW day \in Nat \ {0},
           state.level >= 2 => state.requires_manual_reset,
           NEW eff, eff = EffectiveLevel(state, e, day),
           NEW new, new = UpdatedState(state, e, day)
    PROVE  /\ new \in HaltStates
           /\ new.level = eff
           /\ new.fail_closed = e.fail_closed
           /\ new.level >= 2 => new.requires_manual_reset
           /\ eff \in {state.level, e.level, 1}
           /\ eff >= e.level
           /\ state.level >= 2 => eff >= 2
<1>1. /\ state.level \in 0 .. 3 /\ state.requires_manual_reset \in BOOLEAN
      /\ state.reason \in Reasons /\ state.trigger_date \in Nat
      /\ e.level \in 0 .. 3 /\ e.fail_closed \in BOOLEAN
  BY DEF HaltStates, Evaluations, Levels
<1>2. /\ eff \in {state.level, e.level, 1}
      /\ eff >= e.level
      /\ state.level >= 2 => eff >= 2
      /\ eff \in 0 .. 3
  BY <1>1 DEF EffectiveLevel, Higher
<1>3. CASE eff = state.level
  <2>1. new = [state EXCEPT !.fail_closed = e.fail_closed]
    BY <1>3 DEF UpdatedState
  <2> QED
    BY <1>1, <1>2, <1>3, <2>1 DEF HaltStates
<1>4. CASE eff # state.level
  <2> DEFINE latch == eff >= 2 \/ (state.requires_manual_reset /\ eff > 0)
             day0 == IF eff > state.level THEN day ELSE state.trigger_date
             why == IF eff = 0 THEN "none" ELSE "breach"
  <2>1. new = [level |-> eff, reason |-> why, trigger_date |-> day0,
               requires_manual_reset |-> latch, fail_closed |-> e.fail_closed]
    BY <1>4 DEF UpdatedState
  <2>2. day0 \in Nat /\ why \in Reasons /\ latch \in BOOLEAN
    BY <1>1 DEF Reasons
  <2>3. eff >= 2 => latch
    OBVIOUS
  <2> HIDE DEF latch, day0, why
  <2>4. new \in HaltStates
    BY <1>1, <1>2, <2>1, <2>2 DEF HaltStates, Levels
  <2>5. new.level = eff /\ new.fail_closed = e.fail_closed /\ new.requires_manual_reset = latch
    BY <2>1
  <2> QED
    BY <1>2, <2>3, <2>4, <2>5
<1> QED
  BY <1>3, <1>4

\* What a read that decodes yields.
LEMMA ReadIsState == \A f \in Files : f # Unreadable => ReadHaltState(f) \in HaltStates
  BY DEF Files, ReadHaltState, DefaultState, HaltStates, Levels, Reasons, NoDate

\* A row more: the book follows the mark, whatever the row and the stage.
LEMMA RecordKeeps ==
    ASSUME TypeOK, PeakIsMark, DatesPast, BookIsTable,
           NEW row \in Snapshots, row.date = today, today' = today, Record(row)
    PROVE  /\ snapshots' \in Seq(Snapshots) /\ book' \in Books
           /\ PeakIsMark' /\ DatesPast' /\ BookIsTable'
           /\ Last(snapshots') = row
           /\ \A i \in DOMAIN snapshots : i \in DOMAIN snapshots' /\ snapshots'[i] = snapshots[i]
<1> DEFINE open == IF row.manual THEN Blank ELSE Turn(book, row.date)
<1>1. open \in Books /\ open.peak = IF row.manual THEN 0 ELSE book.peak
  BY TurnIsBook DEF TypeOK
<1>2. /\ snapshots' = Append(snapshots, row)
      /\ book' = [open EXCEPT !.day = row.date, !.close = row.equity,
                              !.peak = Max({open.peak, row.equity})]
  BY DEF Record, Post
<1>3. IsGreatest(Max({IF row.manual THEN 0 ELSE book.peak, row.equity}),
                 Recorded(Append(snapshots, row)))
  BY GreatestOfAppend DEF TypeOK, PeakIsMark, Books
<1>4. book'.peak = Max({IF row.manual THEN 0 ELSE book.peak, row.equity})
  <2> HIDE DEF open
  <2> QED
    BY <1>1, <1>2 DEF Books
<1>5. book'.peak \in Nat
  <2>1. \A y \in Recorded(Append(snapshots, row)) : y \in Nat
    <3>1. Append(snapshots, row) \in Seq(Snapshots)
      BY DEF TypeOK
    <3> DEFINE t == Append(snapshots, row)
    <3>2. t \in Seq(Snapshots)
      BY <3>1
    <3> HIDE DEF t
    <3>3. Len(t) \in Nat /\ \A i \in 1 .. Len(t) : t[i] \in Snapshots
      BY <3>2
    <3>4. \A i \in 1 .. Len(t) : t[i].equity \in Nat
      BY <3>3 DEF Snapshots
    <3>5. EpochId(t) \in 1 .. Len(t) + 1
      BY <3>2, EpochIsNewestMark
    <3> QED
      BY <3>3, <3>4, <3>5 DEF Recorded, t
  <2> QED
    BY <1>3, <1>4, <2>1 DEF IsGreatest
<1>6. book' \in Books
  <2> HIDE DEF open
  <2> QED
    BY <1>1, <1>2, <1>4, <1>5 DEF Books, Snapshots
<1>7. /\ snapshots' \in Seq(Snapshots) /\ Len(snapshots') = Len(snapshots) + 1
      /\ DOMAIN snapshots' = DOMAIN snapshots \cup {Len(snapshots) + 1}
      /\ snapshots'[Len(snapshots) + 1] = row
      /\ \A i \in DOMAIN snapshots : i \in DOMAIN snapshots' /\ snapshots'[i] = snapshots[i]
  <2>1. snapshots \in Seq(Snapshots) /\ snapshots' = Append(snapshots, row)
    BY <1>2 DEF TypeOK
  <2> QED
    BY <2>1
<1>8. DatesPast'
  <2>1. today \in Nat
    BY DEF TypeOK
  <2> QED
    BY <1>7, <2>1 DEF DatesPast
<1>9. BookIsTable'
  <2>1. PICK q : BookFits(book, q, snapshots)
    BY DEF BookIsTable
  <2>2. \A i \in DOMAIN snapshots : snapshots[i].date <= row.date
    BY DEF DatesPast
  <2>3. book \in Books /\ snapshots \in Seq(Snapshots)
    BY DEF TypeOK
  <2>4. \E r : BookFits(Post(book, row), r, Append(snapshots, row))
    BY <2>1, <2>2, <2>3, PostFits
  <2>5. book' = Post(book, row) /\ snapshots' = Append(snapshots, row)
    BY DEF Record
  <2> QED
    BY <2>4, <2>5 DEF BookIsTable
<1>10. Last(snapshots') = row
  BY <1>7 DEF Last
<1> QED
  BY <1>3, <1>4, <1>2, <1>6, <1>7, <1>8, <1>9, <1>10 DEF PeakIsMark

\* The high-water mark evaluate reads is the book's peak.
LEMMA MarkIsPeak ==
    ASSUME WatchInv
    PROVE  HighWaterMark(snapshots) = book.peak
<1>1. Recorded(snapshots) \in SUBSET Nat
  <2>1. Len(snapshots) \in Nat /\ \A i \in 1 .. Len(snapshots) : snapshots[i] \in Snapshots
    BY DEF WatchInv, TypeOK
  <2>2. \A i \in 1 .. Len(snapshots) : snapshots[i].equity \in Nat
    BY <2>1 DEF Snapshots
  <2>3. EpochId(snapshots) \in 1 .. Len(snapshots) + 1
    BY EpochIsNewestMark DEF WatchInv, TypeOK
  <2> QED
    BY <2>1, <2>2, <2>3 DEF Recorded
<1> QED
  BY <1>1, GreatestIsMax DEF HighWaterMark, Recorded, WatchInv, PeakIsMark

\* A rounded drawdown reaches a threshold exactly on a fall of that depth.
LEMMA DrawdownIsFall ==
    ASSUME NEW mark \in Nat, NEW now \in Nat, NEW pct \in {L2Drawdown, L3Drawdown}
    PROVE  (IF mark > 0 THEN LossPct(mark, now) ELSE 0) >= pct <=> Fallen(mark, now, pct)
<1>1. pct \in Nat /\ pct > 0
  BY ThresholdAssumption
<1>2. CASE mark > 0
  BY <1>1, <1>2, LossPctIsFall
<1>3. CASE ~(mark > 0)
  BY <1>1, <1>3 DEF Fallen
<1> QED
  BY <1>2, <1>3

\* A judgement is backed by the table, and a deep one is a hard halt.
LEMMA JudgeStep ==
    ASSUME WatchInv, Judge
    PROVE  /\ ev' \in Evaluations
           /\ deep' \in BOOLEAN
           /\ DeepIsJudged'
           /\ JudgedByTable'
<1> DEFINE hwm == HighWaterMark(snapshots)
<1>1. hwm = book.peak
  BY MarkIsPeak
<1>2. hwm \in Nat /\ hwm \in Recorded(snapshots)
  BY <1>1 DEF WatchInv, TypeOK, Books, PeakIsMark, IsGreatest
<1> HIDE DEF hwm
<1>3. /\ ev' = Verdict(equity, history, hwm, today)
      /\ deep' = (equity > 0 /\ Fallen(hwm, equity, L2Drawdown))
      /\ stage' = "update"
      /\ UNCHANGED <<file, snapshots, equity>>
  <2>1. /\ ev' = Verdict(equity, history, HighWaterMark(snapshots), today)
        /\ stage' = "update"
        /\ UNCHANGED <<file, snapshots, equity>>
    BY DEF Judge, table
  <2>2. deep' = (equity > 0 /\ Fallen(book.peak, equity, L2Drawdown))
    BY Zenon DEF Judge
  <2>3. deep' = (equity > 0 /\ Fallen(hwm, equity, L2Drawdown))
    BY <1>1, <2>2, Zenon
  <2> QED
    BY <2>1, <2>3 DEF hwm
<1>4. ev' \in Evaluations
  BY <1>3, VerdictIsEvaluation
<1>5. equity \in Int
  BY DEF WatchInv, TypeOK, NoEquity
<1>6. ASSUME equity > 0, NEW pct \in {L2Drawdown, L3Drawdown}
      PROVE  (IF hwm > 0 THEN LossPct(hwm, equity) ELSE 0) >= pct <=> Fallen(hwm, equity, pct)
  <2>1. equity \in Nat
    BY <1>5, <1>6
  <2> QED
    BY <1>2, <2>1, DrawdownIsFall
<1>7. ASSUME equity > 0
      PROVE  /\ ev'.level = 3 <=> Fallen(hwm, equity, L3Drawdown)
             /\ Fallen(hwm, equity, L2Drawdown) => ev'.level >= 2
  <2> DEFINE drawdown == IF hwm > 0 THEN LossPct(hwm, equity) ELSE 0
  <2>1. ev'.level = LevelOf(equity, history, hwm, today)
    BY <1>3, <1>5, <1>7 DEF Verdict
  <2>2. /\ drawdown >= L3Drawdown <=> Fallen(hwm, equity, L3Drawdown)
        /\ drawdown >= L2Drawdown <=> Fallen(hwm, equity, L2Drawdown)
    BY <1>6, <1>7
  <2> HIDE DEF drawdown
  <2>3. LevelOf(equity, history, hwm, today) \in 0 .. 3 /\
        (LevelOf(equity, history, hwm, today) = 3 <=> drawdown >= L3Drawdown) /\
        (drawdown >= L2Drawdown => LevelOf(equity, history, hwm, today) >= 2)
    BY DEF LevelOf, drawdown
  <2> QED
    BY <2>1, <2>2, <2>3
<1>8. ev'.level = 3 => equity > 0
  BY <1>3, <1>5 DEF Verdict
<1>9. ASSUME ev'.level = 3
      PROVE  \E i \in DOMAIN snapshots : Fallen(snapshots[i].equity, equity, L3Drawdown)
  <2>1. Fallen(hwm, equity, L3Drawdown) /\ hwm > 0
    BY <1>7, <1>8, <1>9 DEF Fallen
  <2>2. PICK i \in EpochId(snapshots) .. Len(snapshots) : hwm = snapshots[i].equity
    BY <1>2, <2>1 DEF Recorded
  <2>3. i \in DOMAIN snapshots
    <3>1. EpochId(snapshots) \in 1 .. Len(snapshots) + 1 /\ DOMAIN snapshots = 1 .. Len(snapshots)
          /\ Len(snapshots) \in Nat
      BY EpochIsNewestMark DEF WatchInv, TypeOK
    <3> QED
      BY <2>2, <3>1
  <2> QED
    BY <2>1, <2>2, <2>3
<1>10. deep' => ev'.level >= 2
  BY <1>3, <1>7
<1> QED
  BY <1>3, <1>4, <1>8, <1>9, <1>10 DEF JudgedByTable, DeepIsJudged

\* The level judged is the one the book gives, unless a marker came last.
LEMMA JudgeDeserves ==
    ASSUME WatchInv, Judge, equity > 0, ~Last(snapshots).manual
    PROVE  ev'.level = Deserved(book, equity, today)
<1> DEFINE closes == [k \in DOMAIN Earlier(history, today) |-> Earlier(history, today)[k].equity]
           current == Turn(book, today)
           mark == book.peak
           drawdown == IF mark > 0 THEN LossPct(mark, equity) ELSE 0
           dayLoss == IF closes # <<>> /\ closes[1] > 0 THEN LossPct(closes[1], equity) ELSE 0
           next == IF Material(current.prior, equity) THEN current.streak + 1 ELSE 0
<1>1. /\ snapshots \in Seq(Snapshots) /\ book \in Books /\ mark \in Nat
      /\ today \in Nat \ {0} /\ equity \in Nat
      /\ LosingDaysHalt \in Nat \ {0}
  BY ThresholdAssumption DEF WatchInv, TypeOK, Books, NoEquity
<1>2. PICK q : BookFits(book, q, snapshots)
  BY DEF WatchInv, BookIsTable
<1>3. Enumerates(q, snapshots)
  BY <1>2 DEF BookFits
<1>4. \A i \in DOMAIN snapshots : snapshots[i].date <= today
  BY DEF WatchInv, DatesPast
<1>5. PICK p : p = DaysBefore(q, snapshots, today)
  OBVIOUS
<1> DEFINE e == Closes(p, snapshots)
<1>6. p \in Seq(LastOfDays(snapshots)) /\ Follows(current.prior, current.streak, e)
  BY <1>1, <1>2, <1>4, <1>5, TurnFits
<1>7. e \in Seq(Nat) /\ Len(e) = Len(p) /\ Len(p) \in Nat
      /\ \A k \in 1 .. Len(p) : e[k] = snapshots[p[k]].equity
  BY <1>1, <1>6, ClosesAreSeq DEF Closes
<1>8. history = EquityHistory(snapshots, LosingDaysHalt + 2)
  BY DEF WatchInv, HistoryRead, Judge
<1>9. PICK n \in Nat :
          /\ n <= Len(p) /\ (n = Len(p) \/ n >= (LosingDaysHalt + 2) - 1)
          /\ Earlier(history, today) = RowsOf(p, n, snapshots)
  <2>1. LosingDaysHalt + 2 \in Nat /\ today \in Nat
    BY <1>1
  <2>2. HoldsDays(Earlier(history, today), p, LosingDaysHalt + 2, snapshots)
    BY <1>1, <1>3, <1>4, <1>5, <1>8, <2>1, EarlierIs
  <2> QED
    BY <2>2 DEF HoldsDays
<1> HIDE DEF e
<1>10. closes \in Seq(Nat) /\ Len(closes) = n /\ \A k \in 1 .. n : closes[k] = e[k]
  <2>1. closes = [k \in 1 .. n |-> e[k]]
    BY <1>7, <1>9 DEF RowsOf
  <2>2. \A k \in 1 .. n : e[k] \in Nat
    BY <1>7, <1>9
  <2> HIDE DEF closes
  <2> QED
    BY <2>1, <2>2
<1> HIDE DEF closes, current
<1>11. /\ dayLoss >= L1Loss <=> Fallen(current.prior, equity, L1Loss)
       /\ LosingDays(<<equity>> \o closes) >= LosingDaysHalt <=> next >= LosingDaysHalt
  <2>1. n <= Len(e) /\ (n = Len(e) \/ n >= LosingDaysHalt + 1)
    BY <1>1, <1>7, <1>9
  <2>2. PICK prior, streak : prior = current.prior /\ streak = current.streak
    OBVIOUS
  <2>3. Follows(prior, streak, e) /\ e \in Seq(Nat) /\ equity \in Nat
    BY <1>1, <1>6, <1>7, <2>2
  <2>4. /\ (IF closes # <<>> /\ closes[1] > 0 THEN LossPct(closes[1], equity) ELSE 0) >= L1Loss
                  <=> Fallen(prior, equity, L1Loss)
        /\ LosingDays(<<equity>> \o closes) >= LosingDaysHalt
                  <=> (IF Material(prior, equity) THEN streak + 1 ELSE 0) >= LosingDaysHalt
    BY <1>10, <2>1, <2>3, ClosesSuffice
  <2> QED
    BY <2>2, <2>4
<1>12. /\ drawdown >= L3Drawdown <=> Fallen(mark, equity, L3Drawdown)
       /\ drawdown >= L2Drawdown <=> Fallen(mark, equity, L2Drawdown)
  <2> HIDE DEF mark
  <2> QED
    BY <1>1, DrawdownIsFall
<1> HIDE DEF drawdown, dayLoss, next
<1>13. ev'.level = LevelOf(equity, history, mark, today)
  <2>1. ev' = Verdict(equity, history, mark, today)
    BY MarkIsPeak DEF Judge
  <2>2. ~(equity <= 0)
    BY <1>1
  <2> QED
    BY <2>1, <2>2 DEF Verdict
<1>14. LevelOf(equity, history, mark, today)
           = IF drawdown >= L3Drawdown THEN 3
             ELSE IF drawdown >= L2Drawdown THEN 2
             ELSE IF \/ dayLoss >= L1Loss
                     \/ LosingDays(<<equity>> \o closes) >= LosingDaysHalt THEN 1
             ELSE 0
  BY DEF LevelOf, drawdown, dayLoss, closes
<1>15. Deserved(book, equity, today)
           = IF Fallen(mark, equity, L3Drawdown) THEN 3
             ELSE IF Fallen(mark, equity, L2Drawdown) THEN 2
             ELSE IF Fallen(current.prior, equity, L1Loss) \/ next >= LosingDaysHalt THEN 1
             ELSE 0
  BY DEF Deserved, current, next
<1> QED
  BY <1>11, <1>12, <1>13, <1>14, <1>15

\* Each action keeps the invariant.
LEMMA WatchInvStep == WatchInv /\ [Next]_vars => WatchInv'
<1> SUFFICES ASSUME WatchInv, [Next]_vars PROVE WatchInv'
  OBVIOUS
<1> USE WatchAssumption DEF WatchInv
<1>1. ASSUME NEW row \in Snapshots, row.date = today, Record(row),
             UNCHANGED <<file, today, history, ev, deep, drawn>>,
             \/ row.manual /\ UNCHANGED <<stage, equity>>
             \/ /\ stage = "idle" /\ stage' # "update"
                /\ stage' = "judge" => ~(equity' > 0),
             stage' \in {"idle", "history", "judge", "update"},
             equity' \in Nat \cup {NoEquity}
      PROVE  WatchInv'
  <2>1. /\ snapshots' \in Seq(Snapshots) /\ book' \in Books
        /\ PeakIsMark' /\ DatesPast' /\ BookIsTable'
        /\ Last(snapshots') = row
        /\ \A i \in DOMAIN snapshots : i \in DOMAIN snapshots' /\ snapshots'[i] = snapshots[i]
    BY <1>1, RecordKeeps
  <2>2. TypeOK'
    BY <1>1, <2>1 DEF TypeOK
  <2>3. DeepLatches' /\ DrawnIsHalted' /\ DeepIsJudged'
    BY <1>1 DEF DeepLatches, DrawnIsHalted, DeepIsJudged
  <2>4. JudgedByTable'
    BY <1>1, <2>1 DEF JudgedByTable
  <2>5. HistoryRead'
    BY <1>1, <2>1 DEF HistoryRead
  <2> QED
    BY <2>1, <2>2, <2>3, <2>4, <2>5
<1>2. CASE Snapshot
  <2>1. /\ stage = "idle" /\ stage' = (IF equity' <= 0 THEN "judge" ELSE "history")
        /\ UNCHANGED <<file, today, history, ev, deep, drawn>>
    BY <1>2 DEF Snapshot
  <2>2. CASE \E e \in Equities :
                /\ Record([date |-> today, equity |-> e, manual |-> FALSE])
                /\ equity' = e
    <3>1. PICK e \in Equities :
             Record([date |-> today, equity |-> e, manual |-> FALSE]) /\ equity' = e
      BY <2>2
    <3>2. [date |-> today, equity |-> e, manual |-> FALSE] \in Snapshots
      BY DEF Snapshots, TypeOK
    <3>3. stage' = "judge" => ~(equity' > 0)
      BY <2>1, <3>1
    <3> QED
      BY <1>1, <2>1, <3>1, <3>2, <3>3
  <2>3. CASE equity' = NoEquity /\ UNCHANGED table
    BY <2>1, <2>3
       DEF table, TypeOK, PeakIsMark, DeepLatches, DrawnIsHalted, JudgedByTable, DeepIsJudged,
           DatesPast, BookIsTable, HistoryRead, NoEquity
  <2> QED
    BY <1>2, <2>2, <2>3 DEF Snapshot
<1>3. CASE ReadHistory
  <2>1. /\ stage = "history" /\ stage' = "judge"
        /\ history' = EquityHistory(snapshots, LosingDaysHalt + 2)
        /\ UNCHANGED <<file, today, snapshots, book, equity, ev, deep, drawn>>
    BY <1>3 DEF ReadHistory, table
  <2>2. history' \in Seq(Snapshots)
    <3>1. PICK q : Enumerates(q, snapshots)
      BY DEF BookIsTable, BookFits
    <3>2. LosingDaysHalt + 2 \in Nat /\ snapshots \in Seq(Snapshots)
      BY ThresholdAssumption DEF TypeOK
    <3> QED
      BY <2>1, <3>1, <3>2, EquityHistoryIs
  <2>3. TypeOK'
    BY <2>1, <2>2 DEF TypeOK
  <2>4. HistoryRead'
    BY <2>1, Zenon DEF HistoryRead
  <2> QED
    BY <2>1, <2>3, <2>4
       DEF PeakIsMark, DeepLatches, DrawnIsHalted, JudgedByTable, DeepIsJudged, DatesPast,
           BookIsTable
<1>4. CASE Judge
  <2>1. ev' \in Evaluations /\ deep' \in BOOLEAN /\ DeepIsJudged' /\ JudgedByTable'
    BY <1>4, JudgeStep
  <2>2. stage' = "update" /\ UNCHANGED <<file, today, snapshots, book, equity, history, drawn>>
    BY <1>4 DEF Judge, table
  <2> QED
    BY <2>1, <2>2
       DEF TypeOK, PeakIsMark, DeepLatches, DrawnIsHalted, DatesPast, BookIsTable, HistoryRead
<1>5. ASSUME Return, UNCHANGED <<today, table>>,
             file' \in Files, DeepLatches', drawn' \in BOOLEAN, DrawnIsHalted'
      PROVE  WatchInv'
  <2>1. NoVerdict \in Evaluations
    BY DEF NoVerdict, Evaluations, Levels
  <2>2. <<>> \in Seq(Snapshots)
    OBVIOUS
  <2>3. /\ stage' = "idle" /\ equity' = NoEquity /\ history' = <<>> /\ ev' = NoVerdict
        /\ deep' = FALSE /\ UNCHANGED <<today, snapshots, book>>
    BY <1>5 DEF Return, table
  <2>4. TypeOK'
    BY <1>5, <2>1, <2>2, <2>3, Zenon DEF TypeOK
  <2> QED
    BY <1>5, <2>3, <2>4
       DEF PeakIsMark, JudgedByTable, DeepIsJudged, DatesPast, BookIsTable, HistoryRead
<1>6. CASE Update
  <2>1. /\ stage = "update" /\ Return /\ UNCHANGED <<today, table>>
        /\ file' = (IF file = Unreadable THEN file
                    ELSE UpdatedState(ReadHaltState(file), ev, today))
        /\ drawn' = (drawn \/ deep)
    BY <1>6 DEF Update
  <2>2. drawn' \in BOOLEAN
    BY <2>1 DEF TypeOK
  <2>3. CASE file = Unreadable
    BY <1>5, <2>1, <2>2, <2>3, SentinelAssumption DEF TypeOK, DeepLatches, DrawnIsHalted
  <2>4. CASE file # Unreadable
    <3> DEFINE state == ReadHaltState(file)
               eff == EffectiveLevel(state, ev, today)
    <3>1. state \in HaltStates
      BY <2>4, ReadIsState DEF TypeOK
    <3>2. state.level >= 2 => state.requires_manual_reset
      BY <2>4 DEF DeepLatches, TypeOK, Files, ReadHaltState, DefaultState
    <3>3. drawn => state.level >= 2
      BY <2>4, SentinelAssumption DEF DrawnIsHalted, ReadHaltState
    <3>4. file' = UpdatedState(state, ev, today)
      BY <2>1, <2>4
    <3>5. ev \in Evaluations /\ today \in Nat \ {0}
      BY DEF TypeOK
    <3> HIDE DEF state
    <3>6. /\ file' \in HaltStates
          /\ file'.level = eff
          /\ file'.level >= 2 => file'.requires_manual_reset
          /\ eff >= ev.level
          /\ state.level >= 2 => eff >= 2
      BY <3>1, <3>2, <3>4, <3>5, UpdatedIsState
    <3> HIDE DEF eff
    <3>7. eff \in Nat /\ ev.level \in Nat
      BY <3>5, <3>6 DEF HaltStates, Levels, Evaluations
    <3>8. drawn' => drawn \/ deep
      BY <2>1, Zenon
    <3>9. drawn' => file'.level >= 2
      BY <3>3, <3>6, <3>7, <3>8 DEF DeepIsJudged
    <3> QED
      BY <1>5, <2>1, <2>2, <3>6, <3>9 DEF Files, DeepLatches, DrawnIsHalted
  <2> QED
    BY <2>3, <2>4
<1>7. CASE Raise
  <2>1. Return /\ UNCHANGED <<file, drawn>> /\ UNCHANGED <<today, table>>
    BY <1>7 DEF Raise
  <2>2. file' \in Files /\ drawn' \in BOOLEAN
    BY <2>1 DEF TypeOK
  <2>3. DeepLatches' /\ DrawnIsHalted'
    BY <2>1 DEF DeepLatches, DrawnIsHalted
  <2> QED
    BY <1>5, <2>1, <2>2, <2>3
<1>8. CASE ManualReset
  <2>1. DefaultState \in HaltStates /\ DefaultState.level = 0
    BY DEF DefaultState, HaltStates, Levels, Reasons, NoDate
  <2>2. /\ file' = DefaultState /\ drawn' = FALSE
        /\ UNCHANGED <<today, snapshots, book, stage, equity, history, ev, deep>>
    BY <1>8 DEF ManualReset, table, checkVars
  <2>3. TypeOK'
    BY <2>1, <2>2 DEF TypeOK, Files
  <2>4. /\ PeakIsMark' /\ JudgedByTable' /\ DeepIsJudged'
        /\ DatesPast' /\ BookIsTable' /\ HistoryRead'
    BY <2>2 DEF PeakIsMark, JudgedByTable, DeepIsJudged, DatesPast, BookIsTable, HistoryRead
  <2>5. DeepLatches' /\ DrawnIsHalted'
    BY <2>1, <2>2 DEF DeepLatches, DrawnIsHalted
  <2> QED
    BY <2>3, <2>4, <2>5
<1>9. CASE MarkEpoch
  <2>1. PICK e \in Marks : Record([date |-> today, equity |-> e, manual |-> TRUE])
    BY <1>9 DEF MarkEpoch
  <2>2. [date |-> today, equity |-> e, manual |-> TRUE] \in Snapshots
    BY DEF Snapshots, TypeOK
  <2>3. UNCHANGED <<file, today, history, ev, deep, drawn, stage, equity>>
    BY <1>9 DEF MarkEpoch, checkVars
  <2> QED
    BY <1>1, <2>1, <2>2, <2>3 DEF TypeOK
<1>10. CASE Tick
  <2>1. /\ today' = today + 1
        /\ UNCHANGED <<file, snapshots, book, stage, equity, history, ev, deep, drawn>>
    BY <1>10 DEF Tick, table, checkVars
  <2>2. DatesPast'
    <3>1. \A i \in DOMAIN snapshots : snapshots[i] \in Snapshots
      BY DEF TypeOK
    <3>2. today \in Nat /\ \A i \in DOMAIN snapshots : snapshots[i].date \in Nat
      BY <3>1 DEF TypeOK, Snapshots
    <3> QED
      BY <2>1, <3>2 DEF DatesPast
  <2>3. TypeOK'
    BY <2>1 DEF TypeOK
  <2> QED
    BY <2>1, <2>2, <2>3
       DEF PeakIsMark, DeepLatches, DrawnIsHalted, JudgedByTable, DeepIsJudged, BookIsTable,
           HistoryRead
<1>11. CASE Corrupt
  BY <1>11, SentinelAssumption
     DEF Corrupt, table, checkVars, Files, TypeOK, PeakIsMark, DeepLatches, DrawnIsHalted,
         JudgedByTable, DeepIsJudged, DatesPast, BookIsTable, HistoryRead
<1>12. CASE UNCHANGED vars
  BY <1>12
     DEF vars, table, checkVars, TypeOK, PeakIsMark, DeepLatches, DrawnIsHalted,
         JudgedByTable, DeepIsJudged, DatesPast, BookIsTable, HistoryRead
<1> QED
  BY <1>2, <1>3, <1>4, <1>6, <1>7, <1>8, <1>9, <1>10, <1>11, <1>12 DEF Next

\* WatchInv holds throughout every run.
LEMMA WatchInvHolds == Spec => []WatchInv
<1>1. Init => WatchInv
  <2> SUFFICES ASSUME Init PROVE WatchInv
    OBVIOUS
  <2>1. TypeOK
    <3>1. Missing \in Files /\ Blank \in Books /\ NoVerdict \in Evaluations
      BY DEF Files, Books, Blank, NoVerdict, Evaluations, Levels
    <3>2. << >> \in Seq(Snapshots)
      OBVIOUS
    <3>3. today \in Nat \ {0}
      BY DEF Init
    <3> QED
      BY <3>1, <3>2, <3>3, Zenon DEF Init, TypeOK
  <2>2. PeakIsMark
    <3>1. snapshots = <<>> /\ book.peak = 0
      BY DEF Init, Blank
    <3>2. EpochId(snapshots) = 1
      BY <3>1 DEF EpochId
    <3> QED
      BY <3>1, <3>2 DEF PeakIsMark, IsGreatest, Recorded
  <2>3. BookIsTable
    <3>1. EpochId(<<>>) = 1
      BY DEF EpochId
    <3>2. LastOfDays(<<>>) = {}
      BY <3>1 DEF LastOfDays
    <3>3. BookFits(Blank, <<>>, <<>>)
      BY <3>2 DEF BookFits, Enumerates, Decreasing
    <3> QED
      BY <3>3 DEF Init, BookIsTable
  <2> QED
    BY <2>1, <2>2, <2>3, SentinelAssumption
       DEF Init, WatchInv, DeepLatches, DrawnIsHalted, JudgedByTable, DeepIsJudged, DatesPast,
           HistoryRead
<1> QED
  BY <1>1, WatchInvStep, PTL DEF Spec

----------------------------------------------------------------------------
(* The theorems *)

\* Every value of every variable is of the type TypeOK gives it (EquityWatch).
THEOREM TypeCorrect == Spec => []TypeOK
<1>1. WatchInv => TypeOK
  BY DEF WatchInv
<1> QED
  BY <1>1, WatchInvHolds, PTL

\* A check brings to the halt state the level the rows deserve when they are
\* posted one by one: the limited history, the per-day closes, the marker and the
\* rounding lose nothing of the whole table (evaluate, get_equity_history,
\* get_high_water_mark).
THEOREM VerdictsDeserved == Spec => VerdictIsTheLosses
<1> DEFINE Deserves == Judge /\ equity > 0 /\ ~Last(snapshots).manual
                           => ev'.level = Deserved(book, equity, today)
<1>1. WatchInv => Deserves
  BY JudgeDeserves
<1>2. WatchInv => [Deserves]_vars
  BY <1>1
<1> QED
  BY <1>2, WatchInvHolds, PTL DEF VerdictIsTheLosses

\* No outage and no empty account ever flattens: a step to level 3 has a positive
\* equity and a recorded one that far above it (evaluate, check_and_update).
THEOREM FlattenNeedsDrawdown == Spec => []FlattenHasItsDrawdown
<1>1. WatchInv => FlattenHasItsDrawdown
  <2> SUFFICES ASSUME WatchInv, Flattens
               PROVE  /\ equity > 0
                      /\ \E i \in DOMAIN snapshots :
                             Fallen(snapshots[i].equity, equity, L3Drawdown)
    BY DEF FlattenHasItsDrawdown
  <2> DEFINE state == ReadHaltState(file)
             eff == EffectiveLevel(state, ev, today)
  <2>1. /\ stage = "update" /\ file # Unreadable /\ state.level < 3
        /\ UpdatedState(state, ev, today).level = 3
    BY DEF Flattens, Answer
  <2>2. state \in HaltStates /\ ev \in Evaluations /\ today \in Nat \ {0}
    BY <2>1, ReadIsState DEF WatchInv, TypeOK
  <2>3. state.level >= 2 => state.requires_manual_reset
    BY <2>1 DEF WatchInv, DeepLatches, TypeOK, Files, ReadHaltState, DefaultState
  <2> HIDE DEF state
  <2>4. eff = 3 /\ eff \in {state.level, ev.level, 1}
    BY <2>1, <2>2, <2>3, UpdatedIsState
  <2>5. ev.level = 3
    BY <2>1, <2>4
  <2> QED
    BY <2>1, <2>5 DEF WatchInv, JudgedByTable
<1> QED
  BY <1>1, WatchInvHolds, PTL

\* A drawdown of a hard halt, once a check has ended on it, keeps the gate closed
\* until an operator's reset (evaluate, check_and_update, entries_allowed).
THEOREM DrawdownHalts == Spec => []DrawdownClosesGate
<1>1. WatchInv => DrawdownClosesGate
  <2> SUFFICES ASSUME WatchInv, drawn, file # Unreadable PROVE ~EntriesAllowed(file, today)
    BY SentinelAssumption DEF DrawdownClosesGate, EntriesAllowed, ReadHaltState
  <2>1. file \in HaltStates /\ file.level >= 2
    BY DEF WatchInv, DrawnIsHalted
  <2>2. ReadHaltState(file) = file
    BY <2>1, SentinelAssumption DEF ReadHaltState
  <2> QED
    BY <2>1, <2>2 DEF EntriesAllowed, HaltStates, Levels
<1> QED
  BY <1>1, WatchInvHolds, PTL

\* An answer that does not block entries leaves the gate open: a state the gate
\* fails closed on never reads like a clean answer (check_and_update, run).
THEOREM AnswerMatchesGate == Spec => AnswerAgreesWithGate
<1> DEFINE Agrees == Update /\ ~BlocksEntries(Answer) => EntriesAllowed(file, today)'
<1>1. WatchInv => Agrees
  <2> SUFFICES ASSUME WatchInv, Update, ~BlocksEntries(Answer)
               PROVE  EntriesAllowed(file, today)'
    OBVIOUS
  <2> DEFINE state == ReadHaltState(file)
             eff == EffectiveLevel(state, ev, today)
  <2>1. file # Unreadable
    <3> SUFFICES ASSUME file = Unreadable PROVE FALSE
      OBVIOUS
    <3>1. Answer = [ev EXCEPT !.fail_closed = TRUE]
      BY DEF Answer
    <3>2. Answer.fail_closed
      BY <3>1 DEF WatchInv, TypeOK, Evaluations
    <3> QED
      BY <3>2 DEF BlocksEntries
  <2>2. state \in HaltStates /\ ev \in Evaluations /\ today \in Nat \ {0}
    BY <2>1, ReadIsState DEF WatchInv, TypeOK
  <2>3. state.level >= 2 => state.requires_manual_reset
    BY <2>1 DEF WatchInv, DeepLatches, TypeOK, Files, ReadHaltState, DefaultState
  <2>4. file' = UpdatedState(state, ev, today)
    BY <2>1 DEF Update
  <2> HIDE DEF state
  <2>5. /\ file' \in HaltStates /\ file'.fail_closed = ev.fail_closed
    BY <2>2, <2>3, <2>4, UpdatedIsState
  <2>6. Answer = [level |-> file'.level, fail_closed |-> ev.fail_closed]
    BY <2>1, <2>4 DEF Answer, state
  <2>7. ~(file'.level >= 1) /\ ~file'.fail_closed /\ file'.level \in 0 .. 3
    BY <2>5, <2>6 DEF BlocksEntries, HaltStates, Levels
  <2> QED
    BY <2>5, <2>7, SentinelAssumption DEF EntriesAllowed, ReadHaltState
<1>2. WatchInv => [Agrees]_vars
  BY <1>1
<1> QED
  BY <1>2, WatchInvHolds, PTL DEF AnswerAgreesWithGate
============================================================================
