---------------------------- MODULE BarFold_proofs ----------------------------
(***************************************************************************)
(* Proofs about BarFold, for every set of feeds, every length of a day and *)
(* every stream: no bucket is given out that is not whole, one whose bars  *)
(* came in order is, the days are those of the Gregorian calendar, and two *)
(* aggregators in a row give the bars that one gives.                      *)
(***************************************************************************)
EXTENDS BarHops, TLAPS

-----------------------------------------------------------------------------
(* Arithmetic. *)

\* What division by a positive number gives.
LEMMA QuotientIsInt ==
  ASSUME NEW a \in Int, NEW d \in Nat \ {0}
  PROVE  /\ a \div d \in Int
         /\ a = d * (a \div d) + (a % d)
         /\ a % d \in Int /\ 0 <= a % d /\ a % d < d
  OBVIOUS

\* Products of integers are integers.
LEMMA ProductIsInt == \A a \in Int, b \in Int : a * b \in Int
  OBVIOUS

\* Rounding gives an integer.
LEMMA RoundDownIsInt ==
  ASSUME NEW a \in Int, NEW d \in Nat \ {0}
  PROVE  RoundDown(a, d) \in Int
  BY QuotientIsInt, ProductIsInt DEF RoundDown

\* A quotient without remainder undoes the product.
LEMMA ExactQuotient ==
  ASSUME NEW a \in Int, NEW d \in Nat \ {0}, a % d = 0
  PROVE  (a \div d) * d = a
  <1>1. a = d * (a \div d)  BY QuotientIsInt
  <1>2. a \div d \in Int  BY QuotientIsInt
  <1>3. d * (a \div d) = (a \div d) * d  BY <1>2
  <1> QED BY <1>1, <1>3

\* A divisor divides every multiple.
LEMMA MultipleDivides ==
  ASSUME NEW a \in Int, NEW n \in Int, NEW d \in Nat \ {0}, a % d = 0
  PROVE  ((n * a) \div d) * d = n * a
  <1> DEFINE q == a \div d
  <1>1. q \in Int /\ a = q * d  BY ExactQuotient, QuotientIsInt
  <1> HIDE DEF q
  <1>2. n * a = (n * q) * d  BY <1>1
  <1>3. n * q \in Int  BY <1>1, ProductIsInt
  <1> DEFINE m == n * q
  <1>4. m \in Int  BY <1>3
  <1>5. n * a = m * d  BY <1>2
  <1> HIDE DEF m
  <1>6. (m * d) \div d = m  BY <1>4
  <1> QED BY <1>5, <1>6

\* Multiplying by a positive number keeps the order, and at least its distance.
LEMMA ProductsInOrder ==
  ASSUME NEW a \in Int, NEW b \in Int, NEW d \in Nat \ {0}
  PROVE  /\ a <= b => a * d <= b * d
         /\ a < b => a * d + d <= b * d
<1>1. \E n \in Int : n = b - a
  OBVIOUS
<1>2. PICK n \in Int : b = a + n
  BY <1>1
<1>3. b * d = a * d + n * d /\ a * d \in Int /\ n * d \in Int
  BY <1>2
<1>4. n >= 0 => n * d >= 0
  OBVIOUS
<1>5. n >= 1 => n * d >= d
  <2> SUFFICES ASSUME n >= 1 PROVE n * d >= d
    OBVIOUS
  <2>1. (n - 1) * d >= 0
    OBVIOUS
  <2>2. n * d = (n - 1) * d + d
    OBVIOUS
  <2> QED
    BY <2>1, <2>2, <1>3
<1>6. a <= b => a * d <= b * d
  BY <1>2, <1>3, <1>4
<1>7. a < b => a * d + d <= b * d
  BY <1>2, <1>3, <1>5
<1> QED
  BY <1>6, <1>7

\* Rounding finds the multiple that n is at, or just after.
LEMMA RoundedHolds ==
  ASSUME NEW n \in Int, NEW s \in Nat \ {0}
  PROVE  /\ RoundDown(n, s) \in Int
         /\ RoundDown(n, s) <= n /\ n < RoundDown(n, s) + s
<1> DEFINE q == n \div s
<1>1. q \in Int /\ n = s * q + (n % s) /\ n % s \in Int /\ 0 <= n % s /\ n % s < s
  BY QuotientIsInt
<1> HIDE DEF q
<1>2. s * q = q * s /\ q * s \in Int
  BY <1>1
<1> QED
  BY <1>1, <1>2 DEF RoundDown, q

\* Multiples of s round to themselves, and so does what lies before the next.
LEMMA RoundedIsUnique ==
  ASSUME NEW n \in Int, NEW k \in Int, NEW s \in Nat \ {0}
  PROVE  /\ RoundDown(n, s) <= k /\ k < RoundDown(n, s) + s => RoundDown(k, s) = RoundDown(n, s)
         /\ RoundDown(n, s) + s <= k => RoundDown(n, s) + s <= RoundDown(k, s)
<1> DEFINE p == n \div s
           q == k \div s
<1>1. p \in Int /\ q \in Int
  BY QuotientIsInt
<1>2. RoundDown(n, s) = p * s /\ RoundDown(k, s) = q * s
  BY DEF RoundDown
<1>3. /\ q * s <= k /\ k < q * s + s
      /\ p * s \in Int /\ q * s \in Int
  BY <1>2, RoundedHolds
<1> HIDE DEF p, q
<1>4. p < q => p * s + s <= q * s
  BY <1>1, ProductsInOrder
<1>5. q < p => q * s + s <= p * s
  BY <1>1, ProductsInOrder
<1>6. ASSUME p * s <= k, k < p * s + s PROVE p = q
  BY <1>1, <1>3, <1>4, <1>5, <1>6
<1>7. ASSUME p * s + s <= k PROVE p < q
  <2>1. p # q
    BY <1>3, <1>7
  <2> QED
    BY <1>1, <1>3, <1>5, <1>7, <2>1
<1>8. ASSUME p * s + s <= k PROVE p * s + s <= q * s
  BY <1>4, <1>7, <1>8
<1> QED
  BY <1>2, <1>6, <1>8

-----------------------------------------------------------------------------
(***************************************************************************)
(* The calendar.  It is read as a count of years that begin in March, so   *)
(* that a leap day is the last of its year: a day is the doy-th of year y, *)
(* in one way only (CivilOfDay), and month 12y + mp + 2 begins MarchStart  *)
(* (mp) days into it.                                                      *)
(***************************************************************************)
\* The day on which the March year y begins; the months of one, the first of which is March.
YearStart(y) == 365 * y + y \div 4 - y \div 100 + y \div 400
MarchMonth(doy) == (5 * doy + 2) \div 153
MarchStart(mp) == (153 * mp + 2) \div 5

\* The year computed for a day of an era has begun by then.
LEMMA YearNotLate ==
  ASSUME NEW doe \in Int, 0 <= doe, doe <= 146096
  PROVE  YearStart(YearOfEra(doe)) <= doe
  BY SMTT(100) DEF YearOfEra, YearStart

\* And it has not ended.
LEMMA YearNotEarly ==
  ASSUME NEW doe \in Int, 0 <= doe, doe <= 146096
  PROVE  doe < YearStart(YearOfEra(doe) + 1)
  BY SMTT(100) DEF YearOfEra, YearStart

\* Together: the year of a day of an era.
LEMMA YearFound ==
  ASSUME NEW doe \in Int, 0 <= doe, doe <= 146096
  PROVE  /\ YearOfEra(doe) \in Int /\ 0 <= YearOfEra(doe) /\ YearOfEra(doe) <= 399
         /\ YearStart(YearOfEra(doe)) <= doe
         /\ doe < YearStart(YearOfEra(doe) + 1)
<1>1. YearOfEra(doe) \in Int /\ 0 <= YearOfEra(doe) /\ YearOfEra(doe) <= 399
  BY DEF YearOfEra
<1> QED
  BY <1>1, YearNotLate, YearNotEarly

\* A year is at least 365 days.
LEMMA YearsGrow ==
  ASSUME NEW y \in Int, NEW z \in Int, y < z
  PROVE  YearStart(y) + 365 <= YearStart(z)
  BY DEF YearStart

\* Years begin one after the other.
LEMMA YearsInOrder ==
  ASSUME NEW y \in Int, NEW z \in Int, y <= z
  PROVE  YearStart(y) <= YearStart(z) /\ YearStart(y) \in Int
  BY DEF YearStart

\* A March year ends with the leap day of the next one.
LEMMA YearLength ==
  ASSUME NEW y \in Int
  PROVE  YearStart(y + 1) - YearStart(y) = IF IsLeap(y + 1) THEN 366 ELSE 365
  BY DEF YearStart, IsLeap

\* The month computed for a day of a year holds it.
LEMMA MarchMonths ==
  ASSUME NEW doy \in Int, 0 <= doy, doy <= 365
  PROVE  /\ MarchMonth(doy) \in Int /\ 0 <= MarchMonth(doy) /\ MarchMonth(doy) <= 11
         /\ MarchStart(MarchMonth(doy)) <= doy
         /\ doy < MarchStart(MarchMonth(doy) + 1)
  BY DEF MarchMonth, MarchStart

\* And is found again from its first day.
LEMMA MarchMonthStarts ==
  ASSUME NEW mp \in Int, 0 <= mp, mp <= 11
  PROVE  /\ MarchStart(mp) \in Int /\ 0 <= MarchStart(mp) /\ MarchStart(mp) <= 337
         /\ MarchMonth(MarchStart(mp)) = mp
  BY DEF MarchMonth, MarchStart

\* Months begin one after the other.
LEMMA MonthsGrow ==
  ASSUME NEW m \in Int, NEW n \in Int, m < n
  PROVE  MonthStart(m) < MonthStart(n)
  BY SMTT(60) DEF MonthStart, DaysFromCivil


\* Days from the first of March of the year 0 to the epoch.
Epoch == 719468

\* The only thing the proofs need to know of this number.
LEMMA EpochIsInt == Epoch \in Int
  BY SMT DEF Epoch

\* The day that is the doy-th of the year that begins in March of year y.
IsDay(d, y, doy) ==
  /\ y \in Int /\ doy \in Int
  /\ 0 <= doy /\ doy < YearStart(y + 1) - YearStart(y)
  /\ d + Epoch = YearStart(y) + doy

\* Every day is a day of some March year.
LEMMA CivilIsDay ==
  ASSUME NEW d \in Int
  PROVE  \E y, doy \in Int : IsDay(d, y, doy) /\ CivilFromDays(d) = CivilFromMarch(y, doy)
<1> DEFINE era == (d + Epoch) \div 146097
           doe == (d + Epoch) % 146097
           yoe == YearOfEra(doe)
           y   == yoe + era * 400
           doy == DayOfYear(doe, yoe)
<1>1. /\ era \in Int /\ doe \in Int /\ 0 <= doe /\ doe <= 146096
      /\ d + Epoch = era * 146097 + doe
  BY SMT DEF Epoch
<1>2. CivilFromDays(d) = CivilFromMarch(y, doy)
  BY SMT DEF CivilFromDays, CivilFromEra, Epoch
<1> HIDE DEF era, doe
<1>3. /\ yoe \in Int /\ 0 <= yoe /\ yoe <= 399
      /\ YearStart(yoe) <= doe /\ doe < YearStart(yoe + 1)
  BY <1>1, YearFound
<1> HIDE DEF yoe
<1>4. /\ YearStart(y) = YearStart(yoe) + era * 146097
      /\ YearStart(y + 1) = YearStart(yoe + 1) + era * 146097
  BY <1>1, <1>3, SMT DEF YearStart
<1>5. doy = doe - YearStart(yoe) /\ doy \in Int
  BY <1>1, <1>3 DEF YearStart, DayOfYear
<1>6. y \in Int /\ YearStart(yoe) \in Int /\ YearStart(yoe + 1) \in Int
  BY <1>1, <1>3 DEF YearStart
<1> HIDE DEF y, doy
<1>7. IsDay(d, y, doy)
  BY <1>1, <1>3, <1>4, <1>5, <1>6, SMT DEF IsDay
<1> QED
  BY <1>2, <1>5, <1>6, <1>7

\* And of one only: whichever way it is written, its date is that.
LEMMA CivilOfDay ==
  ASSUME NEW d \in Int, NEW y, NEW doy, IsDay(d, y, doy)
  PROVE  CivilFromDays(d) = CivilFromMarch(y, doy)
<1>1. PICK z, n \in Int : IsDay(d, z, n) /\ CivilFromDays(d) = CivilFromMarch(z, n)
  BY CivilIsDay
<1>2. \A a, b \in Int : YearStart(a) \in Int
  BY DEF YearStart
<1>a. y \in Int /\ y + 1 \in Int /\ z + 1 \in Int
  BY DEF IsDay
<1>3. y = z
  <2>1. CASE y < z
    <3>1. YearStart(y + 1) <= YearStart(z)
      BY <1>a, <2>1, YearsInOrder
    <3> QED
      BY <1>1, <1>2, <3>1, EpochIsInt DEF IsDay
  <2>2. CASE z < y
    <3>1. YearStart(z + 1) <= YearStart(y)
      BY <1>a, <2>2, YearsInOrder
    <3> QED
      BY <1>1, <1>2, <3>1, EpochIsInt DEF IsDay
  <2> QED
    BY <1>1, <2>1, <2>2 DEF IsDay
<1>4. doy = n
  BY <1>1, <1>2, <1>3, EpochIsInt DEF IsDay
<1> QED
  BY <1>1, <1>3, <1>4

\* From a date back to its day.
LEMMA DaysOfCivil ==
  ASSUME NEW d \in Int, NEW y, NEW doy, IsDay(d, y, doy), NEW c, c = CivilFromMarch(y, doy)
  PROVE  DaysFromCivil(c.year, c.month, c.day) = d
<1> DEFINE mp == (5 * doy + 2) \div 153
           year == IF mp < 10 THEN y ELSE y + 1
           month == IF mp < 10 THEN mp + 3 ELSE mp - 9
           day == doy - (153 * mp + 2) \div 5 + 1
<1>1. c.year = year /\ c.month = month /\ c.day = day
  BY DEF CivilFromMarch
<1>2. y \in Int /\ doy \in Int /\ 0 <= doy /\ doy <= 365 /\ d + Epoch = YearStart(y) + doy
  BY DEF IsDay, YearStart
<1>3. DaysFromCivil(year, month, day) = d
  BY <1>2, SMTT(60) DEF DaysFromCivil, YearStart, Epoch
<1> QED
  BY <1>1, <1>3

\* A month counted from March: the first of it, and the month of a day.
LEMMA MonthStartIsDay ==
  ASSUME NEW y \in Int, NEW mp \in Int, 0 <= mp, mp <= 11
  PROVE  IsDay(MonthStart(12 * y + mp + 2), y, MarchStart(mp))
<1>1. MarchStart(mp) \in Int /\ 0 <= MarchStart(mp) /\ MarchStart(mp) <= 337
  BY MarchMonthStarts
<1>2. MonthStart(12 * y + mp + 2) + Epoch = YearStart(y) + MarchStart(mp)
  BY SMTT(60) DEF MonthStart, DaysFromCivil, YearStart, MarchStart, Epoch
<1>3. YearStart(y) + 365 <= YearStart(y + 1) /\ YearStart(y) \in Int /\ YearStart(y + 1) \in Int
  BY YearsGrow DEF YearStart
<1> QED
  BY <1>1, <1>2, <1>3, EpochIsInt DEF IsDay

\* The month of a day, counted like MonthStart counts.
LEMMA MonthOfDay ==
  ASSUME NEW d \in Int, NEW y, NEW doy, IsDay(d, y, doy)
  PROVE  MonthOf(d) = 12 * y + MarchMonth(doy) + 2
<1>1. y \in Int /\ doy \in Int /\ 0 <= doy /\ doy <= 365
  BY DEF IsDay, YearStart
<1>2. CivilFromDays(d) = CivilFromMarch(y, doy)
  BY CivilOfDay
<1> QED
  BY <1>1, <1>2 DEF MonthOf, MonthIndex, CivilFromMarch, MarchMonth

\* A month begins by each of its days, and the next one after.
LEMMA MonthHoldsDay ==
  ASSUME NEW d \in Int
  PROVE  /\ MonthOf(d) \in Int
         /\ MonthStart(MonthOf(d)) <= d /\ d < MonthStart(MonthOf(d) + 1)
<1>1. PICK y, doy \in Int : IsDay(d, y, doy)
  BY CivilIsDay
<1> DEFINE mp == MarchMonth(doy)
<1>2. 0 <= doy /\ doy <= 365
  BY <1>1 DEF IsDay, YearStart
<1>3. /\ mp \in Int /\ 0 <= mp /\ mp <= 11
      /\ MarchStart(mp) <= doy /\ doy < MarchStart(mp + 1)
  BY <1>2, MarchMonths
<1> HIDE DEF mp
<1>4. MonthOf(d) = 12 * y + mp + 2
  BY <1>1, MonthOfDay DEF mp
<1>5. IsDay(MonthStart(MonthOf(d)), y, MarchStart(mp))
  BY <1>3, <1>4, MonthStartIsDay
<1>6. MarchStart(mp) \in Int /\ YearStart(y) \in Int /\ YearStart(y + 1) \in Int
  BY <1>3 DEF YearStart, MarchStart
<1>7. MonthOf(d) \in Int /\ MonthStart(MonthOf(d)) \in Int /\ MonthStart(MonthOf(d) + 1) \in Int
  BY <1>3, <1>4, SMT DEF MonthStart, DaysFromCivil
<1>8. MonthStart(MonthOf(d)) <= d
  BY <1>1, <1>3, <1>5, <1>6, <1>7, EpochIsInt DEF IsDay
<1>9. d < MonthStart(MonthOf(d) + 1)
  <2>1. CASE mp < 11
    <3>1. MonthOf(d) + 1 = 12 * y + (mp + 1) + 2 /\ 0 <= mp + 1 /\ mp + 1 <= 11 /\ mp + 1 \in Int
      BY <1>3, <1>4, <2>1
    <3>2. IsDay(MonthStart(MonthOf(d) + 1), y, MarchStart(mp + 1))
      BY <3>1, MonthStartIsDay
    <3>3. MarchStart(mp + 1) \in Int
      BY <1>3 DEF MarchStart
    <3> QED
      BY <1>1, <1>3, <1>6, <1>7, <3>2, <3>3, EpochIsInt DEF IsDay
  <2>2. CASE mp = 11
    <3>1. MonthOf(d) + 1 = 12 * (y + 1) + 0 + 2
      BY <1>4, <2>2
    <3>2. IsDay(MonthStart(MonthOf(d) + 1), y + 1, MarchStart(0))
      BY <3>1, MonthStartIsDay
    <3>3. MarchStart(0) = 0
      BY DEF MarchStart
    <3> QED
      BY <1>1, <1>6, <1>7, <3>2, <3>3, EpochIsInt DEF IsDay
  <2> QED
    BY <1>3, <2>1, <2>2
<1> QED
  BY <1>7, <1>8, <1>9

\* The first day of a month is in it.
LEMMA MonthBeginsItself ==
  ASSUME NEW m \in Int
  PROVE  MonthStart(m) \in Int /\ MonthOf(MonthStart(m)) = m
<1>1. MonthStart(m) \in Int
  BY SMT DEF MonthStart, DaysFromCivil
<1> DEFINE n == MonthOf(MonthStart(m))
<1>2. n \in Int /\ MonthStart(n) <= MonthStart(m) /\ MonthStart(m) < MonthStart(n + 1)
  BY <1>1, MonthHoldsDay
<1> HIDE DEF n
<1>3. MonthStart(n) \in Int /\ MonthStart(n + 1) \in Int
  BY <1>2, SMT DEF MonthStart, DaysFromCivil
<1>4. ~ (m < n)
  BY <1>1, <1>2, <1>3, MonthsGrow
<1>5. ~ (n + 1 < m) /\ m # n + 1
  BY <1>1, <1>2, <1>3, MonthsGrow
<1> QED
  BY <1>1, <1>2, <1>4, <1>5 DEF n

\* The day after a date, field by field.
LEMMA DayAfterIs ==
  ASSUME NEW y \in Int, NEW m \in Int, NEW d \in Int, NEW c, c = [year |-> y, month |-> m, day |-> d]
  PROVE  DayAfter(c) =
           IF d < DaysIn(c) THEN [year |-> y, month |-> m, day |-> d + 1]
           ELSE IF m < 12 THEN [year |-> y, month |-> m + 1, day |-> 1]
           ELSE [year |-> y + 1, month |-> 1, day |-> 1]
<1>1. c.year = y /\ c.month = m /\ c.day = d
  OBVIOUS
<1>2. [c EXCEPT !.day = @ + 1] = [year |-> y, month |-> m, day |-> d + 1]
  OBVIOUS
<1>3. [c EXCEPT !.month = @ + 1, !.day = 1] = [[c EXCEPT !.month = @ + 1] EXCEPT !.day = 1]
  OBVIOUS
<1>4. [c EXCEPT !.month = @ + 1] = [year |-> y, month |-> m + 1, day |-> d]
  OBVIOUS
<1>5. [[year |-> y, month |-> m + 1, day |-> d] EXCEPT !.day = 1]
        = [year |-> y, month |-> m + 1, day |-> 1]
  OBVIOUS
<1>6. [c EXCEPT !.month = @ + 1, !.day = 1] = [year |-> y, month |-> m + 1, day |-> 1]
  BY <1>3, <1>4, <1>5
<1>7. CASE d < DaysIn(c)
  BY <1>1, <1>2, <1>7 DEF DayAfter
<1>8. CASE ~ (d < DaysIn(c)) /\ m < 12
  BY <1>1, <1>6, <1>8 DEF DayAfter
<1>9. CASE ~ (d < DaysIn(c)) /\ ~ (m < 12)
  BY <1>1, <1>9 DEF DayAfter
<1> QED
  BY <1>7, <1>8, <1>9

\* The day after, within a year that begins in March.
LEMMA NextInYear ==
  ASSUME NEW y \in Int, NEW doy \in Int, 0 <= doy, doy <= 364, doy = 364 => IsLeap(y + 1)
  PROVE  CivilFromMarch(y, doy + 1) = DayAfter(CivilFromMarch(y, doy))
<1> DEFINE m == MarchMonth(doy)
           n == MarchMonth(doy + 1)
           Month(k) == IF k < 10 THEN k + 3 ELSE k - 9
           Year(k) == IF k < 10 THEN y ELSE y + 1
           day == doy - MarchStart(m) + 1
           c == [year |-> Year(m), month |-> Month(m), day |-> day]
<1>1. /\ CivilFromMarch(y, doy) = c
      /\ CivilFromMarch(y, doy + 1) = [year |-> Year(n), month |-> Month(n),
                                       day |-> (doy + 1) - MarchStart(n) + 1]
  BY DEF CivilFromMarch, MarchMonth, MarchStart
<1>2. /\ m \in 0 .. 11 /\ n \in 0 .. 11 /\ day \in Int
      /\ n = m \/ n = m + 1
      /\ n = m => (doy + 1) - MarchStart(n) + 1 = day + 1 /\ (m # 11 => day < MarchStart(m + 1) - MarchStart(m))
      /\ n = m + 1 => (doy + 1) - MarchStart(n) + 1 = 1 /\ day = MarchStart(m + 1) - MarchStart(m) /\ m # 11
      /\ m = 11 => day = doy - 336
  BY DEF MarchMonth, MarchStart
<1>3. /\ m \in {1, 3, 6, 8} => MarchStart(m + 1) - MarchStart(m) = 30
      /\ m \in {0, 2, 4, 5, 7, 9, 10} => MarchStart(m + 1) - MarchStart(m) = 31
  BY <1>2 DEF MarchStart
<1> HIDE DEF m, n, day
<1>4. /\ m \in {1, 3, 6, 8} => DaysIn(c) = 30
      /\ m \in {0, 2, 4, 5, 7, 9, 10} => DaysIn(c) = 31
      /\ m = 11 => DaysIn(c) = IF IsLeap(y + 1) THEN 29 ELSE 28
  BY <1>2 DEF DaysIn
<1>5. c = [year |-> Year(m), month |-> Month(m), day |-> day] /\ Year(m) \in Int /\ Month(m) \in Int
  BY <1>2
<1>6. CASE n = m
  <2>1. day < DaysIn(c)
    BY <1>2, <1>3, <1>4, <1>6
  <2>2. DayAfter(c) = [year |-> Year(m), month |-> Month(m), day |-> day + 1]
    <3> HIDE DEF c, Year, Month
    <3> QED
      BY <1>2, <1>5, <2>1, DayAfterIs
  <2> QED
    BY <1>1, <1>2, <1>6, <2>2
<1>7. CASE n = m + 1
  <2>1. day = DaysIn(c) /\ ~ (day < DaysIn(c))
    BY <1>2, <1>3, <1>4, <1>7
  <2>2. DayAfter(c) = IF Month(m) < 12 THEN [year |-> Year(m), month |-> Month(m) + 1, day |-> 1]
                      ELSE [year |-> Year(m) + 1, month |-> 1, day |-> 1]
    <3> HIDE DEF c, Year, Month
    <3> QED
      BY <1>2, <1>5, <2>1, DayAfterIs
  <2>3. CivilFromMarch(y, doy + 1) = [year |-> Year(m + 1), month |-> Month(m + 1), day |-> 1]
    BY <1>1, <1>2, <1>7
  <2>4. CASE m = 9
    BY <1>1, <2>2, <2>3, <2>4
  <2>5. CASE m # 9
    <3>1. Month(m) < 12 /\ Year(m + 1) = Year(m) /\ Month(m + 1) = Month(m) + 1
      BY <1>2, <1>7, <2>5
    <3> QED
      BY <1>1, <2>2, <2>3, <3>1
  <2> QED
    BY <2>4, <2>5
<1> QED
  BY <1>2, <1>6, <1>7

\* The day after the last of February is the first of March.
LEMMA NextInMarch ==
  ASSUME NEW y \in Int, NEW doy \in Int, doy = IF IsLeap(y + 1) THEN 365 ELSE 364
  PROVE  CivilFromMarch(y + 1, 0) = DayAfter(CivilFromMarch(y, doy))
<1> DEFINE c == [year |-> y + 1, month |-> 2, day |-> doy - 336]
<1>1. CivilFromMarch(y, doy) = c /\ CivilFromMarch(y + 1, 0) = [year |-> y + 1, month |-> 3, day |-> 1]
  BY DEF CivilFromMarch
<1>2. DaysIn(c) = doy - 336
  BY DEF DaysIn
<1>3. doy - 336 \in Int /\ ~ (doy - 336 < doy - 336)
  OBVIOUS
<1>4. DayAfter(c) = [year |-> y + 1, month |-> 2 + 1, day |-> 1]
  <2>1. c = [year |-> y + 1, month |-> 2, day |-> doy - 336]
    OBVIOUS
  <2> HIDE DEF c
  <2> QED
    BY <1>2, <1>3, <2>1, DayAfterIs
<1> QED
  BY <1>1, <1>4

\* Each date follows the one before.
LEMMA CivilNextDay ==
  ASSUME NEW d \in Int
  PROVE  CivilFromDays(d + 1) = DayAfter(CivilFromDays(d))
<1>1. PICK y, doy \in Int : IsDay(d, y, doy) /\ CivilFromDays(d) = CivilFromMarch(y, doy)
  BY CivilIsDay
<1> DEFINE l == YearStart(y + 1) - YearStart(y)
<1>2. /\ l = IF IsLeap(y + 1) THEN 366 ELSE 365
      /\ YearStart(y) \in Int /\ YearStart(y + 1) \in Int
  BY YearLength, YearsInOrder
<1>3. 0 <= doy /\ doy < l /\ d + Epoch = YearStart(y) + doy
  BY <1>1 DEF IsDay
<1>4. CASE doy + 1 < l
  <2>1. IsDay(d + 1, y, doy + 1)
    <3>1. (d + 1) + Epoch = YearStart(y) + (doy + 1)
      BY <1>2, <1>3, EpochIsInt
    <3> QED
      BY <1>3, <1>4, <3>1 DEF IsDay
  <2>2. CivilFromDays(d + 1) = CivilFromMarch(y, doy + 1)
    BY <2>1, CivilOfDay
  <2>3. doy <= 364 /\ (doy = 364 => IsLeap(y + 1))
    BY <1>2, <1>4
  <2> QED
    BY <1>1, <1>3, <2>2, <2>3, NextInYear
<1>5. CASE doy + 1 = l
  <2>1. IsDay(d + 1, y + 1, 0)
    <3>1. YearStart(y + 1) + 365 <= YearStart((y + 1) + 1) /\ YearStart((y + 1) + 1) \in Int
      BY YearsGrow, YearsInOrder
    <3> QED
      BY <1>2, <1>3, <1>5, <3>1, EpochIsInt DEF IsDay
  <2>2. CivilFromDays(d + 1) = CivilFromMarch(y + 1, 0)
    BY <2>1, CivilOfDay
  <2>3. doy = IF IsLeap(y + 1) THEN 365 ELSE 364
    BY <1>2, <1>5
  <2> QED
    BY <1>1, <2>2, <2>3, NextInMarch
<1> QED
  BY <1>2, <1>3, <1>4, <1>5

-----------------------------------------------------------------------------
(* Buckets tile the days, and the times. *)

\* The week, Monday first, that holds a day.
LEMMA WeekStartHolds ==
  ASSUME NEW day \in Int, NEW k \in Int, NEW s \in Nat \ {0}
  PROVE  /\ WeekStart(day, s) \in Int
         /\ WeekStart(day, s) <= day /\ day < WeekStart(day, s) + s * 7
         /\ WeekStart(day, s) <= k /\ k < WeekStart(day, s) + s * 7 => WeekStart(k, s) = WeekStart(day, s)
         /\ WeekStart(day, s) + s * 7 <= k => WeekStart(day, s) + s * 7 <= WeekStart(k, s)
<1> DEFINE v == (day + 3) \div 7
           w == (k + 3) \div 7
           r == RoundDown(v, s)
           u == RoundDown(w, s)
<1>1. /\ v \in Int /\ w \in Int
      /\ v * 7 <= day + 3 /\ day + 3 < v * 7 + 7
      /\ w * 7 <= k + 3 /\ k + 3 < w * 7 + 7
  OBVIOUS
<1>2. WeekStart(day, s) = r * 7 - 3 /\ WeekStart(k, s) = u * 7 - 3
  BY DEF WeekStart
<1> HIDE DEF v, w
<1>3. r \in Int /\ u \in Int /\ r <= v /\ v < r + s
  BY <1>1, RoundedHolds
<1>4. /\ r <= w /\ w < r + s => u = r
      /\ r + s <= w => r + s <= u
  BY <1>1, RoundedIsUnique
<1> HIDE DEF r, u
<1>5. r * 7 <= day + 3 /\ day + 3 < (r + s) * 7
  BY <1>1, <1>3
<1>6. r * 7 <= k + 3 /\ k + 3 < (r + s) * 7 => r <= w /\ w < r + s
  BY <1>1, <1>3
<1>7. (r + s) * 7 <= k + 3 => r + s <= w
  BY <1>1, <1>3
<1> QED
  BY <1>2, <1>3, <1>4, <1>5, <1>6, <1>7

\* The first days of months are in the order of the months.
LEMMA MonthsInOrder ==
  ASSUME NEW m \in Int, NEW n \in Int
  PROVE  MonthStart(m) <= MonthStart(n) <=> m <= n
<1>1. MonthStart(m) \in Int /\ MonthStart(n) \in Int
  BY MonthBeginsItself
<1>2. (m < n => MonthStart(m) < MonthStart(n)) /\ (n < m => MonthStart(n) < MonthStart(m))
  BY MonthsGrow
<1> QED
  BY <1>1, <1>2

\* A day lies in the months that begin by then and end after it.
LEMMA MonthOfIsBetween ==
  ASSUME NEW k \in Int, NEW m \in Int
  PROVE  MonthStart(m) <= k <=> m <= MonthOf(k)
<1> DEFINE n == MonthOf(k)
<1>1. n \in Int /\ MonthStart(n) <= k /\ k < MonthStart(n + 1)
  BY MonthHoldsDay
<1> HIDE DEF n
<1>2. MonthStart(m) \in Int /\ MonthStart(n) \in Int /\ MonthStart(n + 1) \in Int
  BY <1>1, MonthBeginsItself
<1>3. ASSUME m <= n PROVE MonthStart(m) <= k
  BY <1>1, <1>2, <1>3, MonthsInOrder
<1>4. ASSUME ~ (m <= n) PROVE ~ (MonthStart(m) <= k)
  <2>1. n + 1 <= m /\ n + 1 \in Int
    BY <1>1, <1>4
  <2>2. MonthStart(n + 1) <= MonthStart(m)
    BY <2>1, MonthsInOrder
  <2> QED
    BY <1>1, <1>2, <2>2
<1> QED
  BY <1>1, <1>3, <1>4 DEF n

(***************************************************************************)
(* The buckets of a spec tile the days: a day is in its bucket, the days   *)
(* of a bucket share it, and no later day has an earlier one.              *)
(***************************************************************************)
LEMMA BucketsTileDays ==
  ASSUME NEW spec \in Specs, spec.unit # "intraday", NEW day \in Int, NEW k \in Int
  PROVE  LET b == BucketDays(day, spec)
         IN  /\ b.start \in Int /\ b.end \in Int
             /\ b.start <= day /\ day < b.end
             /\ b.start <= k /\ k < b.end => BucketDays(k, spec).start = b.start
             /\ b.end <= k => b.end <= BucketDays(k, spec).start
<1> DEFINE s == spec.step
<1>1. s \in Nat \ {0} /\ spec.unit \in {"day", "week", "month"}
  BY DEF Specs, Units
<1>2. CASE spec.unit = "day"
  <2> DEFINE r == RoundDown(day, s)
             u == RoundDown(k, s)
  <2>1. /\ BucketDays(day, spec).start = r /\ BucketDays(day, spec).end = r + s
        /\ BucketDays(k, spec).start = u
    BY <1>2 DEF BucketDays, Span
  <2> HIDE DEF s
  <2>2. r \in Int /\ r <= day /\ day < r + s
    BY <1>1, RoundedHolds
  <2>3. (r <= k /\ k < r + s => u = r) /\ (r + s <= k => r + s <= u)
    BY <1>1, RoundedIsUnique
  <2> HIDE DEF r, u
  <2> QED
    BY <1>1, <2>1, <2>2, <2>3
<1>3. CASE spec.unit = "week"
  <2> DEFINE r == WeekStart(day, s)
             u == WeekStart(k, s)
  <2>1. /\ BucketDays(day, spec).start = r /\ BucketDays(day, spec).end = r + s * 7
        /\ BucketDays(k, spec).start = u
    BY <1>3 DEF BucketDays, Span
  <2> HIDE DEF s
  <2>2. /\ r \in Int /\ r <= day /\ day < r + s * 7
        /\ r <= k /\ k < r + s * 7 => u = r
        /\ r + s * 7 <= k => r + s * 7 <= u
    BY <1>1, WeekStartHolds
  <2> HIDE DEF r, u
  <2> QED
    BY <1>1, <2>1, <2>2
<1>4. CASE spec.unit = "month"
  <2> DEFINE v == MonthOf(day)
             w == MonthOf(k)
             r == RoundDown(v, s)
             u == RoundDown(w, s)
  <2>1. /\ BucketDays(day, spec).start = MonthStart(r) /\ BucketDays(day, spec).end = MonthStart(r + s)
        /\ BucketDays(k, spec).start = MonthStart(u)
    BY <1>4 DEF BucketDays, Months
  <2> HIDE DEF s
  <2>2. v \in Int /\ w \in Int
    BY MonthHoldsDay
  <2> HIDE DEF v, w
  <2>3. r \in Int /\ r <= v /\ v < r + s /\ u \in Int /\ r + s \in Int
    BY <1>1, <2>2, RoundedHolds
  <2>4. (r <= w /\ w < r + s => u = r) /\ (r + s <= w => r + s <= u)
    BY <1>1, <2>2, RoundedIsUnique
  <2> HIDE DEF r, u
  <2>5. /\ MonthStart(r) <= day <=> r <= v
        /\ MonthStart(r + s) <= day <=> r + s <= v
    BY <2>3, MonthOfIsBetween DEF v
  <2>6. /\ MonthStart(r) <= k <=> r <= w
        /\ MonthStart(r + s) <= k <=> r + s <= w
    BY <2>3, MonthOfIsBetween DEF w
  <2>7. MonthStart(r) \in Int /\ MonthStart(r + s) \in Int /\ MonthStart(u) \in Int
    BY <2>3, MonthBeginsItself
  <2>8. r + s <= u => MonthStart(r + s) <= MonthStart(u)
    BY <2>3, MonthsInOrder
  <2>9. MonthStart(r) <= day /\ day < MonthStart(r + s)
    BY <1>1, <2>2, <2>3, <2>5, <2>7
  <2>10. MonthStart(r) <= k /\ k < MonthStart(r + s) => MonthStart(u) = MonthStart(r)
    BY <1>1, <2>2, <2>3, <2>4, <2>6, <2>7
  <2>11. MonthStart(r + s) <= k => MonthStart(r + s) <= MonthStart(u)
    BY <2>4, <2>6, <2>8
  <2> QED
    BY <2>1, <2>7, <2>9, <2>10, <2>11
<1> QED
  BY <1>1, <1>2, <1>3, <1>4

\* In units of time: a time is in its bucket, and buckets tile the times.
LEMMA BucketsTileTime ==
  ASSUME NEW spec \in Specs, NEW anchor \in Int, NEW t \in Int, NEW k \in Int
  PROVE  LET b == Bounds(t, spec, anchor)
         IN  /\ b.start \in Int /\ b.end \in Int
             /\ b.start <= t /\ t < b.end
             /\ b.start <= k /\ k < b.end => Bounds(k, spec, anchor).start = b.start
             /\ b.end <= k => b.end <= Bounds(k, spec, anchor).start
<1> USE DayAssumption
<1>1. CASE spec.unit = "intraday"
  <2> DEFINE s == spec.step
             r == RoundDown(t, s)
             u == RoundDown(k, s)
  <2>1. s \in Nat \ {0}
    BY DEF Specs
  <2>2. /\ Bounds(t, spec, anchor).start = r /\ Bounds(t, spec, anchor).end = r + s
        /\ Bounds(k, spec, anchor).start = u
    BY <1>1 DEF Bounds, Span
  <2> HIDE DEF s
  <2>3. r \in Int /\ r <= t /\ t < r + s
    BY <2>1, RoundedHolds
  <2>4. (r <= k /\ k < r + s => u = r) /\ (r + s <= k => r + s <= u)
    BY <2>1, RoundedIsUnique
  <2> HIDE DEF r, u
  <2> QED
    BY <2>1, <2>2, <2>3, <2>4
<1>2. CASE spec.unit # "intraday"
  <2> DEFINE d == DayOf(t, anchor)
             e == DayOf(k, anchor)
             b == BucketDays(d, spec)
             c == BucketDays(e, spec)
             x == b.start
             y == b.end
             z == c.start
  <2>1. /\ Bounds(t, spec, anchor).start = x * Day + anchor
        /\ Bounds(t, spec, anchor).end = y * Day + anchor
        /\ Bounds(k, spec, anchor).start = z * Day + anchor
    BY <1>2 DEF Bounds, InTime, TimeOf
  <2>2. /\ d \in Int /\ d * Day \in Int /\ d * Day <= t - anchor /\ t - anchor < d * Day + Day
        /\ e \in Int /\ e * Day \in Int /\ e * Day <= k - anchor /\ k - anchor < e * Day + Day
    <3>1. t - anchor \in Int /\ k - anchor \in Int
      OBVIOUS
    <3>2. /\ RoundDown(t - anchor, Day) = d * Day /\ RoundDown(k - anchor, Day) = e * Day
          /\ d \in Int /\ e \in Int
      BY <3>1, QuotientIsInt DEF RoundDown, DayOf
    <3> QED
      BY <3>1, <3>2, RoundedHolds
  <2> HIDE DEF d, e
  <2>3. /\ x \in Int /\ y \in Int /\ x <= d /\ d < y
        /\ x <= e /\ e < y => z = x
        /\ y <= e => y <= z
    BY <1>2, <2>2, BucketsTileDays
  <2>4. z \in Int
    BY <1>2, <2>2, BucketsTileDays
  <2> HIDE DEF b, c, x, y, z
  <2>5. x * Day \in Int /\ y * Day \in Int /\ z * Day \in Int
    BY <2>3, <2>4, ProductIsInt
  <2>6. x * Day <= d * Day /\ d * Day + Day <= y * Day
    BY <2>2, <2>3, ProductsInOrder
  <2>7. ASSUME x * Day <= k - anchor, k - anchor < y * Day PROVE z = x
    <3>1. ~ (e < x)
      <4> SUFFICES ASSUME e < x PROVE FALSE
        OBVIOUS
      <4>1. e * Day + Day <= x * Day
        BY <2>2, <2>3, ProductsInOrder
      <4> QED
        BY <2>2, <2>5, <2>7, <4>1
    <3>2. ~ (y <= e)
      <4> SUFFICES ASSUME y <= e PROVE FALSE
        OBVIOUS
      <4>1. y * Day <= e * Day
        BY <2>2, <2>3, ProductsInOrder
      <4> QED
        BY <2>2, <2>5, <2>7, <4>1
    <3> QED
      BY <2>2, <2>3, <3>1, <3>2
  <2>8. ASSUME y * Day <= k - anchor PROVE y * Day <= z * Day
    <3>1. ~ (e < y)
      <4> SUFFICES ASSUME e < y PROVE FALSE
        OBVIOUS
      <4>1. e * Day + Day <= y * Day
        BY <2>2, <2>3, ProductsInOrder
      <4> QED
        BY <2>2, <2>5, <2>8, <4>1
    <3>2. y <= z
      BY <2>2, <2>3, <3>1
    <3> QED
      BY <2>3, <2>4, <3>2, ProductsInOrder
  <2> QED
    BY <2>1, <2>2, <2>5, <2>6, <2>7, <2>8
<1> QED
  BY <1>1, <1>2

-----------------------------------------------------------------------------
(* The dates of the calendar. *)

\* The first day of a month is its first.
LEMMA MonthBeginsOnFirst ==
  ASSUME NEW m \in Int
  PROVE  CivilFromDays(MonthStart(m)).day = 1
<1> DEFINE y == (m - 2) \div 12
           mp == (m - 2) % 12
           doy == MarchStart(mp)
<1>1. y \in Int /\ mp \in Int /\ 0 <= mp /\ mp <= 11 /\ m = 12 * y + mp + 2
  OBVIOUS
<1> HIDE DEF y, mp
<1>2. MarchMonth(doy) = mp /\ doy \in Int
  BY <1>1, MarchMonthStarts
<1>3. IsDay(MonthStart(m), y, doy) /\ MonthStart(m) \in Int
  BY <1>1, MonthStartIsDay, MonthBeginsItself
<1>4. CivilFromDays(MonthStart(m)) = CivilFromMarch(y, doy)
  BY <1>3, CivilOfDay
<1>5. CivilFromMarch(y, doy).day = doy - MarchStart(MarchMonth(doy)) + 1
  BY DEF CivilFromMarch, MarchStart, MarchMonth
<1>6. doy - MarchStart(MarchMonth(doy)) + 1 = 1
  BY <1>2
<1> QED
  BY <1>4, <1>5, <1>6

\* The epoch.
LEMMA EpochDate == CivilFromDays(0) = [year |-> 1970, month |-> 1, day |-> 1]
<1>1. IsDay(0, 1969, 306)
  BY SMT DEF IsDay, YearStart, Epoch
<1>2. CivilFromDays(0) = CivilFromMarch(1969, 306)
  BY <1>1, CivilOfDay, SMT
<1>3. CivilFromMarch(1969, 306) = [year |-> 1970, month |-> 1, day |-> 1]
  BY SMT DEF CivilFromMarch
<1> QED
  BY <1>2, <1>3, SMT

\* Where buckets begin.
LEMMA BucketsBegin ==
  ASSUME NEW spec \in Specs, spec.unit # "intraday", NEW day \in Int
  PROVE  LET b == BucketDays(day, spec)
         IN  /\ BucketDays(b.end, spec).start = b.end
             /\ spec.unit = "week" => (b.start - 4) % 7 = 0
             /\ spec.unit = "month" => CivilFromDays(b.start).day = 1
<1> DEFINE s == spec.step
           e == BucketDays(day, spec).end
           x == BucketDays(e, spec).start
<1>1. s \in Nat \ {0}
  BY DEF Specs
<1>2. e \in Int /\ e <= e /\ (e <= e => e <= x)
  BY BucketsTileDays
<1>3. x \in Int /\ x <= e
  BY <1>2, BucketsTileDays
<1>4. x = e
  BY <1>2, <1>3
<1>5. CASE spec.unit = "week"
  <2> DEFINE r == RoundDown((day + 3) \div 7, s)
  <2>1. BucketDays(day, spec).start = r * 7 - 3
    BY <1>5 DEF BucketDays, Span, WeekStart
  <2>2. r \in Int
    <3>1. (day + 3) \div 7 \in Int
      OBVIOUS
    <3> QED
      BY <1>1, <3>1, RoundedHolds
  <2> HIDE DEF r
  <2>3. ((r * 7 - 3) - 4) % 7 = 0
    BY <2>2
  <2> HIDE DEF e, x
  <2> QED
    BY <1>4, <1>5, <2>1, <2>3 DEF e, x
<1>6. CASE spec.unit = "month"
  <2> DEFINE r == RoundDown(MonthOf(day), s)
  <2>1. BucketDays(day, spec).start = MonthStart(r)
    BY <1>6 DEF BucketDays, Months
  <2>2. r \in Int
    BY <1>1, MonthHoldsDay, RoundedHolds
  <2> HIDE DEF r
  <2>3. CivilFromDays(MonthStart(r)).day = 1
    BY <2>2, MonthBeginsOnFirst
  <2> QED
    BY <1>4, <1>6, <2>1, <2>3
<1> QED
  BY <1>4, <1>5, <1>6

-----------------------------------------------------------------------------
(* Buckets. *)

\* A spec that has a duration spans it, and a month a number of days.
LEMMA FixedDuration ==
  ASSUME NEW spec \in Specs, spec.unit # "month"
  PROVE  Duration(spec) \in Nat \ {0}
  <1> USE DayAssumption
  <1>1. spec.step \in Nat \ {0} /\ spec.unit \in {"intraday", "day", "week"}
    BY DEF Specs, Units
  <1>2. \A a \in Nat \ {0}, b \in Nat \ {0} : a * b \in Nat \ {0}  OBVIOUS
  <1>3. CASE spec.unit = "intraday"  BY <1>1, <1>3 DEF Duration
  <1>4. CASE spec.unit = "day"  BY <1>1, <1>2, <1>4 DEF Duration
  <1>5. CASE spec.unit = "week"
    <2>1. 7 * Day \in Nat \ {0}  OBVIOUS
    <2> QED BY <1>1, <1>2, <1>5, <2>1 DEF Duration
  <1> QED BY <1>1, <1>3, <1>4, <1>5

\* Its buckets last as long as it says.
LEMMA FixedSpan ==
  ASSUME NEW spec \in Specs, spec.unit # "month", NEW t \in Int, NEW anchor \in Int
  PROVE  /\ Bounds(t, spec, anchor).start \in Int
         /\ Bounds(t, spec, anchor).end = Bounds(t, spec, anchor).start + Duration(spec)
  <1> USE DayAssumption
  <1>1. spec.step \in Nat \ {0} /\ spec.unit \in {"intraday", "day", "week"}
    BY DEF Specs, Units
  <1>2. DayOf(t, anchor) \in Int  BY QuotientIsInt DEF DayOf
  <1>3. CASE spec.unit = "intraday"
    BY <1>1, <1>3, RoundDownIsInt DEF Bounds, Span, Duration
  <1>4. CASE spec.unit = "day"
    <2> DEFINE d == RoundDown(DayOf(t, anchor), spec.step)
    <2>1. d \in Int  BY <1>1, <1>2, RoundDownIsInt
    <2>2. BucketDays(DayOf(t, anchor), spec) = [start |-> d, end |-> d + spec.step]
      BY <1>4 DEF BucketDays, Span
    <2> HIDE DEF d
    <2>3. Bounds(t, spec, anchor) = [start |-> d * Day + anchor,
                                     end |-> (d + spec.step) * Day + anchor]
      BY <1>4, <2>2 DEF Bounds, InTime, TimeOf
    <2>4. Duration(spec) = spec.step * Day  BY <1>4 DEF Duration
    <2>5. d * Day \in Int /\ (d + spec.step) * Day = d * Day + spec.step * Day
      BY <1>1, <2>1
    <2>6. spec.step * Day \in Int  BY <1>1, ProductIsInt
    <2> QED BY <2>3, <2>4, <2>5, <2>6
  <1>5. CASE spec.unit = "week"
    <2> DEFINE w == RoundDown((DayOf(t, anchor) + 3) \div 7, spec.step)
               d == w * 7 - 3
    <2>1. d \in Int
      <3>1. (DayOf(t, anchor) + 3) \div 7 \in Int  BY <1>2
      <3>2. w \in Int  BY <3>1, <1>1, RoundDownIsInt
      <3> QED BY <3>2
    <2>2. BucketDays(DayOf(t, anchor), spec) = [start |-> d, end |-> d + spec.step * 7]
      BY <1>5 DEF BucketDays, Span, WeekStart
    <2> HIDE DEF d
    <2>3. Bounds(t, spec, anchor) = [start |-> d * Day + anchor,
                                     end |-> (d + spec.step * 7) * Day + anchor]
      BY <1>5, <2>2 DEF Bounds, InTime, TimeOf
    <2>4. Duration(spec) = spec.step * (7 * Day)  BY <1>5 DEF Duration
    <2>5. d * Day \in Int /\ (d + spec.step * 7) * Day = d * Day + spec.step * (7 * Day)
      BY <1>1, <2>1
    <2>6. spec.step * (7 * Day) \in Int  BY <1>1, ProductIsInt
    <2> QED BY <2>3, <2>4, <2>5, <2>6
  <1> QED BY <1>1, <1>3, <1>4, <1>5

\* Months and their first days are whole numbers.
LEMMA MonthsAreDays ==
  /\ \A day \in Int : MonthOf(day) \in Int
  /\ \A month \in Int : MonthStart(month) \in Int
  <1>1. ASSUME NEW day \in Int PROVE MonthOf(day) \in Int
    <2>1. CivilFromDays(day).year \in Int /\ CivilFromDays(day).month \in Int
      BY DEF CivilFromDays, CivilFromEra, CivilFromMarch, YearOfEra, DayOfYear
    <2> QED BY <2>1 DEF MonthOf, MonthIndex
  <1>2. ASSUME NEW month \in Int PROVE MonthStart(month) \in Int
    BY DEF MonthStart, DaysFromCivil
  <1> QED BY <1>1, <1>2

\* A bucket of months begins and ends on a day.
LEMMA MonthSpan ==
  ASSUME NEW spec \in Specs, spec.unit = "month", NEW t \in Int, NEW anchor \in Int
  PROVE  /\ Bounds(t, spec, anchor).start \in Int
         /\ Bounds(t, spec, anchor).end \in Int
         /\ \E n \in Int : Bounds(t, spec, anchor).end - Bounds(t, spec, anchor).start = n * Day
  <1> USE DayAssumption
  <1>1. spec.step \in Nat \ {0}  BY DEF Specs
  <1>2. DayOf(t, anchor) \in Int  BY QuotientIsInt DEF DayOf
  <1> DEFINE m == RoundDown(MonthOf(DayOf(t, anchor)), spec.step)
             a == MonthStart(m)
             b == MonthStart(m + spec.step)
  <1>3. m \in Int  BY <1>1, <1>2, MonthsAreDays, RoundDownIsInt
  <1>4. a \in Int /\ b \in Int  BY <1>1, <1>3, MonthsAreDays
  <1>5. BucketDays(DayOf(t, anchor), spec) = [start |-> a, end |-> b]
    BY DEF BucketDays, Months
  <1> HIDE DEF m, a, b
  <1>6. Bounds(t, spec, anchor) = [start |-> a * Day + anchor, end |-> b * Day + anchor]
    BY <1>5 DEF Bounds, InTime, TimeOf
  <1>7. a * Day \in Int /\ b * Day \in Int  BY <1>4, ProductIsInt
  <1>8. (b * Day + anchor) - (a * Day + anchor) = (b - a) * Day /\ b - a \in Int
    BY <1>4, <1>7
  <1>9. /\ Bounds(t, spec, anchor).start = a * Day + anchor
        /\ Bounds(t, spec, anchor).end = b * Day + anchor
    BY <1>6
  <1>10. PICK n \in Int : n = b - a  BY <1>8
  <1>11. Bounds(t, spec, anchor).end - Bounds(t, spec, anchor).start = n * Day
    BY <1>8, <1>9, <1>10
  <1>12. a * Day + anchor \in Int /\ b * Day + anchor \in Int  BY <1>7
  <1> QED BY <1>9, <1>11, <1>12

\* What every aggregator has.
Folds(p) ==
  /\ p.source \in Specs /\ p.source.unit # "month" /\ p.target \in Specs
  /\ Divides(p.source, p.target) /\ p.anchor \in Int

(* An aligned bar ends one duration on. *)
LEMMA FoldsInSteps ==
  ASSUME NEW p, Folds(p), NEW t \in Int
  PROVE  /\ Duration(p.source) \in Nat \ {0}
         /\ SourceEnd(p, t) \in Int
         /\ Aligned(p, t) => SourceEnd(p, t) = t + Duration(p.source)
  BY FixedSpan, FixedDuration DEF Folds, Aligned, SourceEnd

(* The number of bars a bucket needs is exact: they fill it to its end. *)
LEMMA FoldsTile ==
  ASSUME NEW p, Folds(p), NEW t \in Int
  PROVE  /\ Bucket(p, t).start \in Int
         /\ Expected(p, Bucket(p, t)) \in Int
         /\ Expected(p, Bucket(p, t)) * Duration(p.source)
              = Bucket(p, t).end - Bucket(p, t).start
  <1> USE DayAssumption
  <1> DEFINE s == p.source
             g == p.target
             b == Bounds(t, p.target, p.anchor)
             d == Duration(p.source)
  <1>1. /\ s \in Specs /\ s.unit # "month" /\ g \in Specs
        /\ Divides(s, g) /\ p.anchor \in Int
    BY DEF Folds
  <1>2. d \in Nat \ {0}  BY <1>1, FixedDuration
  <1>3. CASE g.unit # "month"
    <2>1. b.start \in Int /\ b.end = b.start + Duration(g)  BY <1>1, <1>3, FixedSpan
    <2>2. Duration(g) \in Nat \ {0}  BY <1>1, <1>3, FixedDuration
    <2>3. Duration(g) % d = 0  BY <1>1, <1>3 DEF Divides
    <2>4. b.end - b.start = Duration(g)  BY <2>1, <2>2
    <2> DEFINE e == Duration(g)
    <2>5. e \in Int /\ e % d = 0  BY <2>2, <2>3
    <2>6. (e \div d) * d = e /\ e \div d \in Int
      <3> HIDE DEF d, e
      <3> QED BY <1>2, <2>5, ExactQuotient, QuotientIsInt
    <2> QED BY <2>1, <2>4, <2>6 DEF Expected, Bucket
  <1>4. CASE g.unit = "month"
    <2>1. PICK n \in Int : b.end - b.start = n * Day  BY <1>1, <1>4, MonthSpan
    <2>2. b.start \in Int  BY <1>1, <1>4, MonthSpan
    <2>3. Day % d = 0  BY <1>1, <1>4 DEF Divides
    <2>4. ((n * Day) \div d) * d = n * Day
      <3> HIDE DEF d
      <3> QED BY <1>2, <2>3, MultipleDivides
    <2>5. (n * Day) \div d \in Int
      <3>1. n * Day \in Int  BY ProductIsInt
      <3> QED BY <3>1, <1>2, QuotientIsInt
    <2> QED BY <2>1, <2>2, <2>4, <2>5 DEF Expected, Bucket
  <1> QED BY <1>3, <1>4

\* So it is for the streams.
LEMMA SourceStep ==
  ASSUME NEW f \in Feeds, NEW t \in Int
  PROVE  /\ Duration(f.source) \in Nat \ {0}
         /\ SourceEnd(f, t) \in Int
         /\ Aligned(f, t) => SourceEnd(f, t) = t + Duration(f.source)
  BY FeedAssumption, FoldsInSteps DEF Folds

\* And their buckets.
LEMMA BucketIsTiled ==
  ASSUME NEW f \in Feeds, NEW t \in Int
  PROVE  /\ Bucket(f, t).start \in Int
         /\ Expected(f, Bucket(f, t)) \in Int
         /\ Expected(f, Bucket(f, t)) * Duration(f.source)
              = Bucket(f, t).end - Bucket(f, t).start
  BY FeedAssumption, FoldsTile DEF Folds

-----------------------------------------------------------------------------
(* The bucket in progress. *)

(***************************************************************************)
(* What a bucket that is not poisoned holds: the bars of its first places, *)
(* one after the other, as many as were counted, and the place after them. *)
(***************************************************************************)
Tiled(p, start, of) ==
  \A k \in 1 .. Len(of) : of[k] = start + (k - 1) * Duration(p.source)

InPlace(p, o) ==
  /\ Bucket(p, o.start).start = o.start
  /\ o.expected = Expected(p, Bucket(p, o.start))
  /\ o.bar.ts = o.start
  /\ o.seen = Len(o.bar.of)
  /\ o.next = o.start + Len(o.bar.of) * Duration(p.source)
  /\ Tiled(p, o.start, o.bar.of)

Sound(p, o) == o \in OpenBuckets(p) /\ (~ o.poisoned => InPlace(p, o))

\* A bar of the stream is folded from itself.
LEMMA BarsAreTyped ==
  ASSUME NEW f \in Feeds, NEW bar \in Bars(f)
  PROVE  bar \in TypedBars(f) /\ bar.of = <<bar.ts>>
  <1>1. f.times \subseteq Int /\ f.volumes \subseteq Nat  BY FeedAssumption
  <1>2. PICK t \in f.times, k \in f.kinds, v \in f.volumes :
          bar = [ts |-> t, kind |-> k, volume |-> Carries(k, v), of |-> <<t>>]
    BY DEF Bars
  <1>3. t \in Int /\ Carries(k, v) \in Int /\ <<t>> \in Seq(Int)  BY <1>1 DEF Carries
  <1> QED BY <1>2, <1>3 DEF TypedBars

(* A bucket is opened with one bar: in its first place, or poisoned. *)
LEMMA OpenedIsSound ==
  ASSUME NEW f \in Feeds, NEW bar \in Bars(f)
  PROVE  Sound(f, Opened(f, bar))
  <1> DEFINE b == Bucket(f, bar.ts)
             o == Opened(f, bar)
             d == Duration(f.source)
  <1>1. bar \in TypedBars(f) /\ bar.of = <<bar.ts>>  BY BarsAreTyped
  <1>2. bar.ts \in Int  BY <1>1 DEF TypedBars
  <1>3. b.start \in Int /\ Expected(f, b) \in Int /\ SourceEnd(f, bar.ts) \in Int
    BY <1>2, BucketIsTiled, SourceStep
  <1>4. o \in OpenBuckets(f)
    BY <1>1, <1>3 DEF Opened, OpenBuckets, TypedBars
  <1>5. ASSUME ~ o.poisoned PROVE InPlace(f, o)
    <2>1. Aligned(f, bar.ts) /\ bar.ts = b.start  BY <1>5 DEF Opened
    <2>2. /\ o.start = bar.ts /\ o.expected = Expected(f, b) /\ o.seen = 1
          /\ o.next = SourceEnd(f, bar.ts) /\ o.bar.ts = bar.ts /\ o.bar.of = <<bar.ts>>
      BY <1>1, <2>1 DEF Opened, TypedBars
    <2>3. o.next = bar.ts + d /\ d \in Int  BY <1>2, <2>1, <2>2, SourceStep
    <2>4. Len(o.bar.of) = 1 /\ o.bar.of[1] = bar.ts  BY <2>2
    <2> HIDE DEF o, d
    <2>5. ASSUME NEW k \in 1 .. Len(o.bar.of) PROVE o.bar.of[k] = o.start + (k - 1) * d
      <3>1. k = 1 /\ (k - 1) * d = 0  BY <2>3, <2>4
      <3> QED BY <1>2, <2>2, <2>4, <3>1
    <2>6. o.next = o.start + Len(o.bar.of) * d  BY <2>2, <2>3, <2>4
    <2> QED BY <2>1, <2>2, <2>4, <2>5, <2>6 DEF InPlace, Tiled, d
  <1> QED BY <1>4, <1>5 DEF Sound

(* What absorb changes of a bucket, and of the bar in it, keeps their types. *)
LEMMA BucketsStayTyped ==
  ASSUME NEW f, NEW o \in OpenBuckets(f), NEW k \in Nat, NEW e \in Int,
         NEW x \in TypedBars(f)
  PROVE  /\ [o EXCEPT !.seen = k, !.next = e, !.poisoned = TRUE] \in OpenBuckets(f)
         /\ [o EXCEPT !.seen = k, !.next = e, !.bar = x] \in OpenBuckets(f)
  BY DEF OpenBuckets

\* And so of the bar in it.
LEMMA BarsStayTyped ==
  ASSUME NEW f, NEW x \in TypedBars(f), NEW v \in Int, NEW of \in Seq(Int)
  PROVE  [x EXCEPT !.volume = v, !.of = of] \in TypedBars(f)
  BY DEF TypedBars

\* Nothing is said of a poisoned bucket.
LEMMA PoisonedIsSound ==
  ASSUME NEW f \in Feeds, NEW n \in OpenBuckets(f), n.poisoned
  PROVE  Sound(f, n)
  BY DEF Sound

(* A bar is added in the place after the last, or poisons the bucket. *)
LEMMA AbsorbedIsSound ==
  ASSUME NEW f \in Feeds, NEW bar \in Bars(f), NEW o, Sound(f, o)
  PROVE  Sound(f, Absorbed(f, o, bar))
  <1> DEFINE d == Duration(f.source)
             contiguous == Aligned(f, bar.ts) /\ bar.ts = o.next
             e == SourceEnd(f, bar.ts)
             s == o.bar.of
             l == Len(s)
  <1>1. bar \in TypedBars(f) /\ bar.of = <<bar.ts>>  BY BarsAreTyped
  <1>2. bar.ts \in Int /\ bar.volume \in Int  BY <1>1 DEF TypedBars
  <1>3. e \in Int /\ d \in Nat \ {0}  BY <1>2, SourceStep
  <1>4. /\ o \in OpenBuckets(f) /\ o.bar \in TypedBars(f)
        /\ s \in Seq(Int) /\ l \in Nat /\ o.seen + 1 \in Nat
    BY DEF Sound, OpenBuckets, TypedBars
  <1>5. CASE o.poisoned \/ ~ contiguous \/ bar.kind # o.bar.kind
    <2> DEFINE n == [o EXCEPT !.seen = @ + 1, !.next = e, !.poisoned = TRUE]
    <2>1. n \in OpenBuckets(f) /\ n.poisoned
      <3> HIDE DEF e
      <3>1. n \in OpenBuckets(f)  BY <1>3, <1>4, BucketsStayTyped
      <3>2. n.poisoned  BY <1>4 DEF OpenBuckets
      <3> QED BY <3>1, <3>2
    <2>2. Absorbed(f, o, bar) = n
      BY <1>4, <1>5 DEF Absorbed, OpenBuckets
    <2> HIDE DEF n
    <2> QED BY <2>1, <2>2, PoisonedIsSound
  <1>6. CASE ~ (o.poisoned \/ ~ contiguous \/ bar.kind # o.bar.kind)
    <2> DEFINE folded == [o.bar EXCEPT !.volume = @ + bar.volume, !.of = @ \o bar.of]
               n == [o EXCEPT !.seen = @ + 1, !.next = e, !.bar = folded]
    <2>1. Absorbed(f, o, bar) = n
      BY <1>4, <1>6 DEF Absorbed, OpenBuckets, TypedBars
    <2>2. /\ folded \in TypedBars(f) /\ folded.of = s \o <<bar.ts>>
          /\ folded.ts = o.bar.ts
      <3>1. s \o bar.of \in Seq(Int)  BY <1>1, <1>2, <1>4
      <3>2. o.bar.volume + bar.volume \in Int  BY <1>2, <1>4 DEF TypedBars
      <3>3. folded \in TypedBars(f)  BY <1>4, <3>1, <3>2, BarsStayTyped
      <3> QED BY <1>1, <1>4, <3>3 DEF TypedBars
    <2> HIDE DEF folded
    <2>3. n \in OpenBuckets(f)
      <3> HIDE DEF e
      <3> QED BY <1>3, <1>4, <2>2, BucketsStayTyped
    <2>4. /\ n.start = o.start /\ n.expected = o.expected /\ n.seen = o.seen + 1
          /\ n.poisoned = o.poisoned /\ n.next = e /\ n.bar = folded
      BY <1>4 DEF OpenBuckets
    <2>5. o.start \in Int  BY <1>4 DEF OpenBuckets
    <2> HIDE DEF n
    <2>6. Len(n.bar.of) = l + 1 /\ n.bar.of[l + 1] = bar.ts
          /\ \A k \in 1 .. l : n.bar.of[k] = s[k]
      BY <1>2, <1>4, <2>2, <2>4
    <2>7. /\ bar.ts = o.next /\ Aligned(f, bar.ts) /\ InPlace(f, o)
      BY <1>6 DEF Sound
    <2>8. /\ Bucket(f, o.start).start = o.start
          /\ o.expected = Expected(f, Bucket(f, o.start))
          /\ o.bar.ts = o.start /\ o.seen = l /\ o.next = o.start + l * d
          /\ \A k \in 1 .. l : s[k] = o.start + (k - 1) * d
      BY <2>7 DEF InPlace, Tiled
    <2>9. n.next = bar.ts + d  BY <1>2, <2>4, <2>7, SourceStep
    <2> HIDE DEF d, l
    <2>10. l * d \in Int /\ (l + 1) * d = l * d + d  BY <1>3, <1>4
    <2>11. n.next = n.start + Len(n.bar.of) * d
      BY <1>3, <2>4, <2>5, <2>6, <2>7, <2>8, <2>9, <2>10
    <2>12. ASSUME NEW k \in 1 .. Len(n.bar.of)
           PROVE  n.bar.of[k] = n.start + (k - 1) * d
      <3>1. CASE k = l + 1
        <4>1. k - 1 = l  BY <1>4, <3>1
        <4> QED BY <2>4, <2>6, <2>7, <2>8, <3>1, <4>1
      <3>2. CASE k # l + 1
        <4>1. k \in 1 .. l  BY <1>4, <2>6, <3>2
        <4> QED BY <2>4, <2>6, <2>8, <4>1
      <3> QED BY <3>1, <3>2
    <2>13. n.seen = Len(n.bar.of)  BY <2>4, <2>6, <2>8
    <2>14. InPlace(f, n)
      BY <2>2, <2>4, <2>8, <2>11, <2>12, <2>13 DEF InPlace, Tiled, d
    <2> QED BY <2>1, <2>3, <2>14 DEF Sound
  <1> QED BY <1>5, <1>6

(* A bucket that closes is whole. *)
LEMMA CompleteIsWhole ==
  ASSUME NEW f \in Feeds, NEW o, Sound(f, o), Complete(o)
  PROVE  Whole(f, o.bar)
  <1> DEFINE d == Duration(f.source)
             b == Bucket(f, o.start)
  <1>1. /\ o.start \in Int /\ ~ o.poisoned /\ o.seen = o.expected
        /\ b.start = o.start /\ o.expected = Expected(f, b)
        /\ o.bar.ts = o.start /\ o.seen = Len(o.bar.of)
        /\ Tiled(f, o.start, o.bar.of)
    BY DEF Sound, Complete, OpenBuckets, InPlace
  <1>2. Expected(f, b) * d = b.end - b.start  BY <1>1, BucketIsTiled
  <1>3. Len(o.bar.of) = Expected(f, b)  BY <1>1
  <1> QED BY <1>1, <1>2, <1>3 DEF Whole, Tiled

-----------------------------------------------------------------------------
(* The invariant. *)

Folding ==
  /\ feed \in Feeds
  /\ open = None \/ Sound(feed, open)
  /\ out \in Seq(TypedBars(feed))
  /\ OnlyWholeBuckets

\* An aggregator begins with nothing.
LEMMA InitFolds == Init => Folding
  BY DEF Init, Folding, OnlyWholeBuckets

(* Adding what a bucket closes to keeps the bars that are out whole. *)
LEMMA ClosedStaysWhole ==
  ASSUME Folding, out' = out \/ out' = out \o Closed(open), feed' = feed
  PROVE  /\ out' \in Seq(TypedBars(feed))
         /\ OnlyWholeBuckets'
  <1> DEFINE B == TypedBars(feed)
  <1>1. out \in Seq(B) /\ feed \in Feeds /\ (open = None \/ Sound(feed, open))
        /\ \A n \in 1 .. Len(out) : Whole(feed, out[n])
    BY DEF Folding, OnlyWholeBuckets
  <1>2. CASE out' = out
    BY <1>1, <1>2 DEF OnlyWholeBuckets
  <1>3. CASE out' = out \o <<open.bar>> /\ open # None /\ Complete(open)
    <2>1. open.bar \in B  BY <1>1, <1>3 DEF Sound, OpenBuckets
    <2>2. Whole(feed, open.bar)  BY <1>1, <1>3, CompleteIsWhole
    <2>3. out' \in Seq(B)  BY <1>1, <1>3, <2>1
    <2> HIDE DEF B
    <2>4. ASSUME NEW n \in 1 .. Len(out') PROVE Whole(feed, out'[n])
      <3>1. Len(out') = Len(out) + 1 /\ Len(out) \in Nat  BY <1>1, <1>3, <2>1
      <3>2. CASE n = Len(out) + 1
        <4>1. out'[n] = open.bar  BY <1>1, <1>3, <2>1, <3>2
        <4> QED BY <2>2, <4>1
      <3>3. CASE n \in 1 .. Len(out)
        <4>1. out'[n] = out[n]  BY <1>1, <1>3, <2>1, <3>3
        <4> QED BY <1>1, <3>3, <4>1
      <3> QED BY <3>1, <3>2, <3>3
    <2> QED BY <2>3, <2>4 DEF OnlyWholeBuckets, B
  <1>4. CASE out' = out \o <<>>
    <2>1. out' = out  BY <1>1, <1>4
    <2> QED BY <1>2, <2>1
  <1> QED BY <1>2, <1>3, <1>4 DEF Closed

\* A bar is pushed: what closes is whole, what stays open is sound.
LEMMA PushFolds ==
  ASSUME Folding, NEW bar \in Bars(feed), Push(bar)
  PROVE  Folding'
  <1>1. /\ feed' = feed /\ open' = Pushed(feed, open, bar)
        /\ out' = out \o Emitted(feed, open, bar)
    BY DEF Push
  <1>2. feed \in Feeds /\ (open = None \/ Sound(feed, open))  BY DEF Folding
  <1>3. out' = out \/ out' = out \o Closed(open)
    <2>1. out \o <<>> = out  BY DEF Folding
    <2> QED BY <1>1, <2>1 DEF Emitted
  <1>4. open' = None \/ Sound(feed, open')
    <2>1. CASE open' = Opened(feed, bar)  BY <1>2, <2>1, OpenedIsSound
    <2>2. CASE open' = Absorbed(feed, open, bar) /\ open # None
      BY <1>2, <2>2, AbsorbedIsSound
    <2>3. CASE open' = [open EXCEPT !.poisoned = TRUE] /\ open # None
      <3>1. open \in OpenBuckets(feed)  BY <1>2, <2>3 DEF Sound
      <3>2. open' \in OpenBuckets(feed) /\ open'.poisoned  BY <2>3, <3>1 DEF OpenBuckets
      <3> QED BY <1>2, <3>2, PoisonedIsSound
    <2> QED BY <1>1, <2>1, <2>2, <2>3 DEF Pushed
  <1> QED BY <1>1, <1>2, <1>3, <1>4, ClosedStaysWhole DEF Folding

\* The stream ends: the same, and nothing stays open.
LEMMA FinishFolds ==
  ASSUME Folding, Finish
  PROVE  Folding'
  <1>1. feed' = feed /\ open' = None /\ out' = out \o Closed(open)  BY DEF Finish
  <1>2. feed \in Feeds  BY DEF Folding
  <1> QED BY <1>1, <1>2, ClosedStaysWhole DEF Folding

\* The invariant is kept by every step.
LEMMA NextFolds == Folding /\ [Next]_vars => Folding'
  <1> SUFFICES ASSUME Folding, [Next]_vars PROVE Folding'
    OBVIOUS
  <1>1. CASE \E bar \in Bars(feed) : Push(bar)  BY <1>1, PushFolds
  <1>2. CASE Finish  BY <1>2, FinishFolds
  <1>3. CASE UNCHANGED vars
    BY <1>3 DEF vars, Folding, OnlyWholeBuckets
  <1> QED BY <1>1, <1>2, <1>3 DEF Next

(***************************************************************************)
(* Whatever is lost, repeated, reordered or misplaced in a stream, and     *)
(* whatever the two specs, a bar that is given out is folded from every    *)
(* source bar of its bucket, each once and in order: a month of 28 days    *)
(* needs 28, and a gap is not made up for by a repetition (Aggregator).    *)
(***************************************************************************)
THEOREM WholeBucketsHold == Spec => []OnlyWholeBuckets
  <1>1. Folding => OnlyWholeBuckets  BY DEF Folding
  <1> QED BY InitFolds, NextFolds, <1>1, PTL DEF Spec

\* The last bar is one of the stream.
LEMMA LastIsTyped == Spec => [](feed \in Feeds /\ (last = None \/ last \in Bars(feed)))
<1> DEFINE I == feed \in Feeds /\ (last = None \/ last \in Bars(feed))
<1>1. Init => I
  BY DEF Init
<1>2. I /\ [Next]_vars => I'
  BY DEF Next, Push, Finish, vars
<1> QED
  BY <1>1, <1>2, PTL DEF Spec

(***************************************************************************)
(* For every day there ever was or will be, and every bucket of days,      *)
(* weeks or months: the date the code computes is that of the Gregorian    *)
(* calendar, both directions agree, and buckets tile the days              *)
(* (core/time.rs, bucket_bounds).                                          *)
(***************************************************************************)
THEOREM CalendarHolds == HopSpec => []CalendarAgrees
<1>1. ASSUME feed \in Feeds, last = None \/ last \in Bars(feed) PROVE CalendarAgrees
  <2> SUFFICES ASSUME last # None PROVE CalendarAgrees
    BY DEF CalendarAgrees
  <2> DEFINE day == DayOf(last.ts, feed.anchor)
             date == CivilFromDays(day)
             b == BucketDays(day, feed.target)
  <2>1. last.ts \in Int /\ feed.anchor \in Int /\ feed.target \in Specs
    BY <1>1, BarsAreTyped, FeedAssumption DEF TypedBars
  <2>2. day \in Int
    <3>1. last.ts - feed.anchor \in Int
      BY <2>1
    <3> QED
      BY <3>1, QuotientIsInt, DayAssumption DEF DayOf
  <2> HIDE DEF day
  <2>3. CivilFromDays(day + 1) = DayAfter(date)
    BY <2>2, CivilNextDay
  <2>4. DaysFromCivil(date.year, date.month, date.day) = day
    <3>1. PICK y, doy \in Int : IsDay(day, y, doy) /\ date = CivilFromMarch(y, doy)
      BY <2>2, CivilIsDay
    <3> HIDE DEF date
    <3> QED
      BY <2>2, <3>1, DaysOfCivil
  <2>5. ASSUME feed.target.unit # "intraday"
        PROVE  /\ b.start <= day /\ day < b.end
               /\ BucketDays(b.end, feed.target).start = b.end
               /\ feed.target.unit = "week" => (b.start - 4) % 7 = 0
               /\ feed.target.unit = "month" => CivilFromDays(b.start).day = 1
    BY <2>1, <2>2, <2>5, BucketsTileDays, BucketsBegin
  <2> HIDE DEF date, b
  <2> QED
    BY <2>3, <2>4, <2>5, EpochDate DEF CalendarAgrees, day, date, b
<1>2. HopSpec => Spec
  <2>1. HopInit => Init
    BY DEF HopInit
  <2>2. [HopNext]_hopVars => [Next]_vars
    BY DEF HopNext, HopPush, HopFinish, hopVars, Next
  <2> QED
    BY <2>1, <2>2, PTL DEF HopSpec, Spec
<1> QED
  BY <1>1, <1>2, LastIsTyped, PTL

-----------------------------------------------------------------------------
(***************************************************************************)
(* Nothing is lost that came in order.                                     *)
(*                                                                         *)
(* Since a bar that was later than all before it, the bars have come one   *)
(* duration after the other, alike.  Each bucket that began since then is  *)
(* given out, is filling without a fault (Filling), has too much volume,   *)
(* or was cut short by the end of the stream.  That a bucket fills without *)
(* a fault needs that no bucket in progress begins after the last bar      *)
(* (Ordered), and that buckets tile the times.                             *)
(***************************************************************************)
InStep(s, t) == s <= t /\ (t - s) % Duration(feed.source) = 0

Ordered ==
  /\ last = None \/ last \in Bars(feed)
  /\ high = None \/ high \in Int
  /\ high = None => last = None /\ open = None /\ since = None
  /\ open # None => open.start <= high
  /\ since # None =>
       /\ since \in Int /\ last # None /\ last.ts = high /\ InStep(since, last.ts)
       /\ Aligned(feed, since) => Aligned(feed, last.ts)

\* The bucket that begins at t is the one in progress, and all its bars came so far.
Filling(t) ==
  /\ open # None /\ open.start = t /\ ~ open.poisoned
  /\ open.next = last.ts + Duration(feed.source)
  /\ open.bar.kind = last.kind /\ open.bar.volume = open.seen * last.volume

Kept(t) ==
  LET b == Bucket(feed, t)
  IN  \/ \E n \in 1 .. Len(out) : out[n].ts = t
      \/ Expected(feed, b) * last.volume > MaxVolume
      \/ finished /\ last.ts + Duration(feed.source) < b.end
      \/ ~ finished /\ last.ts < b.end /\ Filling(t)

Begun(t) ==
  Bucket(feed, t).start = t /\ InStep(since, t) /\ t <= last.ts

InOrder ==
  since # None /\ Aligned(feed, since) => \A t \in feed.times : Begun(t) => Kept(t)

\* Steps of one duration: the one after, and the next one on a grid.
LEMMA StepOn ==
  ASSUME NEW s \in Int, NEW t \in Int, NEW u \in Int, NEW d \in Nat \ {0},
         s <= t, (t - s) % d = 0
  PROVE  /\ (t + d - s) % d = 0
         /\ s <= u /\ (u - s) % d = 0 /\ t < u => t + d <= u
<1> DEFINE a == (t - s) \div d
           b == (u - s) \div d
<1>1. a \in Int /\ t - s = a * d
  BY QuotientIsInt, ExactQuotient
<1>2. b \in Int /\ ((u - s) % d = 0 => u - s = b * d)
  BY QuotientIsInt, ExactQuotient
<1> HIDE DEF a, b
<1>3. a * d \in Int /\ b * d \in Int
  BY <1>1, <1>2, ProductIsInt
<1>4. (t + d - s) % d = 0
  <2>1. t + d - s = (a + 1) * d
    BY <1>1, <1>3
  <2>2. a + 1 \in Int /\ ((a + 1) * d) % d = 0
    BY <1>1
  <2> QED
    BY <2>1, <2>2
<1>5. ASSUME (u - s) % d = 0, t < u PROVE t + d <= u
  <2>1. u - s = b * d
    BY <1>2, <1>5
  <2>2. a < b
    <3>1. b <= a => b * d <= a * d
      BY <1>1, <1>2, ProductsInOrder
    <3> QED
      BY <1>1, <1>2, <1>3, <1>5, <2>1, <3>1
  <2>3. a * d + d <= b * d
    BY <1>1, <1>2, <2>2, ProductsInOrder
  <2> QED
    BY <1>1, <1>3, <2>1, <2>3
<1> QED
  BY <1>4, <1>5

\* The source bar after an aligned one is aligned.
LEMMA NextIsAligned ==
  ASSUME NEW f \in Feeds, NEW t \in Int, Aligned(f, t)
  PROVE  Aligned(f, t + Duration(f.source))
<1> DEFINE u == t + Duration(f.source)
           a == Bounds(t, f.source, f.anchor)
           b == Bounds(u, f.source, f.anchor)
<1>1. f.source \in Specs /\ f.anchor \in Int /\ u \in Int
  BY FeedAssumption, SourceStep
<1>2. a.end = u
  BY SourceStep DEF SourceEnd
<1>3. b.start \in Int /\ b.start <= u /\ (a.end <= u => a.end <= b.start)
  BY <1>1, BucketsTileTime
<1>4. b.start = u
  BY <1>1, <1>2, <1>3
<1> QED
  BY <1>4 DEF Aligned

\* What a step needs of the stream's bars.
LEMMA LastBar ==
  ASSUME Folding, Ordered, last # None
  PROVE  /\ feed \in Feeds /\ last.ts \in Int /\ last.volume \in Int
         /\ Duration(feed.source) \in Nat \ {0}
<1>1. feed \in Feeds /\ last \in Bars(feed)
  BY DEF Folding, Ordered
<1>2. last \in TypedBars(feed)
  BY <1>1, BarsAreTyped
<1>3. last.ts \in Int /\ last.volume \in Int
  BY <1>2 DEF TypedBars
<1> QED
  BY <1>1, <1>3, SourceStep

\* A bucket in progress begins by the bar that opened it.
LEMMA PushedBegins ==
  ASSUME Folding, Ordered, NEW bar \in Bars(feed), Push(bar)
  PROVE  /\ open' # None /\ open'.start \in Int /\ open'.start <= high'
         /\ high' \in Int /\ bar.ts <= high'
<1>1. feed \in Feeds /\ (open = None \/ Sound(feed, open))
  BY DEF Folding
<1>2. bar \in TypedBars(feed) /\ bar.ts \in Int
  BY <1>1, BarsAreTyped DEF TypedBars
<1>3. Bucket(feed, bar.ts).start \in Int /\ Bucket(feed, bar.ts).start <= bar.ts
  BY <1>1, <1>2, FeedAssumption, BucketsTileTime DEF Bucket
<1>4. high' \in Int /\ bar.ts <= high' /\ (high # None => high <= high' /\ high \in Int)
  BY <1>2 DEF Push, Ordered
<1>5. open' = Pushed(feed, open, bar)
  BY DEF Push
<1>6. CASE open' = Opened(feed, bar)
  <2>1. Opened(feed, bar) \in OpenBuckets(feed)
    BY <1>1, OpenedIsSound DEF Sound
  <2>2. Opened(feed, bar).start = Bucket(feed, bar.ts).start
    BY DEF Opened
  <2>3. Opened(feed, bar) # None
    BY <1>1, <2>1, NoneAssumption
  <2>4. open'.start \in Int /\ open'.start <= bar.ts
    BY <1>3, <1>6, <2>2
  <2> QED
    BY <1>2, <1>4, <1>6, <2>3, <2>4
<1>7. CASE open # None /\ (open' = Absorbed(feed, open, bar) \/ open' = [open EXCEPT !.poisoned = TRUE])
  <2>1. open \in OpenBuckets(feed) /\ high # None /\ open.start <= high
    BY <1>1, <1>7 DEF Sound, Ordered
  <2>2. open' \in OpenBuckets(feed)
    <3>1. CASE open' = Absorbed(feed, open, bar)
      BY <1>1, <1>7, <3>1, AbsorbedIsSound DEF Sound
    <3>2. CASE open' = [open EXCEPT !.poisoned = TRUE]
      BY <2>1, <3>2 DEF OpenBuckets
    <3> QED
      BY <1>7, <3>1, <3>2
  <2>3. open'.start = open.start /\ open.start \in Int
    <3>1. CASE open' = Absorbed(feed, open, bar)
      BY <2>1, <3>1 DEF Absorbed, OpenBuckets
    <3>2. CASE open' = [open EXCEPT !.poisoned = TRUE]
      BY <2>1, <3>2 DEF OpenBuckets
    <3> QED
      BY <1>7, <2>1, <3>1, <3>2 DEF OpenBuckets
  <2> QED
    BY <1>1, <1>4, <2>1, <2>2, <2>3, NoneAssumption
<1> QED
  BY <1>5, <1>6, <1>7 DEF Pushed

\* Where the stream stands after a step.
LEMMA PushOrders ==
  ASSUME Folding, Ordered, NEW bar \in Bars(feed), Push(bar)
  PROVE  Ordered'
<1> DEFINE d == Duration(feed.source)
<1>1. feed \in Feeds /\ feed' = feed /\ last' = bar /\ bar.ts \in Int
  BY BarsAreTyped DEF Folding, Push, TypedBars
<1>2. bar # None
  BY <1>1, BarsAreTyped, NoneAssumption
<1>3. /\ open' # None /\ open'.start \in Int /\ open'.start <= high'
      /\ high' \in Int /\ bar.ts <= high' /\ high' # None
  BY PushedBegins, NoneAssumption
<1>4. d \in Nat \ {0}
  BY <1>1, SourceStep
<1>5. CASE since # None /\ Regular(bar)
  <2>1. since' = since /\ since \in Int /\ last # None /\ last.ts = high /\ InStep(since, last.ts)
    BY <1>5 DEF Push, Ordered
  <2>2. bar.ts = last.ts + d /\ last.ts \in Int
    BY <1>5, <2>1, LastBar DEF Regular
  <2>3. high' = bar.ts
    <3>1. bar.ts > high
      BY <1>4, <2>1, <2>2
    <3> QED
      BY <3>1 DEF Push
  <2>4. since <= bar.ts /\ (bar.ts - since) % d = 0
    <3>1. since <= last.ts /\ (last.ts - since) % d = 0
      BY <2>1 DEF InStep
    <3> HIDE DEF d
    <3>2. (last.ts + d - since) % d = 0
      BY <1>4, <2>1, <2>2, <3>1, StepOn
    <3> QED
      BY <1>4, <2>1, <2>2, <3>1, <3>2
  <2>5. Aligned(feed, since) => Aligned(feed, bar.ts)
    BY <1>1, <1>5, <2>2, NextIsAligned DEF Ordered
  <2> QED
    BY <1>1, <1>2, <1>3, <2>1, <2>3, <2>4, <2>5 DEF Ordered, InStep
<1>6. CASE ~ (since # None /\ Regular(bar)) /\ (high = None \/ bar.ts > high)
  <2>1. since' = bar.ts /\ high' = bar.ts
    BY <1>6 DEF Push
  <2>2. bar.ts <= bar.ts /\ (bar.ts - bar.ts) % d = 0
    <3> HIDE DEF d
    <3>1. bar.ts - bar.ts = 0 /\ 0 % d = 0
      BY <1>1, <1>4
    <3> QED
      BY <1>1, <3>1
  <2> QED
    BY <1>1, <1>2, <1>3, <2>1, <2>2 DEF Ordered, InStep
<1>7. CASE ~ (since # None /\ Regular(bar)) /\ ~ (high = None \/ bar.ts > high)
  <2>1. since' = None
    BY <1>7 DEF Push
  <2> QED
    BY <1>1, <1>2, <1>3, <2>1 DEF Ordered
<1> QED
  BY <1>5, <1>6, <1>7

\* A bar later than all before it, at the beginning of its bucket: the bucket fills from here.
LEMMA FirstFills ==
  ASSUME Folding, Ordered, NEW bar \in Bars(feed), Push(bar),
         high = None \/ bar.ts > high, Aligned(feed, bar.ts), Bucket(feed, bar.ts).start = bar.ts
  PROVE  Kept(bar.ts)'
<1> DEFINE b == Bucket(feed, bar.ts)
           d == Duration(feed.source)
<1>1. /\ feed \in Feeds /\ feed' = feed /\ last' = bar /\ finished' = finished /\ ~ finished
      /\ bar \in TypedBars(feed) /\ bar.ts \in Int /\ bar.volume \in Int
  BY BarsAreTyped DEF Folding, Push, TypedBars
<1>2. open = None \/ b.start > open.start
  <2> SUFFICES ASSUME open # None PROVE bar.ts > open.start
    OBVIOUS
  <2>1. open \in OpenBuckets(feed) /\ open.start \in Int
    BY DEF Folding, Sound, OpenBuckets
  <2>2. high \in Int /\ open.start <= high /\ bar.ts > high
    BY DEF Ordered
  <2> QED
    BY <1>1, <2>1, <2>2
<1>3. open' = Opened(feed, bar)
  BY <1>2 DEF Push, Pushed
<1>4. /\ open'.start = bar.ts /\ open'.seen = 1 /\ ~ open'.poisoned
      /\ open'.next = bar.ts + d /\ open'.bar = [bar EXCEPT !.ts = bar.ts]
  BY <1>1, <1>3, SourceStep DEF Opened
<1>5. open'.bar.kind = bar.kind /\ open'.bar.volume = bar.volume
  BY <1>1, <1>4 DEF TypedBars
<1>6. open' # None
  <2>1. Opened(feed, bar) \in OpenBuckets(feed)
    BY <1>1, OpenedIsSound DEF Sound
  <2> QED
    BY <1>1, <1>3, <2>1, NoneAssumption
<1>7. bar.ts < b.end
  BY <1>1, FeedAssumption, BucketsTileTime DEF Bucket
<1>8. 1 * bar.volume = bar.volume
  BY <1>1
<1>9. Filling(bar.ts)'
  BY <1>1, <1>4, <1>5, <1>6, <1>8 DEF Filling
<1> QED
  BY <1>1, <1>7, <1>9 DEF Kept

\* What is given out stays so.
LEMMA OutGrows ==
  ASSUME Folding, NEW x \in {<<>>, Closed(open)}, out' = out \o x, NEW t,
         \/ \E n \in 1 .. Len(out) : out[n].ts = t
         \/ x # <<>> /\ open.bar.ts = t
  PROVE  \E n \in 1 .. Len(out') : out'[n].ts = t
<1> DEFINE B == TypedBars(feed)
<1>1. out \in Seq(B) /\ (open = None \/ Sound(feed, open))
  BY DEF Folding
<1>2. CASE x = <<>>
  <2>1. out' = out
    BY <1>1, <1>2
  <2> QED
    BY <1>2, <2>1
<1>3. CASE x # <<>>
  <2>1. x = <<open.bar>> /\ open # None
    BY <1>3 DEF Closed
  <2>2. open.bar \in B
    BY <1>1, <2>1 DEF Sound, OpenBuckets
  <2> HIDE DEF B
  <2>3. Len(out) \in Nat /\ Len(out') = Len(out) + 1 /\ out'[Len(out) + 1] = open.bar
    BY <1>1, <2>1, <2>2
  <2>4. \A n \in 1 .. Len(out) : out'[n] = out[n]
    BY <1>1, <2>1, <2>2
  <2>5. CASE \E n \in 1 .. Len(out) : out[n].ts = t
    <3>1. PICK n \in 1 .. Len(out) : out[n].ts = t
      BY <2>5
    <3>2. n \in 1 .. Len(out') /\ out'[n].ts = t
      BY <2>3, <2>4, <3>1
    <3> QED
      BY <3>2
  <2>6. CASE open.bar.ts = t
    <3>1. Len(out) + 1 \in 1 .. Len(out')
      BY <2>3
    <3> QED
      BY <2>3, <2>6, <3>1
  <2> QED
    BY <2>5, <2>6
<1> QED
  BY <1>2, <1>3

\* A bucket filling without a fault is complete when the stream has reached its end.
LEMMA FullIsComplete ==
  ASSUME Folding, Ordered, last # None, NEW t \in Int, Bucket(feed, t).start = t, Filling(t),
         last.ts < Bucket(feed, t).end, Bucket(feed, t).end <= last.ts + Duration(feed.source),
         ~ (Expected(feed, Bucket(feed, t)) * last.volume > MaxVolume)
  PROVE  Complete(open) /\ open.bar.ts = t
<1> DEFINE d == Duration(feed.source)
           b == Bucket(feed, t)
           e == Expected(feed, b)
           n == open.seen
<1>1. /\ feed \in Feeds /\ last.ts \in Int /\ last.volume \in Int /\ d \in Nat \ {0}
  BY LastBar
<1>2. Sound(feed, open) /\ InPlace(feed, open) /\ open.start = t /\ ~ open.poisoned
  BY DEF Filling, Folding, Sound
<1>3. n \in Nat /\ open.expected = e /\ open.bar.ts = t /\ open.next = t + n * d
  BY <1>2 DEF Sound, OpenBuckets, InPlace
<1>4. e \in Int /\ e * d = b.end - t /\ b.end \in Int
  BY <1>1, BucketIsTiled, BucketsTileTime, FeedAssumption DEF Bucket
<1>5. last.ts + d = t + n * d
  BY <1>3 DEF Filling
<1> HIDE DEF d, b, e, n
<1>6. n * d \in Int
  BY <1>1, <1>3, ProductIsInt
<1>7. ~ (e < n)
  <2>1. e < n => e * d + d <= n * d
    BY <1>1, <1>3, <1>4, ProductsInOrder
  <2>2. last.ts < b.end
    BY DEF b
  <2> QED
    BY <1>1, <1>4, <1>5, <1>6, <2>1, <2>2
<1>8. ~ (n < e)
  <2>1. n < e => n * d + d <= e * d
    BY <1>1, <1>3, <1>4, ProductsInOrder
  <2>2. b.end <= last.ts + d
    BY DEF b, d
  <2> QED
    BY <1>1, <1>4, <1>5, <1>6, <2>1, <2>2
<1>9. n = e
  BY <1>3, <1>4, <1>7, <1>8
<1>10. open.bar.volume = e * last.volume
  BY <1>9 DEF Filling, n
<1>11. open.bar.volume <= MaxVolume
  <2>1. e * last.volume \in Int /\ MaxVolume \in Int
    BY <1>1, <1>4, ProductIsInt, FeedAssumption
  <2>2. ~ (e * last.volume > MaxVolume)
    BY DEF e, b
  <2> QED
    BY <1>10, <2>1, <2>2
<1> QED
  BY <1>2, <1>3, <1>9, <1>11 DEF Complete, n

\* The next bar of the stream keeps what came in order.
LEMMA RegularKeeps ==
  ASSUME Folding, Ordered, NEW bar \in Bars(feed), Push(bar), since # None, Regular(bar),
         Aligned(feed, since), NEW t \in feed.times, Bucket(feed, t).start = t, Kept(t)
  PROVE  Kept(t)'
<1> DEFINE d == Duration(feed.source)
           b == Bucket(feed, t)
           e == Expected(feed, b)
<1>1. /\ feed \in Feeds /\ feed' = feed /\ last' = bar /\ finished' = finished /\ ~ finished
      /\ bar \in TypedBars(feed) /\ bar.ts \in Int
  BY BarsAreTyped DEF Folding, Push, TypedBars
<1>2. /\ last # None /\ last.ts \in Int /\ last.volume \in Int /\ d \in Nat \ {0}
      /\ Aligned(feed, last.ts)
  BY LastBar DEF Ordered
<1>3. bar.ts = last.ts + d /\ bar.kind = last.kind /\ bar.volume = last.volume
  BY <1>2 DEF Regular
<1>4. t \in Int
  BY <1>1, FeedAssumption
<1>5. /\ b.end \in Int /\ t < b.end
      /\ t <= bar.ts /\ bar.ts < b.end => Bucket(feed, bar.ts).start = t
      /\ b.end <= bar.ts => b.end <= Bucket(feed, bar.ts).start
  BY <1>1, <1>4, FeedAssumption, BucketsTileTime DEF Bucket
<1>6. /\ open' = Pushed(feed, open, bar) /\ out' = out \o Emitted(feed, open, bar)
      /\ Emitted(feed, open, bar) \in {<<>>, Closed(open)}
  BY DEF Push, Emitted
<1> HIDE DEF b, e, d
<1>7. CASE \E n \in 1 .. Len(out) : out[n].ts = t
  <2>1. \E n \in 1 .. Len(out') : out'[n].ts = t
    BY <1>6, <1>7, OutGrows
  <2> QED
    BY <2>1 DEF Kept
<1>8. CASE e * last.volume > MaxVolume
  BY <1>1, <1>3, <1>8 DEF Kept, e, b
<1>9. CASE last.ts < b.end /\ Filling(t)
  <2>1. /\ open # None /\ open.start = t /\ ~ open.poisoned /\ open.next = bar.ts
        /\ open.bar.kind = bar.kind /\ open.bar.volume = open.seen * bar.volume
    BY <1>3, <1>9 DEF Filling, d
  <2>2. /\ Sound(feed, open) /\ open \in OpenBuckets(feed) /\ InPlace(feed, open)
        /\ open.bar \in TypedBars(feed) /\ open.seen \in Nat
    BY <2>1 DEF Folding, Sound, OpenBuckets
  <2>3. t <= bar.ts
    <3>1. bar.ts = t + open.seen * d /\ open.seen * d >= 0
      BY <1>2, <2>1, <2>2 DEF InPlace, d
    <3> QED
      BY <1>1, <1>2, <1>4, <2>2, <3>1, ProductIsInt
  <2>4. Aligned(feed, bar.ts)
    BY <1>1, <1>2, <1>3, NextIsAligned DEF d
  <2>5. CASE bar.ts < b.end
    <3>1. Bucket(feed, bar.ts).start = open.start
      BY <1>5, <2>1, <2>3, <2>5
    <3>2. open' = Absorbed(feed, open, bar)
      <4>1. ~ (open.start > open.start)
        BY <1>4, <2>1
      <4> QED
        BY <1>6, <2>1, <3>1, <4>1 DEF Pushed
    <3>3. /\ open'.start = t /\ ~ open'.poisoned /\ open'.seen = open.seen + 1
          /\ open'.next = SourceEnd(feed, bar.ts)
      BY <2>1, <2>2, <2>4, <3>2 DEF Absorbed, OpenBuckets
    <3>4. open'.bar.kind = open.bar.kind /\ open'.bar.volume = open.bar.volume + bar.volume
      BY <2>1, <2>2, <2>4, <3>2 DEF Absorbed, OpenBuckets, TypedBars
    <3>5. SourceEnd(feed, bar.ts) = bar.ts + d
      BY <1>1, <2>4, SourceStep DEF d
    <3>6. open'.bar.volume = open'.seen * bar.volume
      <4>1. (open.seen + 1) * bar.volume = open.seen * bar.volume + bar.volume
        BY <1>2, <1>3, <2>2
      <4> QED
        BY <2>1, <3>3, <3>4, <4>1
    <3>7. open' # None
      <4>1. Absorbed(feed, open, bar) \in OpenBuckets(feed)
        BY <1>1, <2>2, AbsorbedIsSound DEF Sound
      <4> QED
        BY <1>1, <3>2, <4>1, NoneAssumption
    <3>8. Filling(t)'
      BY <1>1, <2>1, <3>3, <3>4, <3>5, <3>6, <3>7 DEF Filling, d
    <3> QED
      BY <1>1, <2>5, <3>8 DEF Kept, b
  <2>6. CASE ~ (bar.ts < b.end) /\ ~ (e * last.volume > MaxVolume)
    <3>1. b.end <= last.ts + d
      BY <1>1, <1>3, <1>5, <2>6
    <3>2. Complete(open) /\ open.bar.ts = t
      BY <1>2, <1>4, <1>9, <2>6, <3>1, FullIsComplete DEF b, d, e
    <3>3. Bucket(feed, bar.ts).start > open.start
      <4>1. Bucket(feed, bar.ts).start \in Int /\ b.end <= Bucket(feed, bar.ts).start
        BY <1>1, <1>5, <2>6, BucketIsTiled
      <4> QED
        BY <1>4, <1>5, <2>1, <4>1
    <3>4. Emitted(feed, open, bar) = <<open.bar>>
      BY <2>1, <3>2, <3>3 DEF Emitted, Closed
    <3>5. \E n \in 1 .. Len(out') : out'[n].ts = t
      <4>1. <<open.bar>> # <<>>
        OBVIOUS
      <4> QED
        BY <1>6, <3>2, <3>4, <4>1, OutGrows
    <3> QED
      BY <3>5 DEF Kept
  <2> QED
    BY <1>8, <2>5, <2>6
<1> QED
  BY <1>1, <1>7, <1>8, <1>9 DEF Kept, e, b, d

\* A bar out of line leaves only the buckets that begin with it.
LEMMA PushKeepsOrder ==
  ASSUME Folding, Ordered, InOrder, NEW bar \in Bars(feed), Push(bar)
  PROVE  InOrder'
<1> SUFFICES ASSUME since' # None, Aligned(feed, since'), NEW t \in feed.times,
                    Bucket(feed, t).start = t, InStep(since, t)', t <= bar.ts
             PROVE  Kept(t)'
  BY DEF InOrder, Begun, Push, Aligned, Bucket
<1> DEFINE d == Duration(feed.source)
<1>1. /\ feed \in Feeds /\ feed' = feed /\ bar.ts \in Int /\ t \in Int /\ d \in Nat \ {0}
  BY BarsAreTyped, FeedAssumption, SourceStep DEF Folding, Push, TypedBars
<1>2. since' <= t /\ (t - since') % d = 0
  BY <1>1 DEF InStep
<1>3. CASE since # None /\ Regular(bar)
  <2>1. /\ since' = since /\ since \in Int /\ last # None /\ last.ts = high /\ InStep(since, last.ts)
        /\ Aligned(feed, last.ts)
    BY <1>3 DEF Push, Ordered
  <2>2. bar.ts = last.ts + d /\ last.ts \in Int
    BY <2>1, <1>3, LastBar DEF Regular
  <2>3. CASE t <= last.ts
    <3>1. Kept(t)
      BY <1>2, <1>3, <2>1, <2>3 DEF InOrder, Begun, InStep
    <3> QED
      BY <1>3, <2>1, <3>1, RegularKeeps
  <2>4. CASE ~ (t <= last.ts)
    <3>1. since <= last.ts /\ (last.ts - since) % d = 0
      BY <2>1 DEF InStep
    <3> HIDE DEF d
    <3>2. last.ts + d <= t
      <4>1. last.ts < t /\ since <= t
        BY <1>1, <1>2, <2>1, <2>2, <2>4
      <4> QED
        BY <1>1, <1>2, <2>1, <2>2, <3>1, <4>1, StepOn
    <3>3. t = bar.ts /\ bar.ts > high
      BY <1>1, <2>1, <2>2, <2>4, <3>2
    <3>4. Aligned(feed, bar.ts)
      BY <1>1, <2>1, <2>2, NextIsAligned DEF d
    <3> QED
      BY <3>3, <3>4, FirstFills
  <2> QED
    BY <2>3, <2>4
<1>4. CASE ~ (since # None /\ Regular(bar))
  <2>1. since' = bar.ts /\ (high = None \/ bar.ts > high)
    BY <1>4 DEF Push
  <2>2. t = bar.ts
    BY <1>1, <1>2, <2>1
  <2> QED
    BY <2>1, <2>2, FirstFills
<1> QED
  BY <1>3, <1>4

\* The end of the stream closes what is full and cuts short the rest.
LEMMA FinishKeepsOrder ==
  ASSUME Folding, Ordered, InOrder, Finish
  PROVE  Ordered' /\ InOrder'
<1>1. /\ feed' = feed /\ last' = last /\ since' = since /\ high' = high /\ open' = None
      /\ ~ finished /\ finished' /\ out' = out \o Closed(open)
  BY DEF Finish
<1>2. Ordered'
  BY <1>1 DEF Ordered, InStep
<1>3. ASSUME since # None, Aligned(feed, since), NEW t \in feed.times, Begun(t)
      PROVE  Kept(t)'
  <2> DEFINE d == Duration(feed.source)
             b == Bucket(feed, t)
             e == Expected(feed, b)
  <2>1. Kept(t) /\ b.start = t /\ last # None
    BY <1>3 DEF InOrder, Begun, Ordered
  <2>2. feed \in Feeds /\ t \in Int /\ last.ts \in Int /\ d \in Nat \ {0}
    BY <2>1, LastBar, FeedAssumption
  <2>3. b.end \in Int
    BY <2>2, FeedAssumption, BucketsTileTime DEF Bucket
  <2> HIDE DEF b, d, e
  <2>4. CASE \E n \in 1 .. Len(out) : out[n].ts = t
    <3>1. \E n \in 1 .. Len(out') : out'[n].ts = t
      BY <1>1, <2>4, OutGrows
    <3> QED
      BY <3>1 DEF Kept
  <2>5. CASE e * last.volume > MaxVolume
    BY <1>1, <2>5 DEF Kept, e, b
  <2>6. CASE last.ts < b.end /\ Filling(t) /\ ~ (e * last.volume > MaxVolume)
    <3>1. CASE last.ts + d < b.end
      BY <1>1, <3>1 DEF Kept, b, d
    <3>2. CASE ~ (last.ts + d < b.end)
      <4>1. b.end <= last.ts + d
        BY <2>2, <2>3, <3>2
      <4>2. Complete(open) /\ open.bar.ts = t /\ open # None
        BY <2>1, <2>2, <2>6, <4>1, FullIsComplete DEF b, d, e, Filling
      <4>3. Closed(open) = <<open.bar>> /\ <<open.bar>> # <<>>
        BY <4>2 DEF Closed
      <4>4. \E n \in 1 .. Len(out') : out'[n].ts = t
        BY <1>1, <4>2, <4>3, OutGrows
      <4> QED
        BY <4>4 DEF Kept
    <3> QED
      BY <3>1, <3>2
  <2> QED
    BY <1>1, <2>1, <2>4, <2>5, <2>6 DEF Kept, b, d, e
<1>4. InOrder'
  BY <1>1, <1>3 DEF InOrder, Begun, InStep, Aligned, Bucket
<1> QED
  BY <1>2, <1>4

\* Where a bucket that the property asks for stands.
LEMMA KeptIsHeld ==
  ASSUME Folding, Ordered, InOrder
  PROVE  InOrderLosesNothing
<1> SUFFICES ASSUME since # None, Aligned(feed, since), NEW t \in feed.times,
                    t = Bucket(feed, t).start, since <= t,
                    Bucket(feed, t).end <= last.ts + Duration(feed.source),
                    Expected(feed, Bucket(feed, t)) * last.volume <= MaxVolume,
                    (t - since) % Duration(feed.source) = 0
             PROVE  Held(t)
  BY DEF InOrderLosesNothing
<1> DEFINE d == Duration(feed.source)
           b == Bucket(feed, t)
           e == Expected(feed, b)
<1>1. /\ last # None /\ since \in Int /\ since <= last.ts /\ (last.ts - since) % d = 0
  BY DEF Ordered, InStep
<1>2. feed \in Feeds /\ t \in Int /\ last.ts \in Int /\ last.volume \in Int /\ d \in Nat \ {0}
  BY <1>1, LastBar, FeedAssumption
<1>3. b.end \in Int /\ t < b.end
  BY <1>2, FeedAssumption, BucketsTileTime DEF Bucket
<1>4. e \in Int
  BY <1>2, BucketIsTiled
<1>5. t <= last.ts
  <2> SUFFICES ASSUME last.ts < t PROVE FALSE
    BY <1>2
  <2>1. (t - since) % d = 0 /\ since <= t
    OBVIOUS
  <2>2. b.end <= last.ts + d
    OBVIOUS
  <2> HIDE DEF b, d
  <2>3. last.ts + d <= t
    BY <1>1, <1>2, <2>1, StepOn
  <2> QED
    BY <1>2, <1>3, <2>2, <2>3
<1>6. Kept(t)
  BY <1>5 DEF InOrder, Begun, InStep
<1>7. ~ (e * last.volume > MaxVolume)
  <2>1. e * last.volume \in Int /\ MaxVolume \in Int
    BY <1>2, <1>4, ProductIsInt, FeedAssumption
  <2>2. e * last.volume <= MaxVolume
    OBVIOUS
  <2> HIDE DEF e
  <2> QED
    BY <2>1, <2>2
<1>8. ~ (last.ts + d < b.end)
  <2>1. b.end <= last.ts + d
    OBVIOUS
  <2> HIDE DEF b, d
  <2> QED
    BY <1>2, <1>3, <2>1
<1>9. CASE \E n \in 1 .. Len(out) : out[n].ts = t
  BY <1>9 DEF Held
<1>10. CASE last.ts < b.end /\ Filling(t)
  <2>1. Complete(open)
    BY <1>1, <1>2, <1>7, <1>10, FullIsComplete
  <2> QED
    BY <1>10, <2>1 DEF Held, Filling
<1> HIDE DEF b, d, e
<1> QED
  BY <1>6, <1>7, <1>8, <1>9, <1>10 DEF Kept, b, d, e

(***************************************************************************)
(* A bucket all of whose bars came in order is given out, or is about to   *)
(* be, for every pair of specs, the month among them, every anchor and     *)
(* every stream: poison does not outlive its bucket (Aggregator::push).    *)
(***************************************************************************)
THEOREM OrderHolds == Spec => []InOrderLosesNothing
<1> DEFINE I == Folding /\ Ordered /\ InOrder
<1>1. Init => I
  BY InitFolds DEF Init, Ordered, InOrder
<1>2. I /\ [Next]_vars => I'
  <2> SUFFICES ASSUME Folding, Ordered, InOrder, [Next]_vars PROVE I'
    OBVIOUS
  <2>1. Folding'
    BY NextFolds
  <2>2. CASE \E bar \in Bars(feed) : Push(bar)
    BY <2>1, <2>2, PushOrders, PushKeepsOrder
  <2>3. CASE Finish
    BY <2>1, <2>3, FinishKeepsOrder
  <2>4. CASE UNCHANGED vars
    BY <2>1, <2>4 DEF vars, Ordered, InOrder, Begun, InStep, Kept, Filling, Aligned, Bucket
  <2> QED
    BY <2>2, <2>3, <2>4 DEF Next
<1>3. I => InOrderLosesNothing
  BY KeptIsHeld
<1> QED
  BY <1>1, <1>2, <1>3, PTL DEF Spec
-----------------------------------------------------------------------------
(***************************************************************************)
(* Two hops agree with one.                                                *)
(*                                                                         *)
(* The direct aggregator is poisoned at once by what the hops may learn of *)
(* late: a bar that is missing leaves a hole between two buckets of the    *)
(* first hop, which the second sees when it gets the later of them, and a  *)
(* volume that overflows keeps one from it.  So the two are compared by    *)
(* what the hops together could still complete: the bucket in progress of  *)
(* the first joins what the second has of the target's bucket (Joined), or *)
(* one of them is poisoned, and then so is the direct one, unless it has   *)
(* overflowed (Linked).                                                    *)
(***************************************************************************)
\* Bars and buckets of them, as both hops and the direct aggregator have them.
BarsOf(kinds) == [ts : Int, kind : kinds, volume : Nat, of : Seq(Int)]

BucketsOf(kinds) ==
  [start : Int, expected : Int, seen : Nat, poisoned : BOOLEAN, next : Int,
   bar : BarsOf(kinds)]

\* A bucket counts its bars, and its next place, while it is not poisoned.
Counted(p, o) ==
  /\ o \in BucketsOf(feed.kinds)
  /\ Bucket(p, o.start).start = o.start
  /\ o.expected = Expected(p, Bucket(p, o.start))
  /\ o.bar.ts = o.start
  /\ ~ o.poisoned => /\ o.next = o.start + o.seen * Duration(p.source)
                     /\ o.seen <= o.expected

\* The second hop has all of the bucket's bars before those of the first hop.
Follows(s, f) ==
  /\ s # None /\ ~ s.poisoned
  /\ s.next = f.start /\ s.bar.kind = f.bar.kind

Joined(o, f, s) ==
  \/ f.start = o.start
  \/ Follows(s, f) /\ s.start = o.start

\* Together they have folded what the direct aggregator has.
Same(o, f, s) ==
  IF f.start = o.start
  THEN f.bar.volume = o.bar.volume /\ f.bar.of = o.bar.of
  ELSE s.bar.volume + f.bar.volume = o.bar.volume /\ s.bar.of \o f.bar.of = o.bar.of

Linked(o, f, s) ==
  /\ ~ o.poisoned => /\ ~ f.poisoned /\ f.next = o.next /\ f.bar.kind = o.bar.kind
                     /\ Joined(o, f, s) \/ o.bar.volume > MaxVolume
  /\ Joined(o, f, s) /\ ~ f.poisoned => ~ o.poisoned /\ Same(o, f, s)

\* The second hop is at an earlier bucket of the target, or behind the first hop.
Behind(o, f, s) ==
  \/ s = None \/ s.start < o.start
  \/ s.start = o.start /\ s.start < f.start /\ s.next <= f.start

\* The first hop's bucket lies in the direct one.
Inside(o, f) ==
  /\ o.start <= f.start
  /\ Bucket(FirstHop, f.start).end <= Bucket(feed, o.start).end

\* What the second hop still holds of a bucket that the direct one has closed.
Pending(o, s) == IF s # None /\ s.start < o.start THEN Closed(s) ELSE <<>>

\* Three aggregators in the middle of a stream.
Hops(o, f, s) ==
  /\ Counted(feed, o) /\ Counted(FirstHop, f) /\ (s = None \/ Counted(SecondHop, s))
  /\ Inside(o, f) /\ Behind(o, f, s) /\ Linked(o, f, s)

Hopping ==
  /\ out \in Seq(BarsOf(feed.kinds)) /\ hopped \in Seq(BarsOf(feed.kinds))
  /\ open = None => first = None /\ second = None /\ hopped = out
  /\ open # None => /\ first # None /\ ~ finished /\ Hops(open, first, second)
                    /\ out = hopped \o Pending(open, second)

HopInv == feed \in Feeds /\ (Nested(feed) => Hopping)

-----------------------------------------------------------------------------
(* One aggregator of the three. *)

\* All three aggregators fold by specs of which one divides the other.
LEMMA ThreeFolds ==
  ASSUME feed \in Feeds
  PROVE  /\ Folds(feed) /\ Folds(FirstHop) /\ Folds(SecondHop)
         /\ FirstHop.source = feed.source /\ FirstHop.anchor = feed.anchor
         /\ SecondHop.source = FirstHop.target /\ SecondHop.target = feed.target
         /\ SecondHop.anchor = feed.anchor
  BY FeedAssumption, HopAssumption DEF Folds, FirstHop, SecondHop

\* Nothing is not a bucket.
LEMMA NoneIsNoBucket ==
  ASSUME feed \in Feeds
  PROVE  None \notin BucketsOf(feed.kinds)
<1> SUFFICES ASSUME None \in BucketsOf(feed.kinds) PROVE FALSE
  OBVIOUS
<1>1. None \in OpenBuckets(feed)
  BY DEF BucketsOf, BarsOf, OpenBuckets, TypedBars
<1> QED
  BY <1>1, NoneAssumption

\* The buckets of an aggregator tile the times, the times of one share its ends.
LEMMA TimesAreTiled ==
  ASSUME NEW p, Folds(p), NEW t \in Int, NEW k \in Int
  PROVE  LET b == Bucket(p, t)
             c == Bucket(p, k)
         IN  /\ b.start \in Int /\ b.end \in Int /\ b.start <= t /\ t < b.end
             /\ b.start <= k /\ k < b.end => c.start = b.start /\ c.end = b.end
             /\ b.end <= k => b.end <= c.start
<1> DEFINE b == Bucket(p, t)
           c == Bucket(p, k)
<1>1. /\ b.start \in Int /\ b.end \in Int /\ b.start <= t /\ t < b.end
      /\ b.start <= k /\ k < b.end => c.start = b.start
      /\ b.end <= k => b.end <= c.start
  BY BucketsTileTime DEF Folds, Bucket
<1>2. c.start \in Int /\ c.end \in Int /\ c.start <= k /\ k < c.end
  BY BucketsTileTime DEF Folds, Bucket
<1>3. /\ b.start <= c.end /\ c.end < b.end => Bucket(p, c.end).start = b.start
      /\ c.end <= c.end => c.end <= Bucket(p, c.end).start
  BY <1>2, BucketsTileTime DEF Folds, Bucket
<1>4. /\ c.start <= b.end /\ b.end < c.end => Bucket(p, b.end).start = c.start
      /\ b.end <= b.end => b.end <= Bucket(p, b.end).start
  BY <1>1, <1>2, BucketsTileTime DEF Folds, Bucket
<1> HIDE DEF b, c
<1>5. ASSUME b.start <= k, k < b.end PROVE c.end = b.end
  BY <1>1, <1>2, <1>3, <1>4, <1>5
<1> QED
  BY <1>1, <1>5 DEF b, c

\* A bucket begins with its first time, and needs the same bars wherever it is asked for.
LEMMA StartsAreFixed ==
  ASSUME NEW p, Folds(p), NEW t \in Int
  PROVE  LET b == Bucket(p, t)
         IN  /\ Bucket(p, b.start).start = b.start /\ Bucket(p, b.start).end = b.end
             /\ Expected(p, Bucket(p, b.start)) = Expected(p, b)
<1> DEFINE s == Bucket(p, t).start
<1>1. s \in Int /\ s <= t /\ t < Bucket(p, t).end /\ Bucket(p, t).end \in Int
  BY TimesAreTiled
<1>2. s < Bucket(p, t).end
  BY <1>1
<1>3. Bucket(p, s).start = s /\ Bucket(p, s).end = Bucket(p, t).end
  BY <1>1, <1>2, TimesAreTiled
<1> QED
  BY <1>3 DEF Expected

\* What a count of bars says of the next place.
LEMMA NextPlace ==
  ASSUME feed \in Feeds, NEW p, Folds(p), NEW o, Counted(p, o)
  PROVE  /\ o.start \in Int /\ Bucket(p, o.start).end \in Int
         /\ o.start < Bucket(p, o.start).end
         /\ ~ o.poisoned => /\ o.next \in Int /\ o.next <= Bucket(p, o.start).end
                            /\ o.seen = o.expected <=> o.next = Bucket(p, o.start).end
<1> DEFINE d == Duration(p.source)
           n == o.seen
           e == o.expected
           z == Bucket(p, o.start).end
<1>1. /\ o.start \in Int /\ n \in Nat /\ e \in Int /\ o.next \in Int
      /\ Bucket(p, o.start).start = o.start /\ e = Expected(p, Bucket(p, o.start))
      /\ ~ o.poisoned => o.next = o.start + n * d /\ n <= e
  BY DEF Counted, BucketsOf
<1>2. d \in Nat \ {0} /\ z \in Int /\ o.start < z /\ e * d = z - o.start
  <2>1. d \in Nat \ {0}
    BY <1>1, FoldsInSteps
  <2>2. e * d = z - o.start
    BY <1>1, FoldsTile
  <2>3. z \in Int /\ o.start < z
    BY <1>1, TimesAreTiled
  <2> QED
    BY <2>1, <2>2, <2>3
<1> HIDE DEF d, n, e, z
<1>3. n * d \in Int /\ e * d \in Int /\ (n <= e => n * d <= e * d) /\ (n < e => n * d + d <= e * d)
  BY <1>1, <1>2, ProductIsInt, ProductsInOrder
<1>4. ASSUME ~ o.poisoned PROVE o.next <= z
  BY <1>1, <1>2, <1>3, <1>4
<1>5. ASSUME ~ o.poisoned, o.next = z PROVE n = e
  BY <1>1, <1>2, <1>3, <1>5
<1>6. ASSUME ~ o.poisoned, n = e PROVE o.next = z
  BY <1>1, <1>2, <1>6
<1> QED
  BY <1>1, <1>2, <1>4, <1>5, <1>6 DEF n, e, z

\* A bucket is opened by a bar in its first place, or poisoned.
LEMMA OpenedCounts ==
  ASSUME feed \in Feeds, NEW p, Folds(p), NEW bar \in BarsOf(feed.kinds)
  PROVE  LET o == Opened(p, bar)
         IN  /\ Counted(p, o) /\ o # None
             /\ o.start = Bucket(p, bar.ts).start
             /\ o.poisoned <=> ~ (Aligned(p, bar.ts) /\ bar.ts = o.start)
             /\ o.next = SourceEnd(p, bar.ts)
             /\ o.bar.kind = bar.kind /\ o.bar.volume = bar.volume /\ o.bar.of = bar.of
<1> DEFINE b == Bucket(p, bar.ts)
           o == Opened(p, bar)
           d == Duration(p.source)
           e == Expected(p, b)
<1>1. /\ bar.ts \in Int /\ b.start \in Int /\ b.end \in Int /\ b.start < b.end
      /\ e \in Int /\ e * d = b.end - b.start /\ d \in Nat \ {0}
      /\ SourceEnd(p, bar.ts) \in Int
      /\ Aligned(p, bar.ts) => SourceEnd(p, bar.ts) = bar.ts + d
  <2>1. bar.ts \in Int
    BY DEF BarsOf
  <2> QED
    BY <2>1, FoldsTile, FoldsInSteps, TimesAreTiled
<1>2. Bucket(p, b.start).start = b.start /\ Expected(p, Bucket(p, b.start)) = e
  BY <1>1, StartsAreFixed
<1>3. /\ o.start = b.start /\ o.expected = e /\ o.seen = 1 /\ o.poisoned \in BOOLEAN
      /\ o.poisoned <=> ~ (Aligned(p, bar.ts) /\ bar.ts = o.start)
      /\ o.next = SourceEnd(p, bar.ts) /\ o.bar = [bar EXCEPT !.ts = b.start]
  BY DEF Opened
<1>4. /\ o.bar \in BarsOf(feed.kinds) /\ o.bar.ts = b.start
      /\ o.bar.kind = bar.kind /\ o.bar.volume = bar.volume /\ o.bar.of = bar.of
  BY <1>1, <1>3 DEF BarsOf
<1>5. o \in BucketsOf(feed.kinds)
  <2>1. o = [start |-> o.start, expected |-> o.expected, seen |-> o.seen, poisoned |-> o.poisoned,
             next |-> o.next, bar |-> o.bar]
    BY DEF Opened
  <2> HIDE DEF o, b, e
  <2> QED
    BY <1>1, <1>3, <1>4, <2>1 DEF BucketsOf
<1>6. 1 <= e
  <2> HIDE DEF b, d, e
  <2>1. e <= 0 => e * d <= 0 * d
    BY <1>1, ProductsInOrder
  <2> QED
    BY <1>1, <2>1
<1>7. ASSUME ~ o.poisoned PROVE o.next = o.start + o.seen * d /\ o.seen <= o.expected
  <2> HIDE DEF o, b, d, e
  <2>1. o.next = o.start + d /\ o.seen = 1 /\ 1 * d = d
    BY <1>1, <1>3, <1>7
  <2> QED
    BY <1>3, <1>6, <2>1
<1>8. Counted(p, o)
  <2> HIDE DEF o, b, e
  <2> QED
    BY <1>2, <1>3, <1>4, <1>5, <1>7 DEF Counted, d
<1>9. o # None
  BY <1>5, NoneIsNoBucket
<1> HIDE DEF o, b
<1> QED
  BY <1>3, <1>4, <1>8, <1>9 DEF o, b

\* What absorb changes of a bucket keeps its type.
LEMMA AbsorbKeepsTypes ==
  ASSUME NEW kinds, NEW o \in BucketsOf(kinds), NEW k \in Nat, NEW e \in Int,
         NEW x \in BarsOf(kinds)
  PROVE  /\ [o EXCEPT !.seen = k, !.next = e, !.poisoned = TRUE] \in BucketsOf(kinds)
         /\ [o EXCEPT !.seen = k, !.next = e, !.bar = x] \in BucketsOf(kinds)
  BY DEF BucketsOf

\* What a bucket n is that a bar was added to.
Added(p, o, bar, n) ==
  /\ Counted(p, n) /\ n # None
  /\ n.start = o.start /\ n.next = SourceEnd(p, bar.ts)
  /\ n.poisoned <=> \/ o.poisoned \/ ~ Aligned(p, bar.ts)
                    \/ bar.ts # o.next \/ bar.kind # o.bar.kind
  /\ n.bar.kind = o.bar.kind
  /\ ~ n.poisoned => /\ n.bar.volume = o.bar.volume + bar.volume
                     /\ n.bar.of = o.bar.of \o bar.of

\* A bar is added in the next place, or poisons the bucket.
LEMMA AbsorbedCounts ==
  ASSUME feed \in Feeds, NEW p, Folds(p), NEW o, Counted(p, o), NEW bar \in BarsOf(feed.kinds),
         Bucket(p, bar.ts).start = o.start
  PROVE  Added(p, o, bar, Absorbed(p, o, bar))
<1> DEFINE n == Absorbed(p, o, bar)
           fits == Aligned(p, bar.ts) /\ bar.ts = o.next /\ bar.kind = o.bar.kind
           d == Duration(p.source)
           e == SourceEnd(p, bar.ts)
           K == feed.kinds
<1>1. /\ o \in BucketsOf(K) /\ o.bar \in BarsOf(K) /\ o.bar.ts = o.start /\ o.start \in Int
      /\ o.seen \in Nat /\ o.expected \in Int /\ o.next \in Int /\ o.poisoned \in BOOLEAN
      /\ Bucket(p, o.start).start = o.start /\ o.expected = Expected(p, Bucket(p, o.start))
      /\ ~ o.poisoned => o.next = o.start + o.seen * d /\ o.seen <= o.expected
  BY DEF Counted, BucketsOf
<1>2. bar.ts \in Int /\ bar.volume \in Nat /\ bar.of \in Seq(Int)
  BY DEF BarsOf
<1>3. d \in Nat \ {0} /\ e \in Int /\ (Aligned(p, bar.ts) => e = bar.ts + d)
  BY <1>2, FoldsInSteps
<1>4. CASE o.poisoned \/ ~ fits
  <2> DEFINE m == [o EXCEPT !.seen = @ + 1, !.next = e, !.poisoned = TRUE]
  <2>1. n = m
    BY <1>1, <1>4 DEF Absorbed, BucketsOf
  <2>2. /\ n \in BucketsOf(K)
        /\ n.start = o.start /\ n.expected = o.expected /\ n.next = e /\ n.poisoned /\ n.bar = o.bar
    <3>1. o.seen + 1 \in Nat
      BY <1>1
    <3> HIDE DEF e, n
    <3>2. m \in BucketsOf(K)
      BY <1>1, <1>3, <3>1, AbsorbKeepsTypes
    <3>3. m.start = o.start /\ m.expected = o.expected /\ m.next = e /\ m.poisoned /\ m.bar = o.bar
      BY <1>1 DEF BucketsOf
    <3> HIDE DEF m
    <3> QED
      BY <2>1, <3>2, <3>3
  <2>3. Counted(p, n)
    BY <1>1, <2>2 DEF Counted
  <2>4. n # None
    BY <2>2, NoneIsNoBucket
  <2> HIDE DEF n, m
  <2> QED
    BY <1>4, <2>2, <2>3, <2>4 DEF Added, n
<1>5. CASE ~ o.poisoned /\ fits
  <2> DEFINE folded == [o.bar EXCEPT !.volume = @ + bar.volume, !.of = @ \o bar.of]
             m == [o EXCEPT !.seen = @ + 1, !.next = e, !.bar = folded]
  <2>1. n = m
    BY <1>1, <1>5 DEF Absorbed, BucketsOf, BarsOf
  <2>2. /\ folded \in BarsOf(K) /\ folded.ts = o.start /\ folded.kind = o.bar.kind
        /\ folded.volume = o.bar.volume + bar.volume /\ folded.of = o.bar.of \o bar.of
    <3>1. o.bar.volume \in Nat /\ o.bar.of \in Seq(Int) /\ o.bar.kind \in K
      BY <1>1 DEF BarsOf
    <3>2. o.bar.volume + bar.volume \in Nat /\ o.bar.of \o bar.of \in Seq(Int)
      BY <1>2, <3>1
    <3> QED
      BY <1>1, <3>2 DEF BarsOf
  <2>3. /\ n \in BucketsOf(K) /\ n.start = o.start /\ n.expected = o.expected
        /\ n.seen = o.seen + 1 /\ n.next = e /\ ~ n.poisoned /\ n.bar = folded
    <3>1. o.seen + 1 \in Nat
      BY <1>1
    <3> HIDE DEF e, n, folded
    <3>2. m \in BucketsOf(K)
      BY <1>1, <1>3, <2>2, <3>1, AbsorbKeepsTypes
    <3>3. /\ m.start = o.start /\ m.expected = o.expected /\ m.seen = o.seen + 1 /\ m.next = e
          /\ m.poisoned = o.poisoned /\ m.bar = folded
      BY <1>1 DEF BucketsOf
    <3> HIDE DEF m
    <3> QED
      BY <1>5, <2>1, <3>2, <3>3
  <2>4. n.next = n.start + n.seen * d /\ n.seen <= n.expected
    <3>1. e = o.start + o.seen * d + d /\ bar.ts = o.start + o.seen * d
      BY <1>1, <1>3, <1>5
    <3>2. o.expected * d = Bucket(p, o.start).end - o.start /\ Bucket(p, o.start).end \in Int
      BY <1>1, FoldsTile, TimesAreTiled
    <3>3. bar.ts < Bucket(p, o.start).end
      <4>1. /\ Bucket(p, o.start).end <= bar.ts
                 => Bucket(p, o.start).end <= Bucket(p, bar.ts).start
            /\ o.start < Bucket(p, o.start).end
        BY <1>1, <1>2, TimesAreTiled
      <4> QED
        BY <1>1, <1>2, <3>2, <4>1
    <3> HIDE DEF d, e, n
    <3>4. o.seen * d \in Int /\ (o.seen + 1) * d = o.seen * d + d
      BY <1>1, <1>3
    <3>5. o.expected <= o.seen => o.expected * d <= o.seen * d
      BY <1>1, <1>3, ProductsInOrder
    <3>6. o.expected * d \in Int
      BY <1>1, <1>3, ProductIsInt
    <3>7. ~ (o.expected <= o.seen)
      BY <1>1, <3>1, <3>2, <3>3, <3>4, <3>5, <3>6
    <3>8. n.next = n.start + n.seen * d
      <4>1. n.seen * d = o.seen * d + d
        BY <2>3, <3>4
      <4> QED
        BY <1>1, <1>3, <2>3, <3>1, <3>4, <4>1
    <3> QED
      BY <1>1, <2>3, <3>7, <3>8
  <2>5. Counted(p, n)
    <3> HIDE DEF folded
    <3> QED
      BY <1>1, <2>2, <2>3, <2>4 DEF Counted
  <2>6. n # None
    BY <2>3, NoneIsNoBucket
  <2> HIDE DEF n, m, folded
  <2> QED
    BY <1>5, <2>2, <2>3, <2>5, <2>6 DEF Added, n
<1> QED
  BY <1>1, <1>4, <1>5

\* A late bar poisons the bucket, and changes nothing else.
LEMMA PoisonedCounts ==
  ASSUME feed \in Feeds, NEW p, NEW o, Counted(p, o)
  PROVE  LET n == [o EXCEPT !.poisoned = TRUE]
         IN  /\ Counted(p, n) /\ n # None /\ n.poisoned
             /\ n.start = o.start /\ n.bar = o.bar
<1> DEFINE n == [o EXCEPT !.poisoned = TRUE]
<1>1. o \in BucketsOf(feed.kinds)
  BY DEF Counted
<1>2. /\ n \in BucketsOf(feed.kinds) /\ n.poisoned
      /\ n.start = o.start /\ n.bar = o.bar /\ n.expected = o.expected
  BY <1>1 DEF BucketsOf
<1> HIDE DEF n
<1> QED
  BY <1>2, NoneIsNoBucket DEF Counted, n
-----------------------------------------------------------------------------
(* Where a bar falls. *)

\* A bar of the stream, with a volume that cannot be negative.
LEMMA BarsAreBars ==
  ASSUME feed \in Feeds, NEW bar \in Bars(feed)
  PROVE  bar \in BarsOf(feed.kinds) /\ bar.ts \in feed.times /\ bar.ts \in Int
<1>1. feed.times \subseteq Int /\ feed.volumes \subseteq Nat
  BY FeedAssumption
<1>2. PICK t \in feed.times, k \in feed.kinds, v \in feed.volumes :
        bar = [ts |-> t, kind |-> k, volume |-> Carries(k, v), of |-> <<t>>]
  BY DEF Bars
<1>3. t \in Int /\ Carries(k, v) \in Nat /\ <<t>> \in Seq(Int)
  BY <1>1 DEF Carries
<1> QED
  BY <1>2, <1>3 DEF BarsOf

\* The ends of the buckets in progress; the second hop's are those of the direct one.
LEMMA EndsInOrder ==
  ASSUME feed \in Feeds, NEW o, NEW f, Counted(feed, o), Counted(FirstHop, f), Inside(o, f)
  PROVE  LET end == Bucket(feed, o.start).end
             stop == Bucket(FirstHop, f.start).end
         IN  /\ o.start \in Int /\ f.start \in Int /\ end \in Int /\ stop \in Int
             /\ o.start <= f.start /\ f.start < stop /\ stop <= end
             /\ Bucket(feed, f.start).start = o.start
             /\ Bucket(SecondHop, f.start) = Bucket(feed, f.start)
             /\ Bucket(SecondHop, o.start) = Bucket(feed, o.start)
             /\ Aligned(SecondHop, f.start) /\ SourceEnd(SecondHop, f.start) = stop
<1>1. /\ Folds(feed) /\ Folds(FirstHop)
      /\ SecondHop.source = FirstHop.target /\ SecondHop.target = feed.target
      /\ SecondHop.anchor = feed.anchor /\ FirstHop.anchor = feed.anchor
  BY ThreeFolds
<1>2. /\ o.start \in Int /\ Bucket(feed, o.start).end \in Int
      /\ f.start \in Int /\ Bucket(FirstHop, f.start).end \in Int
      /\ f.start < Bucket(FirstHop, f.start).end
  BY <1>1, NextPlace
<1>3. o.start <= f.start /\ Bucket(FirstHop, f.start).end <= Bucket(feed, o.start).end
  BY DEF Inside
<1>4. Bucket(feed, f.start).start = o.start
  <2>1. Bucket(feed, o.start).start = o.start
    BY DEF Counted
  <2>2. f.start < Bucket(feed, o.start).end
    BY <1>2, <1>3
  <2> QED
    BY <1>1, <1>2, <1>3, <2>1, <2>2, TimesAreTiled
<1>5. \A t : Bucket(SecondHop, t) = Bucket(feed, t)
  BY <1>1 DEF Bucket
<1>6. Aligned(SecondHop, f.start) /\ SourceEnd(SecondHop, f.start) = Bucket(FirstHop, f.start).end
  <2>1. Bucket(FirstHop, f.start).start = f.start
    BY DEF Counted
  <2> QED
    BY <1>1, <2>1 DEF Aligned, SourceEnd, Bucket
<1> QED
  BY <1>2, <1>3, <1>4, <1>5, <1>6

\* A bar is in, before or after the bucket of the first hop, and of the direct one.
LEMMA BarFalls ==
  ASSUME feed \in Feeds, Nested(feed), NEW bar \in Bars(feed),
         NEW o, NEW f, Counted(feed, o), Counted(FirstHop, f), Inside(o, f)
  PROVE  LET g == Bucket(feed, bar.ts).start
             m == Bucket(FirstHop, bar.ts).start
         IN  /\ g \in Int /\ m \in Int /\ bar.ts \in Int /\ g <= m /\ m <= bar.ts
             /\ Bucket(FirstHop, m).end <= Bucket(feed, g).end
             /\ m > f.start => Bucket(FirstHop, f.start).end <= m
             /\ m = f.start => g = o.start
             /\ m < f.start => bar.ts < f.start
             /\ g > o.start => m > f.start
             /\ g < o.start => m < f.start
<1> DEFINE b == Bucket(feed, bar.ts)
           c == Bucket(FirstHop, bar.ts)
           end == Bucket(feed, o.start).end
           stop == Bucket(FirstHop, f.start).end
           t == bar.ts
<1>1. Folds(feed) /\ Folds(FirstHop) /\ t \in feed.times /\ t \in Int
  BY ThreeFolds, BarsAreBars
<1>2. /\ b.start \in Int /\ b.end \in Int /\ b.start <= t /\ t < b.end
      /\ c.start \in Int /\ c.end \in Int /\ c.start <= t /\ t < c.end
  BY <1>1, TimesAreTiled
<1>3. b.start <= c.start /\ c.end <= b.end
  <2>1. c = Bounds(t, feed.middle, feed.anchor) /\ b = Bounds(t, feed.target, feed.anchor)
    BY DEF Bucket, FirstHop
  <2> QED
    BY <1>1, <2>1 DEF Nested
<1>4. Bucket(feed, b.start).end = b.end /\ Bucket(FirstHop, c.start).end = c.end
  BY <1>1, StartsAreFixed
<1>5. /\ o.start \in Int /\ f.start \in Int /\ end \in Int /\ stop \in Int
      /\ o.start <= f.start /\ f.start < stop /\ stop <= end
  BY EndsInOrder
<1>6. /\ Bucket(feed, o.start).start = o.start /\ Bucket(FirstHop, f.start).start = f.start
  BY DEF Counted
<1>7. /\ o.start <= t /\ t < end => b.start = o.start
      /\ end <= t => end <= b.start
      /\ f.start <= t /\ t < stop => c.start = f.start
      /\ stop <= t => stop <= c.start
  <2>1. /\ Bucket(feed, o.start).start <= t /\ t < end => b.start = Bucket(feed, o.start).start
        /\ end <= t => end <= b.start
    BY <1>1, <1>5, TimesAreTiled
  <2>2. /\ Bucket(FirstHop, f.start).start <= t /\ t < stop => c.start = Bucket(FirstHop, f.start).start
        /\ stop <= t => stop <= c.start
    BY <1>1, <1>5, TimesAreTiled
  <2> QED
    BY <1>6, <2>1, <2>2
<1> HIDE DEF b, c, end, stop, t
<1>8. c.start > f.start => stop <= c.start
  BY <1>1, <1>2, <1>5, <1>7
<1>9. c.start = f.start => b.start = o.start
  BY <1>1, <1>2, <1>5, <1>7
<1>10. c.start < f.start => t < f.start
  BY <1>1, <1>2, <1>5, <1>7
<1>11. b.start > o.start => c.start > f.start
  BY <1>1, <1>2, <1>3, <1>5, <1>7
<1>12. b.start < o.start => c.start < f.start
  BY <1>1, <1>2, <1>3, <1>5, <1>7
<1> QED
  BY <1>1, <1>2, <1>3, <1>4, <1>8, <1>9, <1>10, <1>11, <1>12 DEF b, c, end, stop, t

-----------------------------------------------------------------------------
(* What the first hop hands over when it closes a bucket. *)

Passed(f, s) == IF Complete(f) THEN Pushed(SecondHop, s, f.bar) ELSE s
GivenOut(f, s) == IF Complete(f) THEN Emitted(SecondHop, s, f.bar) ELSE <<>>

\* A bucket handed over goes where it joins, or poisons what is there.
LEMMA HandedOver ==
  ASSUME feed \in Feeds, NEW o, NEW f, NEW s, Hops(o, f, s), Complete(f)
  PROVE  LET p == Pushed(SecondHop, s, f.bar)
         IN  /\ p # None /\ Counted(SecondHop, p) /\ p.start = o.start
             /\ p.next = Bucket(FirstHop, f.start).end
             /\ p.poisoned <=> ~ Joined(o, f, s)
             /\ ~ p.poisoned => /\ p.bar.kind = f.bar.kind
                                /\ p.bar.volume = o.bar.volume /\ p.bar.of = o.bar.of
             /\ Emitted(SecondHop, s, f.bar) = Pending(o, s)
<1> DEFINE p == Pushed(SecondHop, s, f.bar)
           stop == Bucket(FirstHop, f.start).end
<1>1. /\ o.start \in Int /\ f.start \in Int /\ o.start <= f.start
      /\ Bucket(SecondHop, f.start).start = o.start
      /\ Aligned(SecondHop, f.start) /\ SourceEnd(SecondHop, f.start) = stop
  BY EndsInOrder DEF Hops
<1>2. Folds(SecondHop)
  BY ThreeFolds
<1>3. /\ f.bar \in BarsOf(feed.kinds) /\ f.bar.ts = f.start /\ ~ f.poisoned
  BY DEF Hops, Counted, BucketsOf, Complete
<1>4. Joined(o, f, s) => Same(o, f, s)
  BY <1>3 DEF Hops, Linked
<1>5. s # None => s.start \in Int
  BY DEF Hops, Counted, BucketsOf
<1>6. CASE s = None \/ s.start < o.start
  <2>1. p = Opened(SecondHop, f.bar)
    BY <1>1, <1>3, <1>5, <1>6 DEF Pushed
  <2>2. Joined(o, f, s) <=> f.start = o.start
    BY <1>1, <1>5, <1>6 DEF Joined, Follows
  <2>3. /\ Counted(SecondHop, p) /\ p # None /\ p.start = o.start
        /\ p.poisoned <=> ~ (f.start = o.start)
        /\ p.next = stop
        /\ p.bar.kind = f.bar.kind /\ p.bar.volume = f.bar.volume /\ p.bar.of = f.bar.of
    BY <1>1, <1>2, <1>3, <2>1, OpenedCounts
  <2>4. ~ p.poisoned => p.bar.volume = o.bar.volume /\ p.bar.of = o.bar.of
    BY <1>4, <2>2, <2>3 DEF Same
  <2>5. Emitted(SecondHop, s, f.bar) = Pending(o, s)
    BY <1>1, <1>3, <1>5, <1>6 DEF Emitted, Pending
  <2> HIDE DEF p
  <2> QED
    BY <2>2, <2>3, <2>4, <2>5 DEF p
<1>7. CASE s # None /\ s.start = o.start /\ s.start < f.start
  <2>1. p = Absorbed(SecondHop, s, f.bar)
    BY <1>1, <1>3, <1>5, <1>7 DEF Pushed
  <2>2. Joined(o, f, s) <=> ~ s.poisoned /\ s.next = f.start /\ s.bar.kind = f.bar.kind
    BY <1>1, <1>5, <1>7 DEF Joined, Follows
  <2>3. Counted(SecondHop, s)
    BY <1>7 DEF Hops
  <2>4. /\ Counted(SecondHop, p) /\ p # None /\ p.start = s.start
        /\ p.next = stop
        /\ p.poisoned <=> s.poisoned \/ ~ (f.start = s.next /\ f.bar.kind = s.bar.kind)
        /\ p.bar.kind = s.bar.kind
        /\ ~ p.poisoned => /\ p.bar.volume = s.bar.volume + f.bar.volume
                           /\ p.bar.of = s.bar.of \o f.bar.of
    <3>1. /\ Bucket(SecondHop, f.bar.ts).start = s.start /\ Aligned(SecondHop, f.bar.ts)
          /\ SourceEnd(SecondHop, f.bar.ts) = stop /\ f.bar.ts = f.start
      BY <1>1, <1>3, <1>7
    <3> HIDE DEF stop, p
    <3>2. /\ Counted(SecondHop, p) /\ p # None
          /\ p.start = s.start /\ p.next = SourceEnd(SecondHop, f.bar.ts)
          /\ p.poisoned <=> \/ s.poisoned \/ ~ Aligned(SecondHop, f.bar.ts)
                            \/ f.bar.ts # s.next \/ f.bar.kind # s.bar.kind
          /\ p.bar.kind = s.bar.kind
          /\ ~ p.poisoned => /\ p.bar.volume = s.bar.volume + f.bar.volume
                             /\ p.bar.of = s.bar.of \o f.bar.of
      <4>1. Added(SecondHop, s, f.bar, Absorbed(SecondHop, s, f.bar))
        BY <1>2, <1>3, <2>3, <3>1, AbsorbedCounts
      <4> QED
        BY <2>1, <4>1 DEF Added
    <3> QED
      BY <2>1, <3>1, <3>2
  <2>5. p.poisoned <=> ~ Joined(o, f, s)
    BY <2>2, <2>4
  <2>6. ~ p.poisoned => /\ p.bar.volume = o.bar.volume /\ p.bar.of = o.bar.of
                        /\ p.bar.kind = f.bar.kind
    <3>1. f.start # o.start
      BY <1>1, <1>7
    <3> QED
      BY <1>4, <2>2, <2>4, <2>5, <3>1 DEF Same
  <2>7. Emitted(SecondHop, s, f.bar) = Pending(o, s)
    BY <1>1, <1>3, <1>5, <1>7 DEF Emitted, Pending
  <2> HIDE DEF p
  <2> QED
    BY <1>7, <2>4, <2>5, <2>6, <2>7 DEF p
<1> QED
  BY <1>6, <1>7 DEF Hops, Behind

\* What the second hop then has: a bucket no further than the first has come.
LEMMA PassedStaysBehind ==
  ASSUME feed \in Feeds, NEW o, NEW f, NEW s, Hops(o, f, s)
  PROVE  LET p == Passed(f, s)
             stop == Bucket(FirstHop, f.start).end
         IN  /\ p = None \/ Counted(SecondHop, p)
             /\ \/ p = None \/ p.start < o.start
                \/ p.start = o.start /\ p.start < stop /\ p.next <= stop
             /\ GivenOut(f, s) = Pending(o, s) \/ GivenOut(f, s) = <<>>
             /\ Pending(o, p) = IF GivenOut(f, s) = <<>> THEN Pending(o, s) ELSE <<>>
<1> DEFINE p == Passed(f, s)
           stop == Bucket(FirstHop, f.start).end
<1>1. o.start \in Int /\ f.start \in Int /\ stop \in Int /\ o.start <= f.start /\ f.start < stop
  BY EndsInOrder DEF Hops
<1>2. CASE Complete(f)
  <2>1. /\ p # None /\ Counted(SecondHop, p) /\ p.start = o.start /\ p.next = stop
        /\ GivenOut(f, s) = Pending(o, s)
    BY <1>2, HandedOver DEF Passed, GivenOut
  <2>2. Pending(o, p) = <<>>
    BY <1>1, <2>1 DEF Pending
  <2> HIDE DEF p, stop
  <2> QED
    BY <1>1, <2>1, <2>2 DEF p, stop
<1>3. CASE ~ Complete(f)
  <2>1. p = s /\ GivenOut(f, s) = <<>>
    BY <1>3 DEF Passed, GivenOut
  <2>2. s = None \/ Counted(SecondHop, s)
    BY DEF Hops
  <2>3. \/ s = None \/ s.start < o.start
        \/ s.start = o.start /\ s.start < stop /\ s.next <= stop
    <3>1. \/ s = None \/ s.start < o.start
          \/ s.start = o.start /\ s.start < f.start /\ s.next <= f.start
      BY DEF Hops, Behind
    <3>2. s # None => s.start \in Int /\ s.next \in Int
      BY <2>2 DEF Counted, BucketsOf
    <3> HIDE DEF stop
    <3> QED
      BY <1>1, <3>1, <3>2
  <2> HIDE DEF p, stop
  <2> QED
    BY <2>1, <2>2, <2>3 DEF p, stop
<1> QED
  BY <1>2, <1>3

(***************************************************************************)
(* The hops close a bucket of the target when the direct aggregator does,  *)
(* with the same bar, once the first hop has handed over its last.         *)
(***************************************************************************)
LEMMA ClosedAlike ==
  ASSUME feed \in Feeds, NEW o, NEW f, NEW s, Hops(o, f, s), o # None
  PROVE  LET p == Passed(f, s)
         IN  Closed(o) = IF p # None /\ p.start = o.start THEN Closed(p) ELSE <<>>
<1> DEFINE p == Passed(f, s)
           end == Bucket(feed, o.start).end
           stop == Bucket(FirstHop, f.start).end
<1>1. /\ o.start \in Int /\ f.start \in Int /\ end \in Int /\ stop \in Int
      /\ f.start < stop /\ stop <= end
      /\ Bucket(SecondHop, o.start).end = end
  BY EndsInOrder DEF Hops
<1>2. Folds(feed) /\ Folds(FirstHop) /\ Folds(SecondHop)
  BY ThreeFolds
<1>3. /\ ~ o.poisoned => o.next \in Int /\ (o.seen = o.expected <=> o.next = end)
      /\ ~ f.poisoned => f.next \in Int /\ f.next <= stop /\ (f.seen = f.expected <=> f.next = stop)
  BY <1>2, NextPlace DEF Hops
<1>4. /\ o \in BucketsOf(feed.kinds) /\ f \in BucketsOf(feed.kinds)
      /\ o.bar.ts = o.start
  BY DEF Hops, Counted
<1>5. /\ ~ o.poisoned => /\ ~ f.poisoned /\ f.next = o.next /\ f.bar.kind = o.bar.kind
                         /\ Joined(o, f, s) \/ o.bar.volume > MaxVolume
      /\ Joined(o, f, s) /\ ~ f.poisoned => ~ o.poisoned /\ Same(o, f, s)
  BY DEF Hops, Linked
<1>6. o.bar.volume \in Nat /\ f.bar.volume \in Nat /\ MaxVolume \in Nat
  BY <1>4, FeedAssumption DEF BucketsOf, BarsOf
<1>7. CASE Complete(f)
  <2>1. /\ p # None /\ Counted(SecondHop, p) /\ p.start = o.start /\ p.next = stop
        /\ p.poisoned <=> ~ Joined(o, f, s)
        /\ ~ p.poisoned => /\ p.bar.kind = f.bar.kind
                           /\ p.bar.volume = o.bar.volume /\ p.bar.of = o.bar.of
    BY <1>7, HandedOver DEF Passed
  <2>2. ~ f.poisoned /\ f.next = stop
    BY <1>3, <1>7 DEF Complete
  <2>3. ~ p.poisoned => (p.seen = p.expected <=> p.next = end)
    BY <1>1, <1>2, <2>1, NextPlace
  <2>4. p \in BucketsOf(feed.kinds) /\ p.bar.ts = p.start
    BY <2>1 DEF Counted
  <2> HIDE DEF p, stop, end
  <2>5. CASE Joined(o, f, s)
    <3>1. ~ p.poisoned /\ ~ o.poisoned /\ o.next = stop /\ p.bar.kind = o.bar.kind
      BY <1>5, <2>1, <2>2, <2>5
    <3>2. p.bar = o.bar
      <4>1. p.bar \in BarsOf(feed.kinds) /\ o.bar \in BarsOf(feed.kinds)
        BY <1>4, <2>4 DEF BucketsOf
      <4>2. /\ p.bar.ts = o.bar.ts /\ p.bar.kind = o.bar.kind
            /\ p.bar.volume = o.bar.volume /\ p.bar.of = o.bar.of
        BY <1>4, <2>1, <2>4, <3>1
      <4> QED
        BY <4>1, <4>2 DEF BarsOf
    <3>3. Complete(p) <=> Complete(o)
      BY <1>3, <2>1, <2>3, <3>1, <3>2 DEF Complete
    <3> QED
      BY <2>1, <3>2, <3>3 DEF Closed, p
  <2>6. CASE ~ Joined(o, f, s)
    <3>1. ~ Complete(p)
      BY <2>1, <2>6 DEF Complete
    <3>2. ~ Complete(o)
      BY <1>5, <1>6, <2>6 DEF Complete
    <3> QED
      BY <3>1, <3>2 DEF Closed, p
  <2> QED
    BY <2>5, <2>6
<1>8. CASE ~ Complete(f)
  <2>1. p = s
    BY <1>8 DEF Passed
  <2>2. ASSUME s # None, s.start = o.start PROVE ~ Complete(s)
    <3>1. s.next <= f.start /\ Counted(SecondHop, s)
      BY <1>1, <2>2 DEF Hops, Behind
    <3>2. ~ s.poisoned => s.next \in Int /\ (s.seen = s.expected <=> s.next = end)
      BY <1>1, <1>2, <2>2, <3>1, NextPlace
    <3> HIDE DEF end, stop
    <3>3. ~ s.poisoned => s.next # end
      BY <1>1, <3>1, <3>2
    <3> QED
      BY <3>2, <3>3 DEF Complete
  <2>3. ~ Complete(o)
    <3> SUFFICES ASSUME Complete(o) PROVE FALSE
      OBVIOUS
    <3>1. ~ o.poisoned /\ o.next = end /\ o.bar.volume <= MaxVolume
      BY <1>3 DEF Complete
    <3>2. ~ f.poisoned /\ f.next = end /\ Joined(o, f, s) /\ Same(o, f, s)
      BY <1>5, <1>6, <3>1
    <3>3. f.seen = f.expected
      <4> HIDE DEF end, stop
      <4> QED
        BY <1>1, <1>3, <3>2
    <3>4. f.bar.volume <= o.bar.volume
      <4>1. CASE f.start = o.start
        BY <1>6, <3>2, <4>1 DEF Same
      <4>2. CASE f.start # o.start
        <5>1. s # None /\ Counted(SecondHop, s)
          BY <3>2, <4>2 DEF Joined, Follows, Hops
        <5>2. s.bar.volume \in Nat
          BY <5>1 DEF Counted, BucketsOf, BarsOf
        <5> QED
          BY <1>6, <3>2, <4>2, <5>2 DEF Same
      <4> QED
        BY <4>1, <4>2
    <3>5. f.bar.volume <= MaxVolume
      BY <1>6, <3>1, <3>4
    <3> QED
      BY <1>8, <3>2, <3>3, <3>5 DEF Complete
  <2> QED
    BY <2>1, <2>2, <2>3 DEF Closed
<1> QED
  BY <1>7, <1>8
-----------------------------------------------------------------------------
\* Bars are added one after the other, however they are grouped.
LEMMA Regrouped ==
  ASSUME NEW a \in Seq(Int), NEW b \in Seq(Int), NEW c \in Seq(Int)
  PROVE  a \o (b \o c) = (a \o b) \o c
  OBVIOUS

(* A step of the three, one lemma for each place a bar may fall. *)

\* In the bucket of the first hop: it is added to both, or poisons both.
LEMMA InTheBucket ==
  ASSUME feed \in Feeds, Nested(feed), NEW bar \in Bars(feed), NEW o, NEW f, NEW s, Hops(o, f, s),
         Bucket(FirstHop, bar.ts).start = f.start
  PROVE  Hops(Absorbed(feed, o, bar), Absorbed(FirstHop, f, bar), s)
<1> DEFINE n == Absorbed(feed, o, bar)
           g == Absorbed(FirstHop, f, bar)
<1>1. Bucket(feed, bar.ts).start = o.start
  BY BarFalls DEF Hops
<1>2. bar \in BarsOf(feed.kinds)
  BY BarsAreBars
<1>3. Folds(feed) /\ Folds(FirstHop)
  BY ThreeFolds
<1>4. /\ Aligned(FirstHop, bar.ts) = Aligned(feed, bar.ts)
      /\ SourceEnd(FirstHop, bar.ts) = SourceEnd(feed, bar.ts)
  BY DEF Aligned, SourceEnd, FirstHop
<1>5. /\ Counted(feed, n) /\ n.start = o.start /\ n.next = SourceEnd(feed, bar.ts)
      /\ n.poisoned <=> \/ o.poisoned \/ ~ Aligned(feed, bar.ts)
                        \/ bar.ts # o.next \/ bar.kind # o.bar.kind
      /\ n.bar.kind = o.bar.kind
      /\ ~ n.poisoned => n.bar.volume = o.bar.volume + bar.volume /\ n.bar.of = o.bar.of \o bar.of
  <2>1. Counted(feed, o)
    BY DEF Hops
  <2>2. Added(feed, o, bar, n)
    BY <1>1, <1>2, <1>3, <2>1, AbsorbedCounts
  <2> HIDE DEF n
  <2> QED
    BY <2>2 DEF Added
<1>6. /\ Counted(FirstHop, g) /\ g.start = f.start /\ g.next = SourceEnd(feed, bar.ts)
      /\ g.poisoned <=> \/ f.poisoned \/ ~ Aligned(feed, bar.ts)
                        \/ bar.ts # f.next \/ bar.kind # f.bar.kind
      /\ g.bar.kind = f.bar.kind
      /\ ~ g.poisoned => g.bar.volume = f.bar.volume + bar.volume /\ g.bar.of = f.bar.of \o bar.of
  <2>1. Counted(FirstHop, f)
    BY DEF Hops
  <2>2. Added(FirstHop, f, bar, g)
    BY <1>2, <1>3, <2>1, AbsorbedCounts
  <2> HIDE DEF g
  <2> QED
    BY <1>4, <2>2 DEF Added
<1>7. Joined(n, g, s) <=> Joined(o, f, s)
  <2> HIDE DEF n, g
  <2> QED
    BY <1>5, <1>6 DEF Joined, Follows
<1>8. /\ ~ o.poisoned => /\ ~ f.poisoned /\ f.next = o.next /\ f.bar.kind = o.bar.kind
                         /\ Joined(o, f, s) \/ o.bar.volume > MaxVolume
      /\ Joined(o, f, s) /\ ~ f.poisoned => ~ o.poisoned /\ Same(o, f, s)
      /\ Counted(feed, o) /\ Counted(FirstHop, f) /\ (s = None \/ Counted(SecondHop, s))
  BY DEF Hops, Linked
<1>9. /\ bar.volume \in Nat /\ bar.of \in Seq(Int) /\ MaxVolume \in Nat
      /\ o.bar.volume \in Nat /\ f.bar.volume \in Nat /\ f.bar.of \in Seq(Int)
  BY <1>2, <1>8, FeedAssumption DEF BarsOf, BucketsOf, Counted
<1> HIDE DEF n, g
<1>10. ASSUME ~ n.poisoned
       PROVE  /\ ~ g.poisoned /\ g.next = n.next /\ g.bar.kind = n.bar.kind
              /\ Joined(n, g, s) \/ n.bar.volume > MaxVolume
  <2>1. ~ o.poisoned /\ n.bar.volume = o.bar.volume + bar.volume
    BY <1>5, <1>10
  <2>2. ~ g.poisoned /\ g.next = n.next /\ g.bar.kind = n.bar.kind
    BY <1>5, <1>6, <1>8, <1>10, <2>1
  <2>3. Joined(n, g, s) \/ n.bar.volume > MaxVolume
    BY <1>7, <1>8, <1>9, <2>1
  <2> QED
    BY <2>2, <2>3
<1>11. ASSUME Joined(n, g, s), ~ g.poisoned PROVE ~ n.poisoned /\ Same(n, g, s)
  <2>1. Joined(o, f, s) /\ ~ f.poisoned /\ ~ o.poisoned /\ Same(o, f, s)
    BY <1>6, <1>7, <1>8, <1>11
  <2>2. ~ n.poisoned
    BY <1>5, <1>6, <1>8, <1>11, <2>1
  <2>3. CASE f.start = o.start
    BY <1>5, <1>6, <1>11, <2>1, <2>2, <2>3 DEF Same
  <2>4. CASE f.start # o.start
    <3>1. s # None /\ Counted(SecondHop, s)
      BY <1>8, <2>1, <2>4 DEF Joined, Follows
    <3>2. s.bar.volume \in Nat /\ s.bar.of \in Seq(Int)
      BY <3>1 DEF Counted, BucketsOf, BarsOf
    <3>3. s.bar.volume + f.bar.volume = o.bar.volume /\ s.bar.of \o f.bar.of = o.bar.of
      BY <2>1, <2>4 DEF Same
    <3>4. s.bar.of \o (f.bar.of \o bar.of) = (s.bar.of \o f.bar.of) \o bar.of
      BY <1>9, <3>2, Regrouped
    <3>5. /\ n.bar.volume = o.bar.volume + bar.volume /\ n.bar.of = o.bar.of \o bar.of
          /\ g.bar.volume = f.bar.volume + bar.volume /\ g.bar.of = f.bar.of \o bar.of
          /\ g.start # n.start
      BY <1>5, <1>6, <1>11, <2>2, <2>4
    <3>6. s.bar.volume + g.bar.volume = n.bar.volume
      BY <1>9, <3>2, <3>3, <3>5
    <3>7. s.bar.of \o g.bar.of = n.bar.of
      BY <3>3, <3>4, <3>5
    <3> QED
      BY <2>2, <3>5, <3>6, <3>7 DEF Same
  <2> QED
    BY <2>2, <2>3, <2>4
<1>12. Inside(n, g) /\ Behind(n, g, s)
  BY <1>5, <1>6 DEF Hops, Inside, Behind
<1> QED
  BY <1>5, <1>6, <1>8, <1>10, <1>11, <1>12 DEF Hops, Linked, n, g

\* Before the bucket of the first hop: both are poisoned.
LEMMA BeforeTheBucket ==
  ASSUME feed \in Feeds, Nested(feed), NEW bar \in Bars(feed), NEW o, NEW f, NEW s, Hops(o, f, s),
         Bucket(FirstHop, bar.ts).start < f.start,
         NEW n, \/ n = Absorbed(feed, o, bar) /\ Bucket(feed, bar.ts).start = o.start
                \/ n = [o EXCEPT !.poisoned = TRUE]
  PROVE  Hops(n, [f EXCEPT !.poisoned = TRUE], s)
<1> DEFINE g == [f EXCEPT !.poisoned = TRUE]
<1>1. bar \in BarsOf(feed.kinds) /\ bar.ts \in Int /\ bar.ts < f.start
  BY BarsAreBars, BarFalls DEF Hops
<1>2. Counted(FirstHop, g) /\ g.poisoned /\ g.start = f.start
  BY PoisonedCounts DEF Hops
<1>3. Counted(feed, n) /\ n.start = o.start /\ n.poisoned
  <2>1. CASE n = Absorbed(feed, o, bar) /\ Bucket(feed, bar.ts).start = o.start
    <3>1. Folds(feed) /\ Folds(FirstHop)
      BY ThreeFolds
    <3>2. /\ Counted(feed, n) /\ n.start = o.start
          /\ n.poisoned <=> \/ o.poisoned \/ ~ Aligned(feed, bar.ts)
                            \/ bar.ts # o.next \/ bar.kind # o.bar.kind
      <4>1. Counted(feed, o)
        BY DEF Hops
      <4>2. Added(feed, o, bar, n)
        BY <1>1, <2>1, <3>1, <4>1, AbsorbedCounts
      <4> QED
        BY <4>2 DEF Added
    <3>3. ~ o.poisoned => bar.ts # o.next
      <4> SUFFICES ASSUME ~ o.poisoned PROVE bar.ts # o.next
        OBVIOUS
      <4>1. ~ f.poisoned /\ f.next = o.next
        BY DEF Hops, Linked
      <4>2. f.next = f.start + f.seen * Duration(FirstHop.source) /\ f.start \in Int /\ f.seen \in Nat
        BY <4>1 DEF Hops, Counted, BucketsOf
      <4>3. Duration(FirstHop.source) \in Nat
        BY <1>1, <3>1, FoldsInSteps
      <4> DEFINE d == Duration(FirstHop.source)
      <4>4. f.seen * d >= 0 /\ f.seen * d \in Int
        <5> HIDE DEF d
        <5>1. \A a \in Nat, b \in Nat : a * b \in Nat
          OBVIOUS
        <5>2. d \in Nat
          BY <4>3 DEF d
        <5>3. f.seen * d \in Nat
          BY <4>2, <5>1, <5>2
        <5> QED
          BY <5>3
      <4>5. f.next = f.start + f.seen * d
        BY <4>2
      <4> HIDE DEF d
      <4> QED
        BY <1>1, <4>1, <4>2, <4>4, <4>5
    <3> QED
      BY <3>2, <3>3
  <2>2. CASE n = [o EXCEPT !.poisoned = TRUE]
    BY <2>2, PoisonedCounts DEF Hops
  <2> QED
    BY <2>1, <2>2
<1> HIDE DEF g
<1>4. Inside(n, g) /\ Behind(n, g, s) /\ (s = None \/ Counted(SecondHop, s))
  BY <1>2, <1>3 DEF Hops, Inside, Behind
<1> QED
  BY <1>2, <1>3, <1>4 DEF Hops, Linked, g

\* After it, in the direct one's: the first hop hands over its bucket and opens the next.
LEMMA AfterTheBucket ==
  ASSUME feed \in Feeds, Nested(feed), NEW bar \in Bars(feed), NEW o, NEW f, NEW s, Hops(o, f, s),
         Bucket(FirstHop, bar.ts).start > f.start, Bucket(feed, bar.ts).start = o.start
  PROVE  Hops(Absorbed(feed, o, bar), Opened(FirstHop, bar), Passed(f, s))
<1> DEFINE n == Absorbed(feed, o, bar)
           g == Opened(FirstHop, bar)
           p == Passed(f, s)
           stop == Bucket(FirstHop, f.start).end
<1>1. /\ bar \in BarsOf(feed.kinds) /\ bar.ts \in Int
      /\ bar.volume \in Nat /\ bar.of \in Seq(Int) /\ MaxVolume \in Nat
  BY BarsAreBars, FeedAssumption DEF BarsOf
<1>2. Folds(feed) /\ Folds(FirstHop)
  BY ThreeFolds
<1>3. /\ Aligned(FirstHop, bar.ts) = Aligned(feed, bar.ts)
      /\ SourceEnd(FirstHop, bar.ts) = SourceEnd(feed, bar.ts)
  BY DEF Aligned, SourceEnd, FirstHop
<1>4. /\ Counted(feed, n) /\ n.start = o.start /\ n.next = SourceEnd(feed, bar.ts)
      /\ n.poisoned <=> \/ o.poisoned \/ ~ Aligned(feed, bar.ts)
                        \/ bar.ts # o.next \/ bar.kind # o.bar.kind
      /\ n.bar.kind = o.bar.kind
      /\ ~ n.poisoned => n.bar.volume = o.bar.volume + bar.volume /\ n.bar.of = o.bar.of \o bar.of
  <2>1. Counted(feed, o)
    BY DEF Hops
  <2>2. Added(feed, o, bar, n)
    BY <1>1, <1>2, <2>1, AbsorbedCounts
  <2> HIDE DEF n
  <2> QED
    BY <2>2 DEF Added
<1>5. /\ Counted(FirstHop, g) /\ g.start = Bucket(FirstHop, bar.ts).start
      /\ g.poisoned <=> ~ (Aligned(feed, bar.ts) /\ bar.ts = g.start)
      /\ g.next = SourceEnd(feed, bar.ts)
      /\ g.bar.kind = bar.kind /\ g.bar.volume = bar.volume /\ g.bar.of = bar.of
  BY <1>1, <1>2, <1>3, OpenedCounts
<1>6. /\ o.start \in Int /\ f.start \in Int /\ stop \in Int
      /\ o.start <= f.start /\ f.start < stop
  BY EndsInOrder DEF Hops
<1>7. /\ g.start \in Int /\ stop <= g.start /\ g.start <= bar.ts
      /\ Bucket(FirstHop, g.start).end <= Bucket(feed, o.start).end
  BY <1>5, BarFalls DEF Hops
<1>8. /\ p = None \/ Counted(SecondHop, p)
      /\ \/ p = None \/ p.start < o.start
         \/ p.start = o.start /\ p.start < stop /\ p.next <= stop
  BY PassedStaysBehind
<1>9. p # None => p.start \in Int /\ p.next \in Int
  BY <1>8 DEF Counted, BucketsOf
<1>10. /\ ~ o.poisoned => /\ ~ f.poisoned /\ f.next = o.next /\ f.bar.kind = o.bar.kind
                          /\ Joined(o, f, s) \/ o.bar.volume > MaxVolume
       /\ Joined(o, f, s) /\ ~ f.poisoned => ~ o.poisoned /\ Same(o, f, s)
       /\ Counted(feed, o) /\ Counted(FirstHop, f) /\ (s = None \/ Counted(SecondHop, s))
  BY DEF Hops, Linked
<1>11. ~ f.poisoned => f.next \in Int /\ f.next <= stop /\ (f.seen = f.expected <=> f.next = stop)
  BY <1>2, <1>10, NextPlace
<1>12. o.bar.volume \in Nat /\ f.bar.volume \in Nat
  BY <1>10 DEF Counted, BucketsOf, BarsOf
<1>13. Complete(f) => /\ p # None /\ p.start = o.start /\ p.next = stop
                      /\ p.poisoned <=> ~ Joined(o, f, s)
                      /\ ~ p.poisoned => /\ p.bar.kind = f.bar.kind
                                         /\ p.bar.volume = o.bar.volume /\ p.bar.of = o.bar.of
  BY HandedOver DEF Passed
<1>14. ~ Complete(f) => p = s
  BY DEF Passed
<1> HIDE DEF n, g, p, stop
<1>15. Inside(n, g)
  BY <1>4, <1>6, <1>7 DEF Inside
<1>16. Behind(n, g, p)
  BY <1>4, <1>6, <1>7, <1>8, <1>9 DEF Behind
<1>17. Joined(n, g, p) <=> Follows(p, g) /\ p.start = o.start
  BY <1>4, <1>6, <1>7 DEF Joined
<1>18. ASSUME ~ n.poisoned
       PROVE  /\ ~ g.poisoned /\ g.next = n.next /\ g.bar.kind = n.bar.kind
              /\ Joined(n, g, p) \/ n.bar.volume > MaxVolume
  <2>1. /\ ~ o.poisoned /\ Aligned(feed, bar.ts) /\ bar.ts = o.next /\ bar.kind = o.bar.kind
        /\ n.bar.volume = o.bar.volume + bar.volume
    BY <1>4, <1>18
  <2>2. ~ f.poisoned /\ f.next = bar.ts /\ f.bar.kind = bar.kind
    BY <1>10, <2>1
  <2>3. g.start = bar.ts /\ f.next = stop
    BY <1>1, <1>6, <1>7, <1>11, <2>2
  <2>4. ~ g.poisoned /\ g.next = n.next /\ g.bar.kind = n.bar.kind
    BY <1>4, <1>5, <2>1, <2>3
  <2>5. ASSUME ~ (o.bar.volume > MaxVolume) PROVE Joined(n, g, p)
    <3>1. Joined(o, f, s) /\ Same(o, f, s)
      BY <1>10, <2>1, <2>2, <2>5
    <3>2. f.bar.volume <= o.bar.volume
      <4>1. CASE f.start = o.start
        BY <1>12, <3>1, <4>1 DEF Same
      <4>2. CASE f.start # o.start
        <5>1. s # None /\ Counted(SecondHop, s)
          BY <1>10, <3>1, <4>2 DEF Joined, Follows
        <5>2. s.bar.volume \in Nat
          BY <5>1 DEF Counted, BucketsOf, BarsOf
        <5> QED
          BY <1>12, <3>1, <4>2, <5>2 DEF Same
      <4> QED
        BY <4>1, <4>2
    <3>3. Complete(f)
      BY <1>1, <1>11, <1>12, <2>2, <2>3, <2>5, <3>2 DEF Complete
    <3>4. Follows(p, g) /\ p.start = o.start
      BY <1>5, <1>13, <2>2, <2>3, <3>1, <3>3 DEF Follows
    <3> QED
      BY <1>17, <3>4
  <2>6. o.bar.volume > MaxVolume => n.bar.volume > MaxVolume
    BY <1>1, <1>12, <2>1
  <2> QED
    BY <2>4, <2>5, <2>6
<1>19. ASSUME Joined(n, g, p), ~ g.poisoned PROVE ~ n.poisoned /\ Same(n, g, p)
  <2>1. /\ p # None /\ ~ p.poisoned /\ p.next = g.start /\ p.bar.kind = g.bar.kind
        /\ p.start = o.start
    BY <1>17, <1>19 DEF Follows
  <2>2. Complete(f)
    <3> SUFFICES ASSUME ~ Complete(f) PROVE FALSE
      OBVIOUS
    <3>1. s # None /\ s.start = o.start /\ s.next = g.start /\ s.next \in Int /\ s.start \in Int
      BY <1>9, <1>14, <2>1
    <3>2. s.next <= f.start
      BY <1>6, <3>1 DEF Hops, Behind
    <3> QED
      BY <1>6, <1>7, <3>1, <3>2
  <2>3. /\ Joined(o, f, s) /\ p.next = stop /\ p.bar.kind = f.bar.kind
        /\ p.bar.volume = o.bar.volume /\ p.bar.of = o.bar.of
    BY <1>13, <2>1, <2>2
  <2>4. ~ f.poisoned /\ f.next = stop
    BY <1>11, <2>2 DEF Complete
  <2>5. ~ o.poisoned /\ o.next = stop /\ o.bar.kind = bar.kind
    BY <1>5, <1>10, <2>1, <2>3, <2>4
  <2>6. Aligned(feed, bar.ts) /\ bar.ts = stop
    BY <1>5, <1>19, <2>1, <2>3
  <2>7. ~ n.poisoned /\ n.bar.volume = o.bar.volume + bar.volume /\ n.bar.of = o.bar.of \o bar.of
    BY <1>4, <2>5, <2>6
  <2>8. g.start # n.start
    BY <1>4, <1>6, <1>7
  <2> QED
    BY <1>5, <2>3, <2>7, <2>8 DEF Same
<1> QED
  BY <1>4, <1>5, <1>8, <1>15, <1>16, <1>18, <1>19 DEF Hops, Linked, n, g, p

\* After it, and after the direct one's: both open a bucket, the second hop stays behind.
LEMMA AfterBoth ==
  ASSUME feed \in Feeds, Nested(feed), NEW bar \in Bars(feed), NEW s,
         s = None \/ (Counted(SecondHop, s) /\ s.start < Bucket(feed, bar.ts).start)
  PROVE  Hops(Opened(feed, bar), Opened(FirstHop, bar), s)
<1> DEFINE n == Opened(feed, bar)
           g == Opened(FirstHop, bar)
<1>1. bar \in BarsOf(feed.kinds) /\ bar.ts \in feed.times /\ bar.ts \in Int
  BY BarsAreBars
<1>2. Folds(feed) /\ Folds(FirstHop)
  BY ThreeFolds
<1>3. /\ Aligned(FirstHop, bar.ts) = Aligned(feed, bar.ts)
      /\ SourceEnd(FirstHop, bar.ts) = SourceEnd(feed, bar.ts)
  BY DEF Aligned, SourceEnd, FirstHop
<1>4. /\ Counted(feed, n) /\ n.start = Bucket(feed, bar.ts).start
      /\ n.poisoned <=> ~ (Aligned(feed, bar.ts) /\ bar.ts = n.start)
      /\ n.next = SourceEnd(feed, bar.ts)
      /\ n.bar.kind = bar.kind /\ n.bar.volume = bar.volume /\ n.bar.of = bar.of
  BY <1>1, <1>2, OpenedCounts
<1>5. /\ Counted(FirstHop, g) /\ g.start = Bucket(FirstHop, bar.ts).start
      /\ g.poisoned <=> ~ (Aligned(feed, bar.ts) /\ bar.ts = g.start)
      /\ g.next = SourceEnd(feed, bar.ts)
      /\ g.bar.kind = bar.kind /\ g.bar.volume = bar.volume /\ g.bar.of = bar.of
  BY <1>1, <1>2, <1>3, OpenedCounts
<1>6. /\ n.start \in Int /\ g.start \in Int /\ g.start <= bar.ts
      /\ Bucket(feed, n.start).end = Bucket(feed, bar.ts).end
      /\ Bucket(FirstHop, g.start).end = Bucket(FirstHop, bar.ts).end
  BY <1>1, <1>2, <1>4, <1>5, TimesAreTiled, StartsAreFixed
<1>7. n.start <= g.start /\ Bucket(FirstHop, bar.ts).end <= Bucket(feed, bar.ts).end
  <2>1. /\ Bucket(FirstHop, bar.ts) = Bounds(bar.ts, feed.middle, feed.anchor)
        /\ Bucket(feed, bar.ts) = Bounds(bar.ts, feed.target, feed.anchor)
    BY DEF Bucket, FirstHop
  <2> QED
    BY <1>1, <1>4, <1>5, <2>1 DEF Nested
<1>8. s # None => s.start \in Int /\ s.start < n.start
  BY <1>4 DEF Counted, BucketsOf
<1> HIDE DEF n, g
<1>9. Inside(n, g) /\ Behind(n, g, s)
  BY <1>6, <1>7, <1>8 DEF Inside, Behind
<1>10. Joined(n, g, s) <=> g.start = n.start
  BY <1>6, <1>8 DEF Joined, Follows
<1>11. ASSUME ~ n.poisoned
       PROVE  ~ g.poisoned /\ g.next = n.next /\ g.bar.kind = n.bar.kind /\ Joined(n, g, s)
  BY <1>1, <1>4, <1>5, <1>6, <1>7, <1>10, <1>11
<1>12. ASSUME Joined(n, g, s), ~ g.poisoned PROVE ~ n.poisoned /\ Same(n, g, s)
  BY <1>4, <1>5, <1>10, <1>12 DEF Same
<1> QED
  BY <1>4, <1>5, <1>9, <1>11, <1>12 DEF Hops, Linked, n, g
-----------------------------------------------------------------------------
(* The invariant. *)

\* What is given out is bars.
LEMMA ClosedIsTyped ==
  ASSUME NEW p, NEW o, o = None \/ Counted(p, o)
  PROVE  Closed(o) \in Seq(BarsOf(feed.kinds))
<1> DEFINE B == BarsOf(feed.kinds)
<1>1. o # None => o.bar \in B
  BY DEF Counted, BucketsOf
<1> HIDE DEF B
<1>2. <<>> \in Seq(B) /\ (o # None => <<o.bar>> \in Seq(B))
  BY <1>1
<1> QED
  BY <1>2 DEF Closed, B

\* The direct aggregator has given out t, the hops g, and the second hop holds p.
OutIs(o, t, p, g) ==
  /\ g \in Seq(BarsOf(feed.kinds)) /\ t = g \o Pending(o, p)
  /\ t \o Closed(o) = g \o Closed(p) /\ t \o Closed(o) \in Seq(BarsOf(feed.kinds))

\* Nothing is lost, or added, between what the second hop gives out and what it still holds.
LEMMA OutAgrees ==
  ASSUME feed \in Feeds, NEW o, NEW f, NEW s, Hops(o, f, s), o # None,
         NEW h \in Seq(BarsOf(feed.kinds)), NEW t, t = h \o Pending(o, s)
  PROVE  OutIs(o, t, Passed(f, s), h \o GivenOut(f, s))
<1> DEFINE B == BarsOf(feed.kinds)
           p == Passed(f, s)
           given == GivenOut(f, s)
           g == h \o given
           held == Pending(o, s)
           left == Pending(o, p)
<1>1. /\ p = None \/ Counted(SecondHop, p)
      /\ given = held \/ given = <<>>
      /\ left = IF given = <<>> THEN held ELSE <<>>
      /\ p = None \/ p.start <= o.start
  <2>1. /\ p = None \/ Counted(SecondHop, p)
        /\ \/ p = None \/ p.start < o.start
           \/ p.start = o.start /\ p.start < Bucket(FirstHop, f.start).end
              /\ p.next <= Bucket(FirstHop, f.start).end
        /\ GivenOut(f, s) = Pending(o, s) \/ GivenOut(f, s) = <<>>
        /\ Pending(o, p) = IF GivenOut(f, s) = <<>> THEN Pending(o, s) ELSE <<>>
    BY PassedStaysBehind
  <2>2. o.start \in Int /\ (p # None => p.start \in Int)
    BY <2>1 DEF Hops, Counted, BucketsOf
  <2> HIDE DEF p
  <2> QED
    BY <2>1, <2>2
<1>2. /\ held \in Seq(B) /\ Closed(p) \in Seq(B) /\ Closed(o) \in Seq(B)
  <2>1. Closed(s) \in Seq(B) /\ Closed(o) \in Seq(B)
    BY ClosedIsTyped DEF Hops
  <2>2. Closed(p) \in Seq(B)
    BY <1>1, ClosedIsTyped
  <2>3. <<>> \in Seq(B)
    OBVIOUS
  <2> QED
    BY <2>1, <2>2, <2>3 DEF Pending
<1>3. Closed(o) = IF p # None /\ p.start = o.start THEN Closed(p) ELSE <<>>
  BY ClosedAlike
<1>4. left = IF p # None /\ p.start < o.start THEN Closed(p) ELSE <<>>
  BY DEF Pending
<1>5. Closed(None) = <<>>
  BY DEF Closed
<1>6. o.start \in Int /\ (p # None => p.start \in Int)
  BY <1>1 DEF Hops, Counted, BucketsOf
<1> HIDE DEF p, given, held, left, B
<1>7. \A x \in Seq(B) : x \o <<>> = x
  OBVIOUS
<1>8. given \in Seq(B) /\ g \in Seq(B)
  <2>1. h \in Seq(B) /\ <<>> \in Seq(B)
    BY DEF B
  <2>2. given \in Seq(B)
    BY <1>1, <1>2, <2>1
  <2>3. \A x \in Seq(B), y \in Seq(B) : x \o y \in Seq(B)
    OBVIOUS
  <2> QED
    BY <2>1, <2>2, <2>3
<1>9. t = g \o left
  <2>1. CASE given = <<>>
    <3>1. g = h
      BY <1>7, <2>1 DEF B
    <3> QED
      BY <1>1, <2>1, <3>1 DEF held
  <2>2. CASE given # <<>>
    <3>1. t = g /\ left = <<>>
      BY <1>1, <2>2 DEF held
    <3> QED
      BY <1>7, <1>8, <3>1
  <2> QED
    BY <2>1, <2>2
<1>10. t \o Closed(o) = g \o Closed(p)
  <2>1. CASE p # None /\ p.start = o.start
    <3>1. left = <<>> /\ Closed(o) = Closed(p)
      BY <1>3, <1>4, <1>6, <2>1
    <3>2. t = g
      BY <1>7, <1>8, <1>9, <3>1
    <3> QED
      BY <3>1, <3>2
  <2>2. CASE p = None \/ p.start # o.start
    <3>1. Closed(o) = <<>> /\ left = Closed(p)
      BY <1>1, <1>3, <1>4, <1>5, <1>6, <2>2
    <3>2. t \in Seq(B)
      BY <1>2, <1>8, <1>9, <3>1
    <3> QED
      BY <1>7, <1>9, <3>1, <3>2
  <2> QED
    BY <2>1, <2>2
<1>11. t \o Closed(o) \in Seq(B)
  BY <1>2, <1>8, <1>10
<1> HIDE DEF g
<1> QED
  BY <1>8, <1>9, <1>10, <1>11 DEF OutIs, B, p, g, given, left

\* What a bar does to the second hop: nothing, unless it closes a bucket of the first.
LEMMA HopPushed ==
  ASSUME feed \in Feeds, NEW bar \in Bars(feed), HopPush(bar), hopped \in Seq(BarsOf(feed.kinds))
  PROVE  /\ feed' = feed /\ ~ finished /\ ~ finished'
         /\ open' = Pushed(feed, open, bar) /\ first' = Pushed(FirstHop, first, bar)
         /\ out' = out \o Emitted(feed, open, bar)
         /\ IF first # None /\ Bucket(FirstHop, bar.ts).start > first.start
            THEN second' = Passed(first, second) /\ hopped' = hopped \o GivenOut(first, second)
            ELSE second' = second /\ hopped' = hopped
<1>1. /\ feed' = feed /\ ~ finished /\ ~ finished'
      /\ open' = Pushed(feed, open, bar) /\ first' = Pushed(FirstHop, first, bar)
      /\ out' = out \o Emitted(feed, open, bar)
  BY DEF HopPush, Push
<1> DEFINE passed == Emitted(FirstHop, first, bar)
<1>2. IF passed = <<>>
      THEN second' = second /\ hopped' = hopped
      ELSE /\ second' = Pushed(SecondHop, second, passed[1])
           /\ hopped' = hopped \o Emitted(SecondHop, second, passed[1])
  BY DEF HopPush
<1>3. CASE first # None /\ Bucket(FirstHop, bar.ts).start > first.start
  <2>1. CASE Complete(first)
    <3>1. passed = <<first.bar>>
      BY <1>3, <2>1 DEF Emitted, Closed
    <3> HIDE DEF passed
    <3>2. passed # <<>> /\ passed[1] = first.bar
      BY <3>1
    <3> QED
      BY <1>1, <1>2, <1>3, <2>1, <3>2 DEF Passed, GivenOut
  <2>2. CASE ~ Complete(first)
    <3>1. passed = <<>>
      BY <1>3, <2>2 DEF Emitted, Closed
    <3>2. hopped \o <<>> = hopped
      OBVIOUS
    <3> QED
      BY <1>1, <1>2, <1>3, <2>2, <3>1, <3>2 DEF Passed, GivenOut
  <2> QED
    BY <2>1, <2>2
<1>4. CASE ~ (first # None /\ Bucket(FirstHop, bar.ts).start > first.start)
  <2>1. passed = <<>>
    BY <1>4 DEF Emitted
  <2> QED
    BY <1>1, <1>2, <1>4, <2>1
<1> QED
  BY <1>3, <1>4

\* A bucket that was added to, or opened, is one.
LEMMA HopsAreSome ==
  ASSUME feed \in Feeds, NEW o, NEW f, NEW s, Hops(o, f, s)
  PROVE  o # None /\ f # None
  BY NoneIsNoBucket DEF Hops, Counted

\* A bar is pushed.
LEMMA PushKeepsHops ==
  ASSUME feed \in Feeds, Nested(feed), Hopping, NEW bar \in Bars(feed), HopPush(bar)
  PROVE  Hopping'
<1> DEFINE B == BarsOf(feed.kinds)
           g == Bucket(feed, bar.ts).start
           m == Bucket(FirstHop, bar.ts).start
<1>1. /\ out \in Seq(B) /\ hopped \in Seq(B)
      /\ open = None => first = None /\ second = None /\ hopped = out
      /\ open # None => /\ first # None /\ Hops(open, first, second)
                        /\ out = hopped \o Pending(open, second)
  BY DEF Hopping
<1>2. /\ feed' = feed /\ ~ finished'
      /\ open' = Pushed(feed, open, bar) /\ first' = Pushed(FirstHop, first, bar)
      /\ out' = out \o Emitted(feed, open, bar)
      /\ IF first # None /\ m > first.start
         THEN second' = Passed(first, second) /\ hopped' = hopped \o GivenOut(first, second)
         ELSE second' = second /\ hopped' = hopped
  BY <1>1, HopPushed
<1>3. FirstHop' = FirstHop /\ SecondHop' = SecondHop
  BY <1>2 DEF FirstHop, SecondHop
<1>4. SUFFICES /\ out' \in Seq(B) /\ hopped' \in Seq(B)
               /\ Hops(open', first', second')
               /\ out' = hopped' \o Pending(open', second')
  <2>1. ASSUME Hops(open', first', second') PROVE Hops(open, first, second)'
    BY <1>2, <1>3, <2>1
       DEF Hops, Counted, Inside, Behind, Linked, Joined, Follows, Same, Bucket, Expected
  <2>2. ASSUME Hops(open', first', second') PROVE open' # None /\ first' # None
    BY <2>2, HopsAreSome
  <2>3. ASSUME out' = hopped' \o Pending(open', second')
        PROVE  (out = hopped \o Pending(open, second))'
    BY <2>3 DEF Pending, Closed, Complete
  <2> QED
    BY <1>2, <2>1, <2>2, <2>3 DEF Hopping
<1>5. \A x \in Seq(B) : x \o <<>> = x
  OBVIOUS
<1>6. CASE open = None
  <2>1. /\ open' = Opened(feed, bar) /\ first' = Opened(FirstHop, bar)
        /\ second' = None /\ out' = out /\ hopped' = out
    BY <1>1, <1>2, <1>5, <1>6 DEF Pushed, Emitted
  <2>2. Hops(open', first', second')
    BY <2>1, AfterBoth
  <2>3. Pending(open', second') = <<>>
    BY <2>1 DEF Pending
  <2> QED
    BY <1>1, <1>5, <2>1, <2>2, <2>3
<1>7. CASE open # None
  <2>1. /\ first # None /\ Hops(open, first, second) /\ out = hopped \o Pending(open, second)
    BY <1>1, <1>7
  <2>2. /\ g \in Int /\ m \in Int
        /\ m = first.start => g = open.start
        /\ g > open.start => m > first.start
        /\ g < open.start => m < first.start
    BY <2>1, BarFalls DEF Hops
  <2>3. open.start \in Int /\ first.start \in Int
    BY <2>1 DEF Hops, Counted, BucketsOf
  <2>4. /\ g = open.start => Pushed(feed, open, bar) = Absorbed(feed, open, bar)
        /\ g < open.start => Pushed(feed, open, bar) = [open EXCEPT !.poisoned = TRUE]
        /\ g > open.start => Pushed(feed, open, bar) = Opened(feed, bar)
        /\ m = first.start => Pushed(FirstHop, first, bar) = Absorbed(FirstHop, first, bar)
        /\ m < first.start => Pushed(FirstHop, first, bar) = [first EXCEPT !.poisoned = TRUE]
        /\ m > first.start => Pushed(FirstHop, first, bar) = Opened(FirstHop, bar)
        /\ Emitted(feed, open, bar) = IF g > open.start THEN Closed(open) ELSE <<>>
    <3> HIDE DEF g, m
    <3>1. /\ g = open.start => ~ (g > open.start)
          /\ g < open.start => ~ (g > open.start) /\ g # open.start
          /\ m = first.start => ~ (m > first.start)
          /\ m < first.start => ~ (m > first.start) /\ m # first.start
      BY <2>2, <2>3
    <3> QED
      BY <1>7, <2>1, <3>1 DEF Pushed, Emitted, g, m
  <2>5. CASE m = first.start
    <3>1. /\ open' = Absorbed(feed, open, bar) /\ first' = Absorbed(FirstHop, first, bar)
          /\ second' = second /\ hopped' = hopped /\ out' = out /\ open'.start = open.start
      <4>1. g = open.start /\ ~ (g > open.start) /\ ~ (m > first.start)
        BY <2>2, <2>3, <2>5
      <4>2. Absorbed(feed, open, bar).start = open.start
        <5>1. Added(feed, open, bar, Absorbed(feed, open, bar))
          BY <2>1, <4>1, ThreeFolds, BarsAreBars, AbsorbedCounts DEF Hops
        <5> QED
          BY <5>1 DEF Added
      <4> QED
        BY <1>1, <1>2, <1>5, <2>4, <2>5, <4>1, <4>2
    <3>2. Hops(open', first', second')
      BY <2>1, <2>5, <3>1, InTheBucket
    <3>3. Pending(open', second') = Pending(open, second)
      BY <3>1 DEF Pending
    <3> QED
      BY <1>1, <2>1, <3>1, <3>2, <3>3
  <2>6. CASE m < first.start
    <3>1. /\ \/ open' = Absorbed(feed, open, bar) /\ g = open.start
             \/ open' = [open EXCEPT !.poisoned = TRUE]
          /\ first' = [first EXCEPT !.poisoned = TRUE]
          /\ second' = second /\ hopped' = hopped /\ out' = out
      <4>1. ~ (g > open.start) /\ ~ (m > first.start) /\ (g = open.start \/ g < open.start)
        BY <2>2, <2>3, <2>6
      <4> QED
        BY <1>1, <1>2, <1>5, <2>4, <2>6, <4>1
    <3>2. Hops(open', first', second')
      BY <2>1, <2>6, <3>1, BeforeTheBucket
    <3>3. open'.start = open.start
      <4>1. CASE open' = Absorbed(feed, open, bar) /\ g = open.start
        <5>1. Added(feed, open, bar, Absorbed(feed, open, bar))
          BY <2>1, <4>1, ThreeFolds, BarsAreBars, AbsorbedCounts DEF Hops
        <5> QED
          BY <4>1, <5>1 DEF Added
      <4>2. CASE open' = [open EXCEPT !.poisoned = TRUE]
        BY <2>1, <4>2, PoisonedCounts DEF Hops
      <4> QED
        BY <3>1, <4>1, <4>2
    <3>4. Pending(open', second') = Pending(open, second)
      BY <3>1, <3>3 DEF Pending
    <3> QED
      BY <1>1, <2>1, <3>1, <3>2, <3>4
  <2>7. CASE m > first.start
    <3> DEFINE p == Passed(first, second)
               h == hopped \o GivenOut(first, second)
    <3>1. second' = p /\ hopped' = h /\ first' = Opened(FirstHop, bar)
      BY <1>2, <2>1, <2>4, <2>7
    <3>2. /\ h \in Seq(B) /\ out = h \o Pending(open, p)
          /\ out \o Closed(open) = h \o Closed(p) /\ out \o Closed(open) \in Seq(B)
      <4>1. OutIs(open, out, p, h)
        BY <1>1, <1>7, <2>1, OutAgrees
      <4> HIDE DEF p, h
      <4> QED
        BY <4>1 DEF OutIs
    <3>3. CASE g > open.start
      <4>1. open' = Opened(feed, bar) /\ out' = out \o Closed(open)
        BY <1>2, <2>4, <3>3
      <4>2. p = None \/ (Counted(SecondHop, p) /\ p.start < g)
        <5>1. p = None \/ (Counted(SecondHop, p) /\ p.start <= open.start)
          <6>1. /\ p = None \/ Counted(SecondHop, p)
                /\ p = None \/ p.start < open.start \/ p.start = open.start
            BY <2>1, PassedStaysBehind
          <6>2. p # None => p.start \in Int
            BY <6>1 DEF Counted, BucketsOf
          <6> HIDE DEF p
          <6> QED
            BY <2>3, <6>1, <6>2
        <5>2. p # None => p.start \in Int
          BY <5>1 DEF Counted, BucketsOf
        <5> HIDE DEF p, g
        <5> QED
          BY <2>2, <2>3, <3>3, <5>1, <5>2
      <4>3. Hops(open', first', second')
        BY <3>1, <4>1, <4>2, AfterBoth
      <4>4. Pending(open', p) = Closed(p)
        <5>1. open'.start = g
          BY <4>1 DEF Opened
        <5> HIDE DEF p, g
        <5> QED
          BY <4>2, <5>1 DEF Pending, Closed
      <4> HIDE DEF p, h
      <4> QED
        BY <3>1, <3>2, <4>1, <4>3, <4>4
    <3>4. CASE g = open.start
      <4>1. open' = Absorbed(feed, open, bar) /\ out' = out
        <5>1. ~ (g > open.start)
          BY <2>2, <2>3, <3>4
        <5> QED
          BY <1>1, <1>2, <1>5, <2>4, <3>4, <5>1
      <4>2. Hops(open', first', second')
        BY <2>1, <2>7, <3>1, <3>4, <4>1, AfterTheBucket
      <4>3. open'.start = open.start
        <5>1. Added(feed, open, bar, Absorbed(feed, open, bar))
          BY <2>1, <3>4, ThreeFolds, BarsAreBars, AbsorbedCounts DEF Hops
        <5> QED
          BY <4>1, <5>1 DEF Added
      <4>4. Pending(open', p) = Pending(open, p)
        BY <4>3 DEF Pending
      <4> HIDE DEF p, h
      <4> QED
        BY <1>1, <3>1, <3>2, <4>1, <4>2, <4>4
    <3>5. g > open.start \/ g = open.start
      BY <2>2, <2>3, <2>7
    <3> QED
      BY <3>3, <3>4, <3>5
  <2> QED
    BY <2>2, <2>3, <2>5, <2>6, <2>7
<1> QED
  BY <1>6, <1>7

\* The stream ends: the first hop hands over its last bucket, the second closes its own.
LEMMA FinishKeepsHops ==
  ASSUME feed \in Feeds, Hopping, HopFinish
  PROVE  Hopping'
<1> DEFINE B == BarsOf(feed.kinds)
           passed == Closed(first)
<1>1. /\ feed' = feed /\ open' = None /\ first' = None /\ second' = None
      /\ out' = out \o Closed(open)
      /\ hopped' = IF passed = <<>> THEN hopped \o Closed(second)
                   ELSE hopped \o Emitted(SecondHop, second, passed[1])
                               \o Closed(Pushed(SecondHop, second, passed[1]))
  BY DEF HopFinish, Finish
<1>2. out \in Seq(B) /\ hopped \in Seq(B)
  BY DEF Hopping
<1>3. \A x \in Seq(B) : x \o <<>> = x
  OBVIOUS
<1>4. out' = hopped' /\ out' \in Seq(B)
  <2>1. CASE open = None
    <3>1. first = None /\ second = None /\ hopped = out
      BY <2>1 DEF Hopping
    <3>2. passed = <<>> /\ Closed(second) = <<>> /\ Closed(open) = <<>>
      BY <2>1, <3>1 DEF Closed
    <3> QED
      BY <1>1, <1>2, <1>3, <3>1, <3>2
  <2>2. CASE open # None
    <3>1. first # None /\ Hops(open, first, second) /\ out = hopped \o Pending(open, second)
      BY <2>2 DEF Hopping
    <3>2. /\ out \o Closed(open) = (hopped \o GivenOut(first, second)) \o Closed(Passed(first, second))
          /\ out \o Closed(open) \in Seq(B)
      <4>1. OutIs(open, out, Passed(first, second), hopped \o GivenOut(first, second))
        BY <1>2, <2>2, <3>1, OutAgrees
      <4> QED
        BY <4>1 DEF OutIs
    <3>3. hopped' = (hopped \o GivenOut(first, second)) \o Closed(Passed(first, second))
      <4>1. CASE Complete(first)
        <5>1. passed = <<first.bar>>
          BY <3>1, <4>1 DEF Closed
        <5> HIDE DEF passed
        <5>2. passed # <<>> /\ passed[1] = first.bar
          BY <5>1
        <5> QED
          BY <1>1, <4>1, <5>2 DEF Passed, GivenOut
      <4>2. CASE ~ Complete(first)
        <5>1. passed = <<>>
          BY <4>2 DEF Closed
        <5> QED
          BY <1>1, <1>2, <1>3, <4>2, <5>1 DEF Passed, GivenOut
      <4> QED
        BY <4>1, <4>2
    <3> QED
      BY <1>1, <3>2, <3>3
  <2> QED
    BY <2>1, <2>2
<1> QED
  BY <1>1, <1>4 DEF Hopping

\* The invariant says that the two agree.
LEMMA HoppingAgrees ==
  ASSUME HopInv
  PROVE  TwoHopsAgree
<1> SUFFICES ASSUME Hopping PROVE IsPrefix(hopped, out) /\ (finished => hopped = out)
  BY DEF HopInv, TwoHopsAgree
<1> DEFINE B == BarsOf(feed.kinds)
<1>1. out \in Seq(B) /\ hopped \in Seq(B)
  BY DEF Hopping
<1>2. CASE open = None
  <2>1. hopped = out
    BY <1>2 DEF Hopping
  <2> QED
    BY <1>1, <2>1 DEF IsPrefix
<1>3. CASE open # None
  <2> DEFINE x == Pending(open, second)
  <2>1. ~ finished /\ out = hopped \o x
    BY <1>3 DEF Hopping
  <2>2. x \in Seq(B)
    <3>1. second = None \/ Counted(SecondHop, second)
      BY <1>3 DEF Hopping, Hops
    <3>2. Closed(second) \in Seq(B) /\ <<>> \in Seq(B)
      BY <3>1, ClosedIsTyped
    <3> QED
      BY <3>2 DEF Pending
  <2> HIDE DEF x, B
  <2>3. Len(hopped) \in Nat /\ Len(x) \in Nat /\ Len(out) = Len(hopped) + Len(x)
    BY <1>1, <2>1, <2>2
  <2>4. \A k \in 1 .. Len(hopped) : out[k] = hopped[k]
    BY <1>1, <2>1, <2>2
  <2>5. SubSeq(out, 1, Len(hopped)) = SubSeq(hopped, 1, Len(hopped))
    BY <1>1, <2>3, <2>4
  <2> QED
    BY <2>1, <2>3, <2>5 DEF IsPrefix
<1> QED
  BY <1>2, <1>3

(***************************************************************************)
(* Folding by way of a spec in between gives the bars that folding at once *)
(* gives, and none ahead of them, for every feed whose buckets in between  *)
(* are nested in the target's: any specs, days, anchor and volume bound,   *)
(* and any stream, with bars lost, repeated, late, misplaced or of another *)
(* kind (Aggregator::push, finish).                                        *)
(***************************************************************************)
THEOREM TwoHopsHold == HopSpec => []TwoHopsAgree
<1>1. HopInit => HopInv
  BY DEF HopInit, Init, HopInv, Hopping
<1>2. HopInv /\ [HopNext]_hopVars => HopInv'
  <2> SUFFICES ASSUME HopInv, [HopNext]_hopVars PROVE HopInv'
    OBVIOUS
  <2>1. feed \in Feeds /\ (Nested(feed) => Hopping)
    BY DEF HopInv
  <2>2. ASSUME NEW bar \in Bars(feed), HopPush(bar) PROVE HopInv'
    BY <2>1, <2>2, PushKeepsHops DEF HopInv, HopPush, Push, Nested
  <2>3. CASE HopFinish
    BY <2>1, <2>3, FinishKeepsHops DEF HopInv, HopFinish, Finish, Nested
  <2>4. CASE UNCHANGED hopVars
    BY <2>1, <2>4 DEF hopVars, vars, HopInv, Nested, Hopping, Hops, Counted, Inside, Behind, Linked,
          Joined, Follows, Same, Bucket, Expected, FirstHop, SecondHop, Pending, Closed, Complete
  <2> QED
    BY <2>2, <2>3, <2>4 DEF HopNext
<1>3. HopInv => TwoHopsAgree
  BY HoppingAgrees
<1> QED
  BY <1>1, <1>2, <1>3, PTL DEF HopSpec
=============================================================================
