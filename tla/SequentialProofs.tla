--------------------------- MODULE SequentialProofs ---------------------------
(***************************************************************************)
(* UsageWindows: usage is partitioned by meter version and by aggregation  *)
(* window, for every set of instants, any number of versions and events,   *)
(* and every width of the aggregation windows.                             *)
(*                                                                         *)
(* UsageMetering: no digit of a quantity is lost or rounded, for all       *)
(* meters, units and quantities.  The proof counts decimals in units of a  *)
(* power of ten below all of them, where sums and products are those of    *)
(* whole numbers (At).  Induction over exponents is a set of numbers that  *)
(* has zero and the successor of each of its members (Successors).         *)
(*                                                                         *)
(* DecimalReplay: a record that is returned after its fingerprint was      *)
(* compared is the one that was written, for every store, all numbers and  *)
(* contents, and any number of candidates; and the record is found if the  *)
(* store has kept it.                                                      *)
(***************************************************************************)
EXTENDS UsageMetering, UsageWindows, DecimalReplay, WellFoundedInduction, TLAPS

-----------------------------------------------------------------------------
(* Windows and meter versions *)

\* What Accept has checked of an event, which holds for good because a version
\* keeps the activity it was registered with.
AcceptedInv ==
  \A e \in accepted :
    /\ e.window \in Window
    /\ versions[e.version] # NoVersion
    /\ AcceptsWindow(versions[e.version], e.window)

WindowsInv == WindowsTypeOK /\ AcceptedInv

-----------------------------------------------------------------------------
\* A version that accepts a window is active at every instant of it: a window
\* that spans the retirement of the version is refused (MeterV1.accepts_window).
LEMMA AcceptedIsActive ==
  ASSUME NEW a \in Activity, NEW w \in Window, AcceptsWindow(a, w),
         NEW t \in Instants, WindowContains(w, t)
  PROVE  IsActive(a, t)
<1>1. /\ a.from \in Int /\ t \in Int
      /\ w.start \in Int /\ w.end \in Int
      /\ a.from <= w.start /\ w.start <= t /\ t < w.end
  BY WindowsAssumption
  DEF Activity, Window, AcceptsWindow, IsActive, WindowContains
<1>2. a.from <= t
  BY <1>1
<1>3. a.retired \in Int => t < a.retired
  BY <1>1 DEF AcceptsWindow
<1> QED
  BY <1>2, <1>3 DEF IsActive

\* Two windows that overlap share the later of their starts
\* (UsageWindow.overlaps and UsageWindow.contains).
LEMMA OverlapIsShared ==
  ASSUME NEW w \in Window, NEW x \in Window, Overlaps(w, x)
  PROVE  \E t \in Instants : WindowContains(w, t) /\ WindowContains(x, t)
<1>1. /\ w.start \in Instants /\ w.end \in Instants /\ w.start < w.end
      /\ x.start \in Instants /\ x.end \in Instants /\ x.start < x.end
  BY DEF Window
<1>2. /\ w.start \in Int /\ w.end \in Int /\ x.start \in Int /\ x.end \in Int
  BY <1>1, WindowsAssumption
<1>3. CASE w.start <= x.start
  <2>1. WindowContains(w, x.start) /\ WindowContains(x, x.start)
    BY <1>1, <1>2, <1>3 DEF Overlaps, WindowContains
  <2> QED
    BY <1>1, <2>1
<1>4. CASE ~(w.start <= x.start)
  <2>1. WindowContains(w, w.start) /\ WindowContains(x, w.start)
    BY <1>1, <1>2, <1>4 DEF Overlaps, WindowContains
  <2> QED
    BY <1>1, <2>1
<1> QED
  BY <1>3, <1>4

\* Floor division leaves a rest below the divisor, on both sides of zero.
LEMMA RestIsBelowSize ==
  ASSUME NEW t \in Int
  PROVE  /\ t % Size \in Int
         /\ 0 <= t % Size
         /\ t % Size < Size
         /\ t \div Size \in Int
         /\ t = Size * (t \div Size) + (t % Size)
BY WindowsAssumption

\* UsageWindow.bucket gives a window that its instant is in.
LEMMA BucketContains ==
  ASSUME NEW t \in Int
  PROVE  WindowContains(Bucket(t), t)
<1>1. /\ t % Size \in Int /\ 0 <= t % Size /\ t % Size < Size /\ Size \in Int
  BY RestIsBelowSize, WindowsAssumption
<1> QED
  BY <1>1 DEF Bucket, WindowContains

\* The multiples of the width are as far apart as the width.
LEMMA SameQuotient ==
  ASSUME NEW n \in Int, NEW k \in Int, NEW m \in Int,
         n > 0, n * k < n * m + n, n * m < n * k + n
  PROVE  k = m
<1>1. CASE k >= m + 1
  <2>1. n * k >= n * (m + 1)
    BY <1>1
  <2>2. n * (m + 1) = n * m + n
    OBVIOUS
  <2> QED
    BY <2>1, <2>2
<1>2. CASE m >= k + 1
  <2>1. n * m >= n * (k + 1)
    BY <1>2
  <2>2. n * (k + 1) = n * k + n
    OBVIOUS
  <2> QED
    BY <2>1, <2>2
<1> QED
  BY <1>1, <1>2

\* Aligned windows that share an instant are one window.
LEMMA BucketsAreAligned ==
  ASSUME NEW s \in Int, NEW t \in Int, WindowContains(Bucket(t), s)
  PROVE  Bucket(t) = Bucket(s)
<1> DEFINE q == s \div Size
           r == t \div Size
<1>1. /\ Size \in Int /\ Size > 0
      /\ q \in Int /\ r \in Int
      /\ s % Size \in Int /\ 0 <= s % Size /\ s % Size < Size
      /\ t % Size \in Int /\ 0 <= t % Size /\ t % Size < Size
      /\ s = Size * q + (s % Size)
      /\ t = Size * r + (t % Size)
  BY RestIsBelowSize, WindowsAssumption
<1> HIDE DEF q, r
<1>2. t - (t % Size) <= s /\ s < t - (t % Size) + Size
  BY Zenon DEF WindowContains, Bucket
<1>3. Size * q \in Int /\ Size * r \in Int
  BY <1>1
<1>4. /\ Size * r < Size * q + Size
      /\ Size * q < Size * r + Size
  BY <1>1, <1>2, <1>3
<1>5. q = r
  BY <1>1, <1>4, SameQuotient
<1>6. t - (t % Size) = s - (s % Size)
  BY <1>1, <1>3, <1>5
<1> QED
  BY <1>6 DEF Bucket

-----------------------------------------------------------------------------
\* WindowsInv is an invariant: a registered activity is never replaced, and
\* normalized() lets pass only events whose version accepts their window.
LEMMA WindowsInvHolds == WindowsSpec => []WindowsInv
<1>1. WindowsInit => WindowsInv
  BY DEF WindowsInit, WindowsInv, WindowsTypeOK, AcceptedInv
<1>2. WindowsInv /\ [WindowsNext]_windowVars => WindowsInv'
  <2> SUFFICES ASSUME WindowsInv, [WindowsNext]_windowVars
               PROVE  WindowsInv'
    OBVIOUS
  <2> USE DEF WindowsInv
  <2>1. ASSUME NEW v \in Versions, NEW activity \in Activity,
               Register(v, activity)
        PROVE  WindowsInv'
    <3>1. WindowsTypeOK'
      BY <2>1, NoVersionAssumption DEF Register, WindowsTypeOK
    <3>2. ASSUME NEW e \in accepted PROVE versions'[e.version] = versions[e.version]
      <4>1. e.version \in Versions
        BY DEF WindowsTypeOK, Accepted
      <4>2. e.version # v
        BY <2>1 DEF Register, AcceptedInv
      <4> QED
        BY <2>1, <4>1, <4>2 DEF Register, WindowsTypeOK
    <3>3. AcceptedInv'
      BY <2>1, <3>2 DEF Register, AcceptedInv
    <3> QED
      BY <3>1, <3>3
  <2>2. ASSUME NEW v \in Versions, NEW w \in Window, NEW at \in Instants,
               Accept(v, w, at)
        PROVE  WindowsInv'
    <3> DEFINE new == [version |-> v, window |-> w, at |-> at]
    <3>1. new \in Accepted /\ w.start < w.end
      BY DEF Accepted, Window
    <3>2. accepted' = accepted \cup {new} /\ versions' = versions
      BY <2>2 DEF Accept
    <3>3. WindowsTypeOK'
      BY <2>2, <3>1, <3>2 DEF Accept, WindowsTypeOK
    <3>4. AcceptedInv'
      BY <2>2, <3>2 DEF Accept, AcceptedInv
    <3> QED
      BY <3>3, <3>4
  <2>3. CASE UNCHANGED windowVars
    BY <2>3 DEF windowVars, WindowsTypeOK, AcceptedInv
  <2> QED
    BY <2>1, <2>2, <2>3 DEF WindowsNext
<1> QED
  BY <1>1, <1>2, PTL DEF WindowsSpec

-----------------------------------------------------------------------------
\* Registered versions are active between two of the instants, and accepted
\* events have a window and a registered version.
THEOREM WindowsTypeCorrect == WindowsSpec => []WindowsTypeOK
<1>1. WindowsInv => WindowsTypeOK
  BY DEF WindowsInv
<1> QED
  BY <1>1, WindowsInvHolds, PTL

\* Usage is counted once: throughout the activity of one version, never under
\* two versions that hand over to each other, and in one aggregation window on
\* both sides of the epoch.
THEOREM UsageIsCountedOnce == WindowsSpec => []CountedOnce
<1>1. WindowsInv => CountedOnce
  <2> SUFFICES ASSUME WindowsInv
               PROVE  CountedOnce
    OBVIOUS
  <2>1. ASSUME NEW e \in accepted
        PROVE  /\ e.window \in Window
               /\ versions[e.version] \in Activity
               /\ AcceptsWindow(versions[e.version], e.window)
    BY DEF WindowsInv, WindowsTypeOK, AcceptedInv, Accepted
  <2>2. ActiveThroughout
    BY <2>1, AcceptedIsActive DEF ActiveThroughout
  <2>3. NeverCountedTwice
    <3> SUFFICES ASSUME NEW e \in accepted, NEW f \in accepted,
                        Disjoint(versions[e.version], versions[f.version]),
                        Overlaps(e.window, f.window)
                 PROVE  FALSE
      BY DEF NeverCountedTwice
    <3>1. PICK t \in Instants :
            WindowContains(e.window, t) /\ WindowContains(f.window, t)
      BY <2>1, OverlapIsShared
    <3>2. IsActive(versions[e.version], t) /\ IsActive(versions[f.version], t)
      BY <2>1, <3>1, AcceptedIsActive
    <3> QED
      BY <3>2 DEF Disjoint
  <2>4. CountedInOneWindow
    <3> SUFFICES ASSUME NEW e \in accepted, NEW t \in Instants
                 PROVE  /\ WindowContains(Bucket(e.window.start), e.window.start)
                        /\ WindowContains(Bucket(t), e.window.start) =>
                             Bucket(t) = Bucket(e.window.start)
      BY DEF CountedInOneWindow
    <3>1. e.window.start \in Int /\ t \in Int
      BY <2>1, WindowsAssumption DEF Window
    <3> QED
      BY <3>1, BucketContains, BucketsAreAligned
  <2> QED
    BY <2>2, <2>3, <2>4 DEF CountedOnce
<1> QED
  BY <1>1, WindowsInvHolds, PTL

-----------------------------------------------------------------------------
(* Powers of ten *)

\* A set of numbers that has the first and with each the next has all.
LEMMA Successors ==
  ASSUME NEW S \in SUBSET Nat, 0 \in S, \A n \in S : n + 1 \in S
  PROVE  S = Nat
<1> SUFFICES ASSUME Nat \ S # {} PROVE FALSE
  OBVIOUS
<1> DEFINE T == Nat \ S
<1>1. \E n \in T : \A m \in T : ~ (<<m, n>> \in OpToRel(<, Nat))
  <2>1. T \subseteq Nat /\ T # {}
    OBVIOUS
  <2> HIDE DEF T
  <2> QED BY <2>1, WFMin, NatLessThanWellFounded
<1>2. \A m, n \in Nat : <<m, n>> \in OpToRel(<, Nat) <=> m < n
  BY Zenon DEF OpToRel
<1>3. PICK n \in T : \A m \in T : ~ m < n
  BY <1>1, <1>2
<1>4. n \in Nat /\ n # 0 /\ n \notin S
  OBVIOUS
<1>5. n - 1 \in Nat /\ n - 1 < n
  BY <1>4
<1>6. n - 1 \in S
  BY <1>3, <1>5
<1>7. (n - 1) + 1 \in S
  BY <1>6
<1> QED BY <1>4, <1>7

\* The powers of ten up to one of them.
Powers(n) ==
  {f \in [0 .. n -> Nat] :
     f[0] = 1 /\ \A i \in 1 .. n : f[i] = 10 * f[i - 1]}

\* Powers of ten can be listed up to any of them.
LEMMA PowersExist == \A n \in Nat : Powers(n) # {}
<1> DEFINE S == {n \in Nat : Powers(n) # {}}
<1>1. 0 \in S
  <2>1. [i \in 0 .. 0 |-> 1] \in Powers(0)
    BY DEF Powers
  <2> QED BY <2>1
<1>2. ASSUME NEW n \in S
      PROVE  n + 1 \in S
  <2>1. PICK f \in Powers(n) : TRUE
    OBVIOUS
  <2> DEFINE g == [i \in 0 .. n + 1 |-> IF i <= n THEN f[i] ELSE 10 * f[n]]
  <2>2. /\ f \in [0 .. n -> Nat] /\ f[0] = 1
        /\ \A i \in 1 .. n : f[i] = 10 * f[i - 1]
    BY DEF Powers
  <2>3. g \in [0 .. n + 1 -> Nat] /\ g[0] = 1
    BY <2>2
  <2>4. ASSUME NEW i \in 1 .. n + 1
        PROVE  g[i] = 10 * g[i - 1]
    BY <2>2
  <2>5. g \in Powers(n + 1)
    BY <2>3, <2>4 DEF Powers
  <2> QED BY <2>5
<1> HIDE DEF S
<1>3. S = Nat
  BY <1>1, <1>2, Successors DEF S
<1> QED BY <1>3 DEF S

\* Two lists of powers have the same ones.
LEMMA PowersAgree ==
  ASSUME NEW m \in Nat, NEW n \in Nat, NEW f \in Powers(m), NEW g \in Powers(n)
  PROVE  \A i \in Nat : i <= m /\ i <= n => f[i] = g[i]
<1> DEFINE S == {i \in Nat : i <= m /\ i <= n => f[i] = g[i]}
<1>1. 0 \in S
  BY DEF Powers
<1>2. ASSUME NEW i \in S
      PROVE  i + 1 \in S
  <2> SUFFICES ASSUME i + 1 <= m, i + 1 <= n
               PROVE  f[i + 1] = g[i + 1]
    OBVIOUS
  <2>1. i + 1 \in 1 .. m /\ i + 1 \in 1 .. n /\ (i + 1) - 1 = i
    OBVIOUS
  <2>2. f[i + 1] = 10 * f[i] /\ g[i + 1] = 10 * g[i]
    BY <2>1 DEF Powers
  <2> QED BY <2>1, <2>2
<1> HIDE DEF S
<1>3. S = Nat
  BY <1>1, <1>2, Successors DEF S
<1> QED BY <1>3 DEF S

\* The recursive function exists, so that its definition says what it is.
LEMMA TenToDefined ==
  TenTo = [n \in Nat |-> IF n = 0 THEN 1 ELSE 10 * TenTo[n - 1]]
<1> DEFINE F == [n \in Nat |-> (CHOOSE f \in Powers(n) : TRUE)[n]]
<1>1. \A n \in Nat : (CHOOSE f \in Powers(n) : TRUE) \in Powers(n)
  BY PowersExist
<1>2. F[0] = 1
  BY <1>1 DEF Powers
<1>3. ASSUME NEW n \in Nat, n # 0
      PROVE  F[n] = 10 * F[n - 1]
  <2> DEFINE f == CHOOSE h \in Powers(n) : TRUE
             g == CHOOSE h \in Powers(n - 1) : TRUE
  <2>1. n - 1 \in Nat /\ n \in 1 .. n /\ n - 1 <= n
    BY <1>3
  <2>2. f \in Powers(n) /\ g \in Powers(n - 1)
    BY <1>1, <2>1
  <2>3. F[n] = f[n] /\ F[n - 1] = g[n - 1]
    BY <2>1
  <2> HIDE DEF f, g, F
  <2>4. f[n] = 10 * f[n - 1]
    BY <2>1, <2>2 DEF Powers
  <2>5. f[n - 1] = g[n - 1]
    BY <2>1, <2>2, PowersAgree
  <2> QED BY <2>3, <2>4, <2>5
<1>4. F = [n \in Nat |-> IF n = 0 THEN 1 ELSE 10 * F[n - 1]]
  <2> DEFINE G == [n \in Nat |-> IF n = 0 THEN 1 ELSE 10 * F[n - 1]]
  <2>1. \A n \in Nat : F[n] = G[n]
    <3> HIDE DEF F
    <3> QED BY <1>2, <1>3
  <2>2. F = [n \in Nat |-> F[n]] /\ G = [n \in Nat |-> G[n]]
    OBVIOUS
  <2> QED BY <2>1, <2>2
<1>5. TenTo = CHOOSE f : f = [n \in Nat |-> IF n = 0 THEN 1 ELSE 10 * f[n - 1]]
  BY DEF TenTo
<1> HIDE DEF F
<1> QED BY <1>4, <1>5

\* Each power is ten times the one before.
LEMMA TenToSteps ==
  /\ TenTo[0] = 1
  /\ \A n \in Nat : TenTo[n + 1] = 10 * TenTo[n]
<1> DEFINE G == [n \in Nat |-> IF n = 0 THEN 1 ELSE 10 * TenTo[n - 1]]
<1>1. \A n \in Nat : TenTo[n] = G[n]
  <2> HIDE DEF G
  <2> QED BY TenToDefined DEF G
<1>2. \A n \in Nat : TenTo[n] = IF n = 0 THEN 1 ELSE 10 * TenTo[n - 1]
  BY <1>1
<1>3. \A n \in Nat : n + 1 \in Nat /\ n + 1 # 0 /\ (n + 1) - 1 = n
  OBVIOUS
<1> QED BY <1>2, <1>3

\* A power of ten is a positive number.
LEMMA TenToPositive == \A n \in Nat : TenTo[n] \in Nat \ {0}
<1> DEFINE S == {n \in Nat : TenTo[n] \in Nat \ {0}}
<1>1. 0 \in S
  BY TenToSteps
<1>2. \A n \in S : n + 1 \in S
  BY TenToSteps
<1> HIDE DEF S
<1>3. S = Nat
  BY <1>1, <1>2, Successors DEF S
<1> QED BY <1>3 DEF S

\* A power of a sum is the product of the powers.
LEMMA TenToSum ==
  ASSUME NEW m \in Nat, NEW n \in Nat
  PROVE  TenTo[m + n] = TenTo[m] * TenTo[n]
<1> DEFINE S == {k \in Nat : TenTo[m + k] = TenTo[m] * TenTo[k]}
<1>1. 0 \in S
  BY TenToSteps, TenToPositive
<1>2. ASSUME NEW k \in S
      PROVE  k + 1 \in S
  <2>1. TenTo[m + (k + 1)] = 10 * TenTo[m + k]
    BY TenToSteps
  <2>2. TenTo[k + 1] = 10 * TenTo[k]
    BY TenToSteps
  <2>3. TenTo[m] \in Nat /\ TenTo[k] \in Nat
    BY TenToPositive
  <2> QED BY <2>1, <2>2, <2>3
<1> HIDE DEF S
<1>3. S = Nat
  BY <1>1, <1>2, Successors DEF S
<1> QED BY <1>3 DEF S

\* A larger exponent gives a larger power.
LEMMA TenToGrows ==
  ASSUME NEW m \in Nat, NEW n \in Nat, m < n
  PROVE  TenTo[m] < TenTo[n]
<1> DEFINE S == {k \in Nat : TenTo[m] < TenTo[m + k + 1]}
<1>1. 0 \in S
  BY TenToSteps, TenToPositive
<1>2. ASSUME NEW k \in S
      PROVE  k + 1 \in S
  <2>1. TenTo[m + (k + 1) + 1] = 10 * TenTo[m + k + 1]
    BY TenToSteps
  <2>2. TenTo[m] \in Nat /\ TenTo[m + k + 1] \in Nat
    BY TenToPositive
  <2> QED BY <2>1, <2>2
<1> HIDE DEF S
<1>3. S = Nat
  BY <1>1, <1>2, Successors DEF S
<1>4. n - m - 1 \in S /\ m + (n - m - 1) + 1 = n
  BY <1>3
<1> QED BY <1>4 DEF S

-----------------------------------------------------------------------------
(* Digits *)

\* What Abs is.
LEMMA AbsType ==
  ASSUME NEW n \in Int
  PROVE  Abs(n) \in Nat /\ (Abs(n) = 0 <=> n = 0) /\ (Abs(n) = n \/ Abs(n) = -n)
BY DEF Abs

\* The absolute value of a product with a factor that is not negative.
LEMMA AbsProduct ==
  ASSUME NEW m \in Int, NEW n \in Nat
  PROVE  Abs(m * n) = Abs(m) * n
<1>1. CASE m >= 0
  BY <1>1 DEF Abs
<1>2. CASE m < 0
  <2>1. m * n <= 0
    BY <1>2
  <2>2. (-m) * n = -(m * n)
    OBVIOUS
  <2> QED BY <1>2, <2>1, <2>2 DEF Abs
<1> QED BY <1>1, <1>2

\* A set of numbers that is not empty has a smallest one.
LEMMA Smallest ==
  ASSUME NEW T \in SUBSET Nat, T # {}
  PROVE  \E n \in T : \A m \in Nat : m < n => m \notin T
<1>1. \E n \in T : \A m \in T : ~ (<<m, n>> \in OpToRel(<, Nat))
  BY WFMin, NatLessThanWellFounded
<1>2. \A m, n \in Nat : <<m, n>> \in OpToRel(<, Nat) <=> m < n
  BY Zenon DEF OpToRel
<1> QED BY <1>1, <1>2

\* A power is larger than its exponent: every number has a power above it.
LEMMA TenToExceeds == \A n \in Nat : n < TenTo[n]
<1> DEFINE S == {n \in Nat : n < TenTo[n]}
<1>1. 0 \in S
  BY TenToSteps
<1>2. \A n \in S : n + 1 \in S
  BY TenToSteps, TenToPositive
<1> HIDE DEF S
<1>3. S = Nat
  BY <1>1, <1>2, Successors DEF S
<1> QED BY <1>3 DEF S

\* What the number of digits says of a coefficient.
LEMMA DigitsBound ==
  ASSUME NEW c \in Int
  PROVE  /\ Digits(c) \in Nat \ {0}
         /\ Abs(c) < TenTo[Digits(c)]
         /\ Digits(c) # 1 \/ c # 0 => TenTo[Digits(c) - 1] <= Abs(c)
<1> DEFINE T == {n \in Nat \ {0} : Abs(c) < TenTo[n]}
           Has(n) == /\ Abs(c) < TenTo[n]
                     /\ \A m \in 1 .. n - 1 : Abs(c) >= TenTo[m]
<1>1. Abs(c) \in Nat
  BY AbsType
<1>2. Abs(c) + 1 \in T
  BY <1>1, TenToExceeds, TenToPositive
<1>3. PICK n \in T : \A m \in Nat : m < n => m \notin T
  BY <1>2, Smallest
<1>4. n \in 1 .. Abs(c) + 1
  BY <1>1, <1>2, <1>3
<1>5. Has(n)
  BY <1>1, <1>3, TenToPositive
<1>6. Digits(c) \in 1 .. Abs(c) + 1 /\ Has(Digits(c))
  <2>1. Digits(c) = CHOOSE k \in 1 .. Abs(c) + 1 : Has(k)
    BY DEF Digits
  <2> HIDE DEF Has
  <2> QED BY <1>4, <1>5, <2>1
<1>7. Digits(c) # 1 => TenTo[Digits(c) - 1] <= Abs(c)
  BY <1>1, <1>6
<1>8. Digits(c) = 1 /\ c # 0 => TenTo[Digits(c) - 1] <= Abs(c)
  BY <1>1, AbsType, TenToSteps
<1> QED BY <1>1, <1>6, <1>7, <1>8

\* A coefficient has at most n digits exactly when it is below 10^n.
LEMMA DigitsAtMost ==
  ASSUME NEW c \in Int, NEW n \in Nat \ {0}
  PROVE  Digits(c) <= n <=> Abs(c) < TenTo[n]
<1>1. /\ Digits(c) \in Nat \ {0} /\ Abs(c) < TenTo[Digits(c)]
      /\ Digits(c) # 1 \/ c # 0 => TenTo[Digits(c) - 1] <= Abs(c)
  BY DigitsBound
<1>2. Abs(c) \in Nat /\ TenTo[Digits(c)] \in Nat /\ TenTo[n] \in Nat
  BY <1>1, AbsType, TenToPositive
<1>3. CASE Digits(c) <= n
  <2>1. TenTo[Digits(c)] <= TenTo[n]
    BY <1>1, <1>2, <1>3, TenToGrows
  <2> QED BY <1>1, <1>2, <1>3, <2>1
<1>4. CASE n < Digits(c)
  <2>1. Digits(c) - 1 \in Nat /\ n <= Digits(c) - 1 /\ Digits(c) # 1
    BY <1>1, <1>4
  <2>2. TenTo[Digits(c) - 1] \in Nat /\ TenTo[n] <= TenTo[Digits(c) - 1]
    BY <2>1, TenToGrows, TenToPositive
  <2> QED BY <1>1, <1>2, <1>4, <2>1, <2>2
<1> QED BY <1>1, <1>3, <1>4

\* A factor of ten is a digit.
LEMMA DigitsShift ==
  ASSUME NEW c \in Int, c # 0, NEW k \in Nat
  PROVE  Digits(c * TenTo[k]) = Digits(c) + k
<1>1. PICK n \in Nat \ {0} :
        n = Digits(c) /\ Abs(c) < TenTo[n] /\ TenTo[n - 1] <= Abs(c)
  BY DigitsBound
<1>2. PICK t \in Nat : t = TenTo[k] /\ t > 0
  BY TenToPositive
<1>3. PICK d \in Int : d = c * t /\ Abs(d) = Abs(c) * t
  <2>1. c * t \in Int
    OBVIOUS
  <2>2. Abs(c * t) = Abs(c) * t
    BY AbsProduct
  <2> QED BY <2>1, <2>2, Zenon
<1>4. /\ Abs(c) \in Nat /\ Abs(d) \in Nat /\ TenTo[n] \in Nat
      /\ n - 1 \in Nat /\ TenTo[n - 1] \in Nat
  BY <1>1, <1>3, AbsType, TenToPositive
<1>5. TenTo[n + k] = TenTo[n] * t /\ TenTo[(n - 1) + k] = TenTo[n - 1] * t
  BY <1>2, <1>4, TenToSum
<1>6. Abs(d) < TenTo[n + k]
  BY <1>1, <1>2, <1>3, <1>4, <1>5
<1>7. TenTo[(n - 1) + k] <= Abs(d)
  BY <1>1, <1>2, <1>3, <1>4, <1>5
<1>8. Digits(d) \in Nat \ {0} /\ Digits(d) <= n + k
  BY <1>6, DigitsAtMost, DigitsBound
<1>9. Digits(d) = n + k
  <2>1. CASE n + k = 1
    BY <1>8, <2>1
  <2>2. CASE n + k # 1
    <3>1. (n - 1) + k \in Nat \ {0}
      BY <2>2
    <3>2. TenTo[(n - 1) + k] \in Nat
      BY <3>1, TenToPositive
    <3>3. ~ Digits(d) <= (n - 1) + k
      BY <1>4, <1>7, <3>1, <3>2, DigitsAtMost
    <3> QED BY <1>8, <3>3
  <2> QED BY <2>1, <2>2
<1> QED BY <1>1, <1>2, <1>3, <1>9

-----------------------------------------------------------------------------
(* Decimals *)

\* A decimal counted in units of 10^k, for k up to its exponent.
At(d, k) == d.c * TenTo[d.e - k]

\* A decimal is a whole number of units.
LEMMA AtType ==
  ASSUME NEW d \in Decimal, NEW k \in Int, k <= d.e
  PROVE  At(d, k) \in Int
<1>1. d.c \in Int /\ d.e - k \in Nat
  BY DEF Decimal
<1>2. PICK t \in Nat : t = TenTo[d.e - k]
  BY <1>1, TenToPositive
<1> QED BY <1>1, <1>2 DEF At

\* A smaller unit is needed so many times more often.
LEMMA AtSmaller ==
  ASSUME NEW d \in Decimal, NEW k \in Int, k <= d.e, NEW n \in Nat
  PROVE  At(d, k - n) = At(d, k) * TenTo[n]
<1>1. /\ d.c \in Int /\ d.e \in Int /\ d.e - k \in Nat
      /\ d.e - (k - n) = (d.e - k) + n
  BY DEF Decimal
<1>2. TenTo[(d.e - k) + n] = TenTo[d.e - k] * TenTo[n]
  BY <1>1, TenToSum
<1>3. PICK t \in Nat : t = TenTo[d.e - k]
  BY <1>1, TenToPositive
<1>4. PICK u \in Nat : u = TenTo[n]
  BY TenToPositive
<1>5. d.c * (t * u) = (d.c * t) * u
  BY <1>1
<1> QED BY <1>1, <1>2, <1>3, <1>4, <1>5 DEF At

\* A positive factor can be taken away.
LEMMA Cancel ==
  ASSUME NEW a \in Int, NEW b \in Int, NEW t \in Nat \ {0}, a * t = b * t
  PROVE  a = b
<1>1. CASE a < b
  <2>1. a * t < b * t
    BY <1>1
  <2> QED BY <2>1
<1>2. CASE b < a
  <2>1. b * t < a * t
    BY <1>2
  <2> QED BY <2>1
<1> QED BY <1>1, <1>2

\* A positive factor keeps the sign.
LEMMA SignOfProduct ==
  ASSUME NEW c \in Int, NEW t \in Nat \ {0}
  PROVE  /\ c = 0 <=> c * t = 0
         /\ c < 0 <=> c * t < 0
<1>1. CASE c < 0
  BY <1>1
<1>2. CASE c = 0
  BY <1>2
<1>3. CASE c > 0
  BY <1>3
<1> QED BY <1>1, <1>2, <1>3

\* Two decimals are equal if they count as many units, of any one unit.
LEMMA EqualsAt ==
  ASSUME NEW a \in Decimal, NEW b \in Decimal,
         NEW k \in Int, k <= a.e, k <= b.e
  PROVE  Equals(a, b) <=> At(a, k) = At(b, k)
<1> DEFINE e == Smaller(a.e, b.e)
<1>1. e \in Int /\ e <= a.e /\ e <= b.e /\ e - k \in Nat
  BY DEF Smaller, Decimal
<1>2. Equals(a, b) <=> At(a, e) = At(b, e)
  BY DEF Equals, At
<1> HIDE DEF e
<1>3. At(a, e - (e - k)) = At(a, e) * TenTo[e - k]
  BY <1>1, AtSmaller
<1>4. At(b, e - (e - k)) = At(b, e) * TenTo[e - k]
  BY <1>1, AtSmaller
<1>5. e - (e - k) = k
  BY <1>1
<1>6. At(a, e) \in Int /\ At(b, e) \in Int /\ TenTo[e - k] \in Nat \ {0}
  BY <1>1, AtType, TenToPositive
<1> QED BY <1>2, <1>3, <1>4, <1>5, <1>6, Cancel

\* Finitely many exponents have a common bound below.
LEMMA UnitBelow ==
  ASSUME NEW a \in Decimal, NEW b \in Decimal, NEW c \in Decimal
  PROVE  \E k \in Int : k <= a.e /\ k <= b.e /\ k <= c.e
<1>1. a.e \in Int /\ b.e \in Int /\ c.e \in Int
  BY DEF Decimal
<1>2. \/ a.e <= b.e /\ a.e <= c.e
      \/ b.e <= a.e /\ b.e <= c.e
      \/ c.e <= a.e /\ c.e <= b.e
  BY <1>1
<1> QED BY <1>1, <1>2

\* Equality of numbers is symmetric ...
LEMMA EqualsSymmetric ==
  ASSUME NEW a \in Decimal, NEW b \in Decimal, Equals(a, b)
  PROVE  Equals(b, a)
<1>1. PICK k \in Int : k <= a.e /\ k <= b.e
  BY UnitBelow
<1> QED BY <1>1, EqualsAt

\* ... and transitive.
LEMMA EqualsTransitive ==
  ASSUME NEW a \in Decimal, NEW b \in Decimal, NEW c \in Decimal,
         Equals(a, b), Equals(b, c)
  PROVE  Equals(a, c)
<1>1. PICK k \in Int : k <= a.e /\ k <= b.e /\ k <= c.e
  BY UnitBelow
<1>2. At(a, k) = At(b, k) /\ At(b, k) = At(c, k)
  BY <1>1, EqualsAt
<1> QED BY <1>1, <1>2, EqualsAt

\* What of two decimals is the same when they are equal.
LEMMA EqualsMeans ==
  ASSUME NEW a \in Decimal, NEW b \in Decimal, Equals(a, b)
  PROVE  /\ a.c = 0 <=> b.c = 0
         /\ a.c < 0 <=> b.c < 0
         /\ a.e = b.e => a.c = b.c
         /\ a.c # 0 => Adjusted(a) = Adjusted(b)
<1>1. PICK k \in Int : k <= a.e /\ k <= b.e
  BY UnitBelow
<1>2. /\ a.c \in Int /\ a.e \in Int /\ a.e - k \in Nat
      /\ b.c \in Int /\ b.e \in Int /\ b.e - k \in Nat
  BY <1>1 DEF Decimal
<1>3. PICK t \in Nat \ {0} : t = TenTo[a.e - k]
  BY <1>2, TenToPositive
<1>4. PICK u \in Nat \ {0} : u = TenTo[b.e - k]
  BY <1>2, TenToPositive
<1>5. a.c * t = b.c * u
  BY <1>1, <1>3, <1>4, EqualsAt DEF At
<1>6. /\ a.c = 0 <=> a.c * t = 0
      /\ a.c < 0 <=> a.c * t < 0
      /\ b.c = 0 <=> b.c * u = 0
      /\ b.c < 0 <=> b.c * u < 0
  BY <1>2, SignOfProduct
<1>7. a.e = b.e => a.c = b.c
  BY <1>2, <1>3, <1>4, <1>5, Cancel
<1>8. ASSUME a.c # 0
      PROVE  Adjusted(a) = Adjusted(b)
  <2>1. b.c # 0
    BY <1>5, <1>6, <1>8
  <2>2. Digits(a.c * t) = Digits(a.c) + (a.e - k)
    BY <1>2, <1>3, <1>8, DigitsShift
  <2>3. Digits(b.c * u) = Digits(b.c) + (b.e - k)
    BY <1>2, <1>4, <2>1, DigitsShift
  <2>4. PICK m \in Nat : m = Digits(a.c)
    BY <1>2, DigitsBound
  <2>5. PICK n \in Nat : n = Digits(b.c)
    BY <1>2, DigitsBound
  <2>6. m + (a.e - k) = n + (b.e - k)
    BY <1>5, <2>2, <2>3, <2>4, <2>5
  <2>7. a.e + m - 1 = b.e + n - 1
    BY <1>2, <2>6
  <2> QED BY <2>4, <2>5, <2>7 DEF Adjusted
<1> QED BY <1>5, <1>6, <1>7, <1>8

\* Floor division by a divisor is exact, and by nothing else.
LEMMA ExactDivision ==
  ASSUME NEW c \in Int, NEW t \in Nat \ {0}
  PROVE  /\ c \div t \in Int
         /\ c % t = 0 => c = (c \div t) * t
         /\ \A q \in Int : c = q * t => c % t = 0
<1>1. PICK p \in Int : p = c \div t
  OBVIOUS
<1>2. PICK r \in Int : r = c % t
  OBVIOUS
<1>3. c = t * p + r /\ 0 <= r /\ r < t
  BY <1>1, <1>2
<1>4. ASSUME NEW q \in Int, c = q * t
      PROVE  r = 0
  <2>1. CASE q >= p + 1
    <3>1. q * t >= (p + 1) * t
      BY <2>1
    <3>2. (p + 1) * t = t * p + t
      OBVIOUS
    <3> QED BY <1>3, <1>4, <3>1, <3>2
  <2>2. CASE q <= p - 1
    <3>1. q * t <= (p - 1) * t
      BY <2>2
    <3>2. (p - 1) * t = t * p - t
      OBVIOUS
    <3> QED BY <1>3, <1>4, <3>1, <3>2
  <2>3. CASE q = p
    BY <1>3, <1>4, <2>3
  <2> QED BY <2>1, <2>2, <2>3
<1>5. r = 0 => c = p * t
  BY <1>3
<1> QED BY <1>1, <1>2, <1>4, <1>5

\* An integral number has the coefficient AtScale at the scale.
LEMMA IntegralExact ==
  ASSUME NEW d \in Decimal, NEW s \in Int, Integral(d, s)
  PROVE  /\ AtScale(d, s) \in Int
         /\ Equals([c |-> AtScale(d, s), e |-> -s], d)
<1>1. d.c \in Int /\ d.e \in Int
  BY DEF Decimal
<1>2. CASE d.e + s >= 0
  <2>1. PICK t \in Nat : t = TenTo[d.e + s]
    BY <1>1, <1>2, TenToPositive
  <2>2. PICK q \in Int : q = AtScale(d, s) /\ q = d.c * t
    <3>1. d.c * t \in Int
      BY <1>1
    <3>2. AtScale(d, s) = d.c * t
      BY <1>2, <2>1 DEF AtScale
    <3> QED BY <3>1, <3>2
  <2> DEFINE a == [c |-> q, e |-> -s]
  <2>3. a \in Decimal /\ a.c = q /\ a.e = -s /\ a.e <= d.e
    BY <1>1, <1>2 DEF Decimal
  <2> HIDE DEF a
  <2>4. At(a, -s) = q * TenTo[0] /\ At(d, -s) = d.c * TenTo[d.e + s]
    <3>1. (-s) - (-s) = 0 /\ d.e - (-s) = d.e + s
      BY <1>1
    <3> QED BY <2>3, <3>1 DEF At
  <2>5. At(a, -s) = At(d, -s)
    BY <2>1, <2>2, <2>4, TenToSteps
  <2>6. Equals(a, d)
    BY <2>3, <2>5, EqualsAt
  <2> QED BY <2>2, <2>6 DEF a
<1>3. CASE d.e + s < 0
  <2>1. PICK t \in Nat \ {0} : t = TenTo[-(d.e + s)]
    BY <1>1, <1>3, TenToPositive
  <2>2. d.c % t = 0
    BY <1>1, <1>3, <2>1 DEF Integral
  <2>3. PICK q \in Int : q = AtScale(d, s) /\ d.c = q * t
    <3>1. AtScale(d, s) = d.c \div t
      BY <1>1, <1>3, <2>1 DEF AtScale
    <3>2. d.c \div t \in Int /\ d.c = (d.c \div t) * t
      BY <1>1, <2>2, ExactDivision
    <3> QED BY <3>1, <3>2, Zenon
  <2> DEFINE a == [c |-> q, e |-> -s]
  <2>4. a \in Decimal /\ a.c = q /\ a.e = -s /\ d.e <= a.e
    BY <1>1, <1>3 DEF Decimal
  <2> HIDE DEF a
  <2>5. At(a, d.e) = q * t /\ At(d, d.e) = d.c * TenTo[0]
    <3>1. (-s) - d.e = -(d.e + s) /\ d.e - d.e = 0
      BY <1>1
    <3> QED BY <2>1, <2>4, <3>1 DEF At
  <2>6. At(a, d.e) = At(d, d.e)
    BY <1>1, <2>3, <2>5, TenToSteps
  <2>7. Equals(a, d)
    BY <1>1, <2>4, <2>6, EqualsAt
  <2> QED BY <2>3, <2>7 DEF a
<1> QED BY <1>1, <1>2, <1>3

\* A number is integral at the scale of every decimal that it equals.
LEMMA IntegralWhere ==
  ASSUME NEW d \in Decimal, NEW a \in Decimal, Equals(a, d)
  PROVE  Integral(d, -a.e) /\ AtScale(d, -a.e) = a.c
<1>1. d.c \in Int /\ d.e \in Int /\ a.c \in Int /\ a.e \in Int
  BY DEF Decimal
<1>2. PICK s \in Int : s = -a.e
  BY <1>1
<1>3. Integral(d, s)
  <2>1. CASE d.e + s >= 0
    BY <2>1 DEF Integral
  <2>2. CASE d.e + s < 0
    <3>1. PICK t \in Nat \ {0} : t = TenTo[-(d.e + s)]
      BY <1>1, <2>2, TenToPositive
    <3>2. d.e <= a.e /\ a.e - d.e = -(d.e + s) /\ d.e - d.e = 0
      BY <1>1, <1>2, <2>2
    <3>3. At(a, d.e) = At(d, d.e)
      BY <1>1, <3>2, EqualsAt
    <3>4. a.c * t = d.c * TenTo[0]
      BY <3>1, <3>2, <3>3 DEF At
    <3>5. d.c = a.c * t
      BY <1>1, <3>4, TenToSteps
    <3>6. d.c % t = 0
      BY <1>1, <3>5, ExactDivision
    <3> QED BY <3>1, <3>6 DEF Integral
  <2> QED BY <1>1, <1>2, <2>1, <2>2
<1>4. PICK q \in Int : q = AtScale(d, s) /\ Equals([c |-> q, e |-> -s], d)
  BY <1>3, IntegralExact
<1> DEFINE b == [c |-> q, e |-> -s]
<1>5. b \in Decimal /\ b.c = q /\ b.e = a.e /\ Equals(b, d)
  BY <1>1, <1>2, <1>4 DEF Decimal
<1> HIDE DEF b
<1>6. Equals(b, a)
  BY <1>5, EqualsSymmetric, EqualsTransitive
<1>7. b.c = a.c
  BY <1>5, <1>6, EqualsMeans
<1> QED BY <1>2, <1>3, <1>4, <1>5, <1>7

\* Equal numbers are integral at the same scales and have one coefficient there.
LEMMA EqualsAtScale ==
  ASSUME NEW a \in Decimal, NEW b \in Decimal, Equals(a, b),
         NEW s \in Int, Integral(a, s)
  PROVE  Integral(b, s) /\ AtScale(b, s) = AtScale(a, s)
<1>1. PICK q \in Int : q = AtScale(a, s) /\ Equals([c |-> q, e |-> -s], a)
  BY IntegralExact
<1> DEFINE d == [c |-> q, e |-> -s]
<1>2. d \in Decimal /\ d.c = q /\ -d.e = s /\ Equals(d, a)
  BY <1>1 DEF Decimal
<1> HIDE DEF d
<1>3. Equals(d, b)
  BY <1>2, EqualsTransitive
<1> QED BY <1>1, <1>2, <1>3, IntegralWhere

\* A number stays integral at every larger scale.
LEMMA IntegralLarger ==
  ASSUME NEW d \in Decimal, NEW r \in Int, NEW s \in Int, r <= s,
         Integral(d, r)
  PROVE  Integral(d, s)
<1>1. PICK q \in Int : q = AtScale(d, r) /\ Equals([c |-> q, e |-> -r], d)
  BY IntegralExact
<1> DEFINE a == [c |-> q, e |-> -r]
<1>2. a \in Decimal /\ a.e = -r /\ Equals(a, d)
  BY <1>1 DEF Decimal
<1>3. Integral(a, s)
  BY <1>2 DEF Integral
<1> HIDE DEF a
<1> QED BY <1>2, <1>3, EqualsAtScale

\* Every zero is the plain one.
LEMMA CanonicalEquals ==
  ASSUME NEW d \in Decimal
  PROVE  /\ Canonical(d) \in Decimal
         /\ Equals(Canonical(d), d)
         /\ Canonical(d).c = d.c
         /\ d.c # 0 => Canonical(d) = d
         /\ d.c = 0 => Canonical(d) = Zero
<1>1. CASE d.c = 0
  <2>1. Zero \in Decimal /\ Zero.c = 0 /\ Zero.e = 0 /\ Canonical(d) = Zero
    BY <1>1 DEF Zero, Decimal, Canonical
  <2>2. PICK k \in Int : k <= Zero.e /\ k <= d.e
    BY <2>1, UnitBelow
  <2>3. d.e \in Int /\ d.e - k \in Nat /\ Zero.e - k \in Nat
    BY <2>1, <2>2 DEF Decimal
  <2>4. At(Zero, k) = 0 /\ At(d, k) = 0
    BY <1>1, <2>1, <2>3, TenToPositive DEF At
  <2> QED BY <1>1, <2>1, <2>2, <2>4, EqualsAt
<1>2. CASE d.c # 0
  <2>1. Canonical(d) = d
    BY <1>2 DEF Canonical
  <2>2. PICK k \in Int : k <= d.e
    BY UnitBelow
  <2>3. Equals(d, d)
    BY <2>2, EqualsAt
  <2> QED BY <1>2, <2>1, <2>3
<1> QED BY <1>1, <1>2

\* Addition counts the units of both.
LEMMA PlusAt ==
  ASSUME NEW a \in Decimal, NEW b \in Decimal
  PROVE  /\ Plus(a, b) \in Decimal
         /\ Plus(a, b).e = Smaller(a.e, b.e)
         /\ \A k \in Int : k <= a.e /\ k <= b.e =>
              /\ k <= Plus(a, b).e
              /\ At(Plus(a, b), k) = At(a, k) + At(b, k)
<1> DEFINE e == Smaller(a.e, b.e)
           x == At(a, e) + At(b, e)
<1>1. e \in Int /\ e <= a.e /\ e <= b.e /\ (e = a.e \/ e = b.e)
  BY DEF Smaller, Decimal
<1>2. Plus(a, b) = [c |-> x, e |-> e]
  BY DEF Plus, At
<1> HIDE DEF e
<1>3. At(a, e) \in Int /\ At(b, e) \in Int
  BY <1>1, AtType
<1>4. x \in Int
  BY <1>3
<1>5. Plus(a, b) \in Decimal /\ Plus(a, b).c = x /\ Plus(a, b).e = e
  BY <1>1, <1>2, <1>4 DEF Decimal
<1>6. ASSUME NEW k \in Int, k <= a.e, k <= b.e
      PROVE  k <= e /\ At(Plus(a, b), k) = At(a, k) + At(b, k)
  <2>1. e - k \in Nat /\ e - (e - k) = k /\ k <= e
    BY <1>1, <1>6
  <2>2. PICK t \in Nat : t = TenTo[e - k]
    BY <2>1, TenToPositive
  <2>3. At(a, k) = At(a, e) * t /\ At(b, k) = At(b, e) * t
    <3>1. At(a, e - (e - k)) = At(a, e) * t
      BY <1>1, <2>1, <2>2, AtSmaller
    <3>2. At(b, e - (e - k)) = At(b, e) * t
      BY <1>1, <2>1, <2>2, AtSmaller
    <3> QED BY <2>1, <3>1, <3>2
  <2>4. At(Plus(a, b), k) = x * t
    BY <1>5, <2>2 DEF At
  <2>5. x * t = At(a, e) * t + At(b, e) * t
    BY <1>3
  <2> QED BY <2>1, <2>3, <2>4, <2>5
<1> QED BY <1>5, <1>6 DEF e

\* Multiplication multiplies the units.
LEMMA TimesAt ==
  ASSUME NEW a \in Decimal, NEW b \in Decimal
  PROVE  /\ Times(a, b) \in Decimal
         /\ Times(a, b).c = a.c * b.c
         /\ Times(a, b).e = a.e + b.e
         /\ \A k, l \in Int : k <= a.e /\ l <= b.e =>
              /\ k + l <= Times(a, b).e
              /\ At(Times(a, b), k + l) = At(a, k) * At(b, l)
<1>1. a.c \in Int /\ a.e \in Int /\ b.c \in Int /\ b.e \in Int
  BY DEF Decimal
<1>2. PICK x \in Int : x = a.c * b.c
  BY <1>1
<1>3. Times(a, b) = [c |-> x, e |-> a.e + b.e]
  BY <1>2 DEF Times
<1>4. Times(a, b) \in Decimal /\ Times(a, b).c = x /\ Times(a, b).e = a.e + b.e
  BY <1>1, <1>3 DEF Decimal
<1>5. ASSUME NEW k \in Int, NEW l \in Int, k <= a.e, l <= b.e
      PROVE  /\ k + l <= Times(a, b).e
             /\ At(Times(a, b), k + l) = At(a, k) * At(b, l)
  <2>1. a.e - k \in Nat /\ b.e - l \in Nat
        /\ a.e + b.e - (k + l) = (a.e - k) + (b.e - l)
    BY <1>1, <1>5
  <2>2. PICK t \in Nat : t = TenTo[a.e - k]
    BY <2>1, TenToPositive
  <2>3. PICK u \in Nat : u = TenTo[b.e - l]
    BY <2>1, TenToPositive
  <2>4. At(Times(a, b), k + l) = x * (t * u)
    <3>1. TenTo[(a.e - k) + (b.e - l)] = t * u
      BY <2>1, <2>2, <2>3, TenToSum
    <3>2. Times(a, b).e - (k + l) = (a.e - k) + (b.e - l)
      BY <1>1, <1>4, <2>1
    <3> QED BY <1>4, <3>1, <3>2, Zenon DEF At
  <2>5. x * (t * u) = (a.c * t) * (b.c * u)
    BY <1>1, <1>2
  <2>6. k + l <= Times(a, b).e
    BY <1>1, <1>4, <1>5
  <2> QED BY <2>2, <2>3, <2>4, <2>5, <2>6 DEF At
<1> QED BY <1>2, <1>4, <1>5

\* A sum that is exact stays exact when a converted number is added to it: every
\* number adds the offset of its unit.
LEMMA SumStaysExact ==
  ASSUME NEW sum \in Decimal, NEW quantity0 \in Decimal, NEW n \in Nat,
         NEW t \in [scale : Decimal, offset : Decimal],
         NEW input \in Decimal, NEW value \in Decimal, NEW added \in Decimal,
         Equals(sum, Plus(Times(quantity0, t.scale),
                          Times([c |-> n, e |-> 0], t.offset))),
         Equals(value, input),
         Equals(added, Converted(t, value))
  PROVE  Equals(Plus(sum, added),
                Plus(Times(Plus(quantity0, input), t.scale),
                     Times([c |-> n + 1, e |-> 0], t.offset)))
<1> DEFINE N(i) == [c |-> i, e |-> 0]
           s == t.scale
           o == t.offset
<1>1. s \in Decimal /\ o \in Decimal /\ s.e \in Int
  BY DEF Decimal
<1>2. ASSUME NEW i \in Nat
      PROVE  N(i) \in Decimal /\ N(i).e = 0 /\ At(N(i), 0) = i
  <2>1. N(i) \in Decimal /\ N(i).e = 0 /\ N(i).c = i
    BY DEF Decimal
  <2>2. N(i).e - 0 = 0 /\ i * 1 = i
    BY <2>1
  <2> QED BY <2>1, <2>2, TenToSteps, Zenon DEF At
<1>3. PICK k \in Int : /\ k <= quantity0.e /\ k <= input.e /\ k <= value.e
                       /\ k + s.e <= o.e /\ k + s.e <= sum.e
                       /\ k + s.e <= added.e
  <2>1. PICK k1 \in Int : k1 <= quantity0.e /\ k1 <= input.e /\ k1 <= value.e
    BY UnitBelow
  <2>2. PICK k2 \in Int : k2 <= o.e /\ k2 <= sum.e /\ k2 <= added.e
    BY <1>1, UnitBelow
  <2>3. quantity0.e \in Int /\ input.e \in Int /\ value.e \in Int
        /\ o.e \in Int /\ sum.e \in Int /\ added.e \in Int
    BY <1>1 DEF Decimal
  <2>4. CASE k1 <= k2 - s.e
    BY <1>1, <2>1, <2>2, <2>3, <2>4
  <2>5. CASE ~(k1 <= k2 - s.e)
    BY <1>1, <2>1, <2>2, <2>3, <2>5
  <2> QED BY <2>4, <2>5
<1> DEFINE l == k + s.e
<1>4. l \in Int /\ 0 + l = l /\ s.e <= s.e
  BY <1>1
<1> HIDE DEF N, s, o, l
<1>5. ASSUME NEW q \in Decimal, k <= q.e, NEW i \in Nat
      PROVE  /\ Plus(Times(q, s), Times(N(i), o)) \in Decimal
             /\ l <= Plus(Times(q, s), Times(N(i), o)).e
             /\ At(Plus(Times(q, s), Times(N(i), o)), l)
                  = At(q, k) * At(s, s.e) + i * At(o, l)
  <2>1. /\ Times(q, s) \in Decimal /\ l <= Times(q, s).e
        /\ At(Times(q, s), l) = At(q, k) * At(s, s.e)
    BY <1>1, <1>4, <1>5, TimesAt DEF l
  <2>2. /\ Times(N(i), o) \in Decimal /\ l <= Times(N(i), o).e
        /\ At(Times(N(i), o), l) = i * At(o, l)
    <3>1. 0 <= N(i).e /\ l <= o.e
      BY <1>2, <1>3 DEF l
    <3>2. /\ Times(N(i), o) \in Decimal
          /\ \A j, m \in Int : j <= N(i).e /\ m <= o.e =>
               /\ j + m <= Times(N(i), o).e
               /\ At(Times(N(i), o), j + m) = At(N(i), j) * At(o, m)
      BY <1>1, <1>2, TimesAt
    <3>3. 0 \in Int
      OBVIOUS
    <3>4. /\ 0 + l <= Times(N(i), o).e
          /\ At(Times(N(i), o), 0 + l) = At(N(i), 0) * At(o, l)
      BY <1>4, <3>1, <3>2, <3>3, Zenon
    <3> QED BY <1>2, <1>4, <3>2, <3>4, Zenon
  <2> QED BY <1>4, <2>1, <2>2, PlusAt
<1>6. /\ Converted(t, value) \in Decimal /\ l <= Converted(t, value).e
      /\ At(Converted(t, value), l) = At(value, k) * At(s, s.e) + At(o, l)
  <2>1. Converted(t, value) = Plus(Times(value, s), o)
    BY DEF Converted, s, o
  <2>2. /\ Times(value, s) \in Decimal /\ l <= Times(value, s).e
        /\ At(Times(value, s), l) = At(value, k) * At(s, s.e)
    BY <1>1, <1>3, <1>4, TimesAt DEF l
  <2> QED BY <1>1, <1>3, <1>4, <2>1, <2>2, PlusAt DEF l
<1>7. At(value, k) = At(input, k)
  BY <1>3, EqualsAt
<1>8. At(sum, l) = At(quantity0, k) * At(s, s.e) + n * At(o, l)
  <2>1. Equals(sum, Plus(Times(quantity0, s), Times(N(n), o)))
    BY DEF N, s, o
  <2> QED BY <1>3, <1>4, <1>5, <2>1, EqualsAt DEF l
<1>9. At(added, l) = At(input, k) * At(s, s.e) + At(o, l)
  BY <1>3, <1>4, <1>6, <1>7, EqualsAt DEF l
<1>10. /\ Plus(quantity0, input) \in Decimal /\ k <= Plus(quantity0, input).e
       /\ At(Plus(quantity0, input), k) = At(quantity0, k) + At(input, k)
  BY <1>3, PlusAt
<1>11. /\ Plus(sum, added) \in Decimal /\ l <= Plus(sum, added).e
       /\ At(Plus(sum, added), l) = At(sum, l) + At(added, l)
  BY <1>3, <1>4, PlusAt DEF l
<1> DEFINE r == Plus(Times(Plus(quantity0, input), s), Times(N(n + 1), o))
<1>12. /\ r \in Decimal /\ l <= r.e
       /\ At(r, l) = (At(quantity0, k) + At(input, k)) * At(s, s.e)
                       + (n + 1) * At(o, l)
  BY <1>5, <1>10
<1> HIDE DEF r
<1>13. At(r, l) = At(Plus(sum, added), l)
  <2>1. PICK a \in Int : a = At(quantity0, k)
    BY <1>3, AtType
  <2>2. PICK b \in Int : b = At(input, k)
    BY <1>3, AtType
  <2>3. PICK c \in Int : c = At(s, s.e)
    BY <1>1, <1>4, AtType
  <2>4. PICK d \in Int : d = At(o, l)
    BY <1>1, <1>3, <1>4, AtType DEF l
  <2>5. (a + b) * c + (n + 1) * d = (a * c + n * d) + (b * c + d)
    OBVIOUS
  <2> QED BY <1>8, <1>9, <1>11, <1>12, <2>1, <2>2, <2>3, <2>4, <2>5
<1>14. Equals(Plus(sum, added), r)
  BY <1>4, <1>11, <1>12, <1>13, EqualsAt
<1> QED BY <1>14 DEF r, N, s, o

-----------------------------------------------------------------------------
(* Metering *)

\* A product has no more digits than its factors together.
LEMMA DigitsOfProduct ==
  ASSUME NEW a \in Int, NEW b \in Int
  PROVE  Digits(a * b) <= Digits(a) + Digits(b)
<1>1. PICK m \in Nat \ {0} : m = Digits(a) /\ Abs(a) < TenTo[m]
  BY DigitsBound
<1>2. PICK n \in Nat \ {0} : n = Digits(b) /\ Abs(b) < TenTo[n]
  BY DigitsBound
<1>3. PICK x \in Nat : x = Abs(a)
  BY AbsType
<1>4. PICK y \in Nat : y = Abs(b)
  BY AbsType
<1>5. PICK t \in Nat : t = TenTo[m]
  BY TenToPositive
<1>6. PICK u \in Nat : u = TenTo[n]
  BY TenToPositive
<1>7. PICK d \in Int : d = a * b
  OBVIOUS
<1>8. Abs(d) = x * y
  <2>1. CASE b >= 0
    <3>1. Abs(a * b) = Abs(a) * b
      BY <2>1, AbsProduct
    <3>2. y = b
      BY <1>4, <2>1 DEF Abs
    <3> QED BY <1>3, <1>7, <3>1, <3>2
  <2>2. CASE b < 0
    <3>1. -b \in Nat /\ y = -b
      BY <1>4, <2>2 DEF Abs
    <3>2. Abs(a * (-b)) = Abs(a) * (-b)
      BY <3>1, AbsProduct
    <3>3. a * (-b) = -d
      BY <1>7
    <3>4. Abs(-d) = Abs(d)
      BY DEF Abs
    <3> QED BY <1>3, <3>1, <3>2, <3>3, <3>4
  <2> QED BY <2>1, <2>2
<1>9. x * y < t * u
  <2>1. x < t /\ y < u
    BY <1>1, <1>2, <1>3, <1>4, <1>5, <1>6
  <2>2. x * y <= x * u
    BY <2>1
  <2>3. x * u < t * u
    BY <2>1
  <2> QED BY <2>2, <2>3
<1>10. TenTo[m + n] = t * u
  BY <1>5, <1>6, TenToSum
<1>11. Digits(d) <= m + n
  BY <1>8, <1>9, <1>10, DigitsAtMost
<1> QED BY <1>1, <1>2, <1>7, <1>11

\* A sum has at most one digit more than the bound of its parts.
LEMMA DigitsOfSum ==
  ASSUME NEW a \in Int, NEW b \in Int, NEW n \in Nat,
         Abs(a) < TenTo[n], Abs(b) < TenTo[n]
  PROVE  Digits(a + b) <= n + 1
<1>1. TenTo[n] \in Nat /\ TenTo[n + 1] = 10 * TenTo[n]
  BY TenToSteps, TenToPositive
<1>2. Abs(a + b) <= Abs(a) + Abs(b)
  BY DEF Abs
<1>3. Abs(a) \in Nat /\ Abs(b) \in Nat /\ Abs(a + b) \in Nat
  BY AbsType
<1>4. Abs(a + b) < TenTo[n + 1]
  BY <1>1, <1>2, <1>3
<1> QED BY <1>4, DigitsAtMost

\* A coefficient with zeros behind it is below the power of all its digits.
LEMMA PaddedBelow ==
  ASSUME NEW c \in Int, NEW k \in Nat, NEW n \in Nat, Digits(c) + k <= n
  PROVE  Abs(c * TenTo[k]) < TenTo[n]
<1>1. PICK m \in Nat \ {0} : m = Digits(c) /\ Abs(c) < TenTo[m]
  BY DigitsBound
<1>2. PICK t \in Nat \ {0} : t = TenTo[k]
  BY TenToPositive
<1>3. PICK x \in Nat : x = Abs(c)
  BY AbsType
<1>4. PICK u \in Nat : u = TenTo[m]
  BY TenToPositive
<1>5. Abs(c * t) = x * t
  BY <1>3, AbsProduct
<1>6. x * t < u * t
  BY <1>1, <1>3, <1>4
<1>7. TenTo[m + k] = u * t
  BY <1>2, <1>4, TenToSum
<1>8. TenTo[m + k] <= TenTo[n] /\ TenTo[m + k] \in Nat /\ TenTo[n] \in Nat
  BY <1>1, TenToGrows, TenToPositive
<1> QED BY <1>2, <1>5, <1>6, <1>7, <1>8

\* The precision of a conversion is enough for the product and for the sum.
LEMMA ConversionFits ==
  ASSUME NEW t \in [scale : Decimal, offset : Decimal], NEW value \in Decimal
  PROVE  /\ Digits(Times(value, t.scale).c) <= ConversionPrecision(t, value)
         /\ Digits(Converted(t, value).c) <= ConversionPrecision(t, value)
<1> DEFINE s == t.scale
           o == t.offset
           p == Times(value, s)
           precision == ConversionPrecision(t, value)
<1>1. /\ s \in Decimal /\ s.c \in Int /\ s.e \in Int
      /\ o \in Decimal /\ o.c \in Int /\ o.e \in Int
      /\ value.c \in Int /\ value.e \in Int
  BY DEF Decimal
<1>2. PICK dv \in Nat \ {0} : dv = Digits(value.c)
  BY <1>1, DigitsBound
<1>3. PICK ds \in Nat \ {0} : ds = Digits(s.c)
  BY <1>1, DigitsBound
<1>4. PICK dz \in Nat \ {0} : dz = Digits(o.c)
  BY <1>1, DigitsBound
<1>5. /\ p \in Decimal /\ p.c \in Int /\ p.e = value.e + s.e
      /\ p.c = value.c * s.c
  BY <1>1, TimesAt DEF Decimal
<1>6. PICK dp \in Nat \ {0} : dp = Digits(p.c) /\ dp <= dv + ds
  <2>1. Digits(p.c) <= dv + ds
    BY <1>1, <1>2, <1>3, <1>5, DigitsOfProduct
  <2> QED BY <1>5, <2>1, DigitsBound
<1>7. /\ Adjusted(value) = value.e + dv - 1
      /\ Adjusted(s) = s.e + ds - 1
      /\ Adjusted(o) = o.e + dz - 1
  BY <1>2, <1>3, <1>4 DEF Adjusted
<1>8. PICK xv \in Nat : /\ xv = Abs(Adjusted(value))
                        /\ value.e + dv - 1 <= xv /\ -(value.e + dv - 1) <= xv
  BY <1>1, <1>7 DEF Abs
<1>9. PICK xs \in Nat : /\ xs = Abs(Adjusted(s))
                        /\ s.e + ds - 1 <= xs /\ -(s.e + ds - 1) <= xs
  BY <1>1, <1>7 DEF Abs
<1>10. PICK xo \in Nat : /\ xo = Abs(Adjusted(o))
                         /\ o.e + dz - 1 <= xo /\ -(o.e + dz - 1) <= xo
  BY <1>1, <1>7 DEF Abs
<1>11. precision \in Nat /\ dv + ds + dz + xv + xs + xo <= precision
  <2> DEFINE needed == dv + ds + dz + xv + xs + xo + Slack
  <2>1. precision = Larger(MinPrecision, needed)
    BY <1>2, <1>3, <1>4, <1>8, <1>9, <1>10, Zenon DEF ConversionPrecision
  <2>2. MinPrecision \in Nat /\ Slack \in Nat
    BY MeteringAssumption
  <2>3. needed \in Nat /\ dv + ds + dz + xv + xs + xo <= needed
    BY <1>2, <1>3, <1>4, <1>8, <1>9, <1>10, <2>2
  <2> HIDE DEF needed, precision
  <2>4. precision \in Nat /\ needed <= precision
    BY <2>1, <2>2, <2>3 DEF Larger
  <2> QED BY <1>2, <1>3, <1>4, <1>8, <1>9, <1>10, <2>3, <2>4
<1> DEFINE e == Smaller(p.e, o.e)
<1>12. e \in Int /\ p.e - e \in Nat /\ o.e - e \in Nat /\ (e = p.e \/ e = o.e)
  BY <1>1, <1>5 DEF Smaller
<1>13. Converted(t, value).c = p.c * TenTo[p.e - e] + o.c * TenTo[o.e - e]
  BY DEF Converted, Plus
<1> HIDE DEF s, o, p, precision, e
<1>14. /\ dp + (p.e - e) <= precision - 1 /\ dz + (o.e - e) <= precision - 1
       /\ precision - 1 \in Nat
  <2>1. CASE e = p.e
    BY <1>1, <1>5, <1>6, <1>8, <1>9, <1>10, <1>11, <2>1
  <2>2. CASE e = o.e
    BY <1>1, <1>5, <1>6, <1>8, <1>9, <1>10, <1>11, <2>2
  <2> QED BY <1>12, <2>1, <2>2
<1>15. PICK x \in Int :
         x = p.c * TenTo[p.e - e] /\ Abs(x) < TenTo[precision - 1]
  <2>1. PICK u \in Nat : u = TenTo[p.e - e]
    BY <1>12, TenToPositive
  <2>2. p.c * u \in Int
    BY <1>5
  <2>3. Abs(p.c * TenTo[p.e - e]) < TenTo[precision - 1]
    BY <1>5, <1>6, <1>12, <1>14, PaddedBelow
  <2> QED BY <2>1, <2>2, <2>3, Zenon
<1>16. PICK y \in Int :
         y = o.c * TenTo[o.e - e] /\ Abs(y) < TenTo[precision - 1]
  <2>1. PICK u \in Nat : u = TenTo[o.e - e]
    BY <1>12, TenToPositive
  <2>2. o.c * u \in Int
    BY <1>1
  <2>3. Abs(o.c * TenTo[o.e - e]) < TenTo[precision - 1]
    BY <1>1, <1>4, <1>12, <1>14, PaddedBelow
  <2> QED BY <2>1, <2>2, <2>3, Zenon
<1>17. Digits(x + y) <= (precision - 1) + 1
  BY <1>14, <1>15, <1>16, DigitsOfSum
<1>18. Digits(Converted(t, value).c) <= precision
  <2>1. (precision - 1) + 1 = precision
    BY <1>11
  <2> QED BY <1>13, <1>15, <1>16, <1>17, <2>1, Zenon
<1>19. Digits(p.c) <= precision
  <2>1. dp <= precision
    BY <1>2, <1>3, <1>4, <1>6, <1>8, <1>9, <1>10, <1>11
  <2> QED BY <1>6, <2>1, Zenon
<1> QED BY <1>18, <1>19 DEF p, s, precision

\* What the assumptions say of meters and columns (MeterV1.__post_init__).
LEMMA ConstantTypes ==
  /\ MaxDigits \in Nat \ {0} /\ StoreInteger \in Nat /\ StoreScale \in Nat
  /\ MaxRecords \in Nat /\ SumPrecision \in Nat
  /\ \A m \in Meters :
       /\ m.precision \in Nat \ {0} /\ m.scale \in Nat
       /\ m.scale <= m.precision /\ m.scale <= StoreScale
       /\ m.precision - m.scale <= StoreInteger
<1>1. /\ MaxDigits \in Nat \ {0} /\ StoreInteger \in Nat /\ StoreScale \in Nat
      /\ MaxRecords \in Nat /\ SumPrecision \in Nat
  BY DecimalsAssumption, MeteringAssumption
<1>2. ASSUME NEW m \in Meters
      PROVE  /\ m.precision \in Nat \ {0} /\ m.scale \in Nat
             /\ m.scale <= m.precision /\ m.scale <= StoreScale
             /\ m.precision - m.scale <= StoreInteger
  <2>1. m.precision \in Nat \ {0} /\ m.scale \in Nat /\ LegalMeter(m)
    BY MeteringAssumption
  <2> QED BY <1>1, <2>1 DEF LegalMeter, Smaller
<1> QED BY <1>1, <1>2

\* Equal numbers have the same digits before the point.
LEMMA EqualsIntegerDigits ==
  ASSUME NEW a \in Decimal, NEW b \in Decimal, Equals(a, b)
  PROVE  IntegerDigits(a) = IntegerDigits(b)
BY EqualsMeans DEF IntegerDigits

\* How many digits before the point a coefficient has at a scale.
LEMMA IntegerDigitsAre ==
  ASSUME NEW d \in Decimal
  PROVE  /\ IntegerDigits(d) \in Nat \ {0}
         /\ Digits(d.c) + d.e <= IntegerDigits(d) \/ d.c = 0
         /\ IntegerDigits(d) = 1 \/ IntegerDigits(d) = Digits(d.c) + d.e
<1>1. PICK n \in Nat \ {0} : n = Digits(d.c)
  BY DigitsBound DEF Decimal
<1>2. PICK a \in Int : a = Adjusted(d) /\ a = d.e + n - 1
  BY <1>1 DEF Adjusted, Decimal
<1>3. d.e \in Int
  BY DEF Decimal
<1>4. CASE d.c = 0
  <2>1. IntegerDigits(d) = 1
    BY <1>4 DEF IntegerDigits
  <2> QED BY <1>4, <2>1
<1>5. CASE d.c # 0
  <2>1. IntegerDigits(d) = IF 1 > a + 1 THEN 1 ELSE a + 1
    BY <1>2, <1>5 DEF IntegerDigits, Larger
  <2> QED BY <1>1, <1>2, <1>3, <2>1
<1> QED BY <1>4, <1>5

\* The quantized number is the number.
LEMMA QuantizedEquals ==
  ASSUME NEW m \in Meters, NEW d \in Decimal, Integral(d, m.scale)
  PROVE  /\ Quantized(m, d) \in Decimal
         /\ Equals(Quantized(m, d), d)
         /\ Quantized(m, d).c = AtScale(d, m.scale)
         /\ Quantized(m, d).e = -m.scale \/ Quantized(m, d) = Zero
<1>1. PICK s \in Nat : s = m.scale
  BY ConstantTypes
<1>2. PICK c \in Int : c = AtScale(d, s) /\ Equals([c |-> c, e |-> -s], d)
  <2>1. s \in Int /\ Integral(d, s)
    BY <1>1
  <2>2. AtScale(d, s) \in Int /\ Equals([c |-> AtScale(d, s), e |-> -s], d)
    BY <2>1, IntegralExact
  <2> QED BY <2>2, Zenon
<1> DEFINE a == [c |-> c, e |-> -s]
<1>3. a \in Decimal /\ a.c = c /\ a.e = -s /\ Equals(a, d)
  BY <1>1, <1>2 DEF Decimal
<1>4. Quantized(m, d) = Canonical(a)
  BY <1>1, <1>2 DEF Quantized
<1> HIDE DEF a
<1>5. /\ Canonical(a) \in Decimal /\ Equals(Canonical(a), a)
      /\ Canonical(a).c = c
      /\ Canonical(a) = a \/ Canonical(a) = Zero
  BY <1>3, CanonicalEquals
<1>6. Equals(Canonical(a), d)
  BY <1>3, <1>5, EqualsTransitive
<1> QED BY <1>1, <1>2, <1>3, <1>4, <1>5, <1>6

\* In the canonical unit, and quantized again, it is the same decimal.
LEMMA QuantizedStays ==
  ASSUME NEW m \in Meters, NEW d \in Decimal, Integral(d, m.scale),
         NEW q \in Decimal, q = Quantized(m, d)
  PROVE  /\ Converted(Identity, q) = q
         /\ Integral(q, m.scale)
         /\ Quantized(m, q) = q
<1>1. PICK s \in Nat : s = m.scale
  BY ConstantTypes
<1>2. /\ Equals(q, d) /\ q.c = AtScale(d, s)
      /\ q.e = -s \/ q = Zero
  BY <1>1, QuantizedEquals
<1>3. Equals(d, q)
  BY <1>2, EqualsSymmetric
<1>4. Integral(q, s) /\ AtScale(q, s) = AtScale(d, s)
  BY <1>1, <1>3, EqualsAtScale
<1>5. Quantized(m, q) = q
  BY <1>1, <1>4 DEF Quantized
<1>6. q.c \in Int /\ q.e \in Int /\ q.e <= 0 /\ q = [c |-> q.c, e |-> q.e]
  BY <1>1, <1>2 DEF Decimal, Zero
<1> DEFINE p == Times(q, Identity.scale)
<1>7. p = q
  BY <1>6 DEF Times, Identity
<1>8. Converted(Identity, q) = Plus(q, Zero)
  BY <1>7 DEF Converted, Identity
<1>9. Plus(q, Zero) = q
  <2>1. Smaller(q.e, 0) = q.e
    BY <1>6 DEF Smaller
  <2>2. q.e - q.e = 0 /\ 0 - q.e \in Nat
    BY <1>6
  <2>3. TenTo[0 - q.e] \in Nat /\ TenTo[q.e - q.e] = 1
    BY <2>2, TenToPositive, TenToSteps
  <2>4. q.c * TenTo[q.e - q.e] + 0 * TenTo[0 - q.e] = q.c
    BY <1>6, <2>3
  <2>5. Plus(q, Zero) = [c |-> q.c * TenTo[q.e - q.e] + 0 * TenTo[0 - q.e],
                         e |-> q.e]
    BY <2>1, Zenon DEF Plus, Zero
  <2> QED BY <1>6, <2>4, <2>5
<1> QED BY <1>1, <1>4, <1>5, <1>8, <1>9

\* What is kept of the event that was sent last.
KeptInv ==
  last.outcome = "kept" =>
    /\ Outcome(meter, Sent(last.input), count > 1) = "kept"
    /\ last.event = Normalized(meter, Sent(last.input))

RefusedInv ==
  last.outcome = "overflow" =>
    /\ last.event = Sent(last.input)
    /\ \/ ~Storable(last.event.original)
       \/ ~Fits(meter, Converted(unit, Canonical(last.input)))

\* The total has the scale of the meter and no more than its numbers give.
TotalInv ==
  /\ total.e = -meter.scale \/ total = Zero
  /\ Abs(total.c) <= count * (TenTo[meter.precision] - 1)

MeteringInv ==
  MeteringTypeOK /\ KeptInv /\ RefusedInv /\ TotalInv /\ TotalIsExact

\* A number that fits the meter has the digits of the meter.
LEMMA FittingBelow ==
  ASSUME NEW m \in Meters, NEW d \in Decimal, Fits(m, d)
  PROVE  /\ Integral(d, m.scale)
         /\ Quantized(m, d) \in Decimal
         /\ Abs(Quantized(m, d).c) <= TenTo[m.precision] - 1
<1>1. PICK q \in Decimal : /\ q = Quantized(m, d) /\ Equals(q, d)
                           /\ q.e = -m.scale \/ q = Zero
  BY QuantizedEquals DEF Fits
<1>2. PICK s \in Nat : s = m.scale
  BY ConstantTypes
<1>3. PICK p \in Nat \ {0} : p = m.precision
  BY ConstantTypes
<1>4. PICK i \in Nat \ {0} : i = IntegerDigits(q)
  BY IntegerDigitsAre
<1>5. i + s <= p
  BY <1>1, <1>2, <1>3, <1>4, EqualsIntegerDigits DEF Fits
<1>6. PICK n \in Nat \ {0} : n = Digits(q.c)
  BY DigitsBound DEF Decimal
<1>7. n <= p
  <2>1. CASE q.c = 0
    <3>1. Abs(q.c) = 0
      BY <2>1 DEF Abs
    <3>2. Digits(q.c) <= 1
      BY <2>1, <3>1, TenToPositive, DigitsAtMost
    <3> QED BY <1>3, <1>6, <3>2
  <2>2. CASE q.c # 0
    <3>1. q.e = -s
      BY <1>1, <1>2, <2>2 DEF Zero
    <3>2. n + q.e <= i
      BY <1>4, <1>6, <2>2, IntegerDigitsAre
    <3> QED BY <1>2, <1>3, <1>4, <1>5, <1>6, <3>1, <3>2
  <2> QED BY <2>1, <2>2
<1>8. q.c \in Int
  BY DEF Decimal
<1>9. Abs(q.c) < TenTo[p]
  BY <1>6, <1>7, <1>8, DigitsAtMost
<1>10. Abs(q.c) \in Nat /\ TenTo[p] \in Nat
  BY <1>8, AbsType, TenToPositive
<1>11. Abs(q.c) <= TenTo[p] - 1
  BY <1>9, <1>10
<1> QED BY <1>1, <1>3, <1>11 DEF Fits

\* A conversion gives a decimal.
LEMMA ConvertedType ==
  ASSUME NEW t \in [scale : Decimal, offset : Decimal], NEW d \in Decimal
  PROVE  Converted(t, d) \in Decimal
BY TimesAt, PlusAt DEF Converted

\* A kept number counts for what was sent, converted.
LEMMA KeptCounts ==
  ASSUME MeteringTypeOK, NEW input \in Inputs, NEW b \in BOOLEAN,
         Outcome(meter, Sent(input), b) = "kept"
  PROVE  LET value == Canonical(input)
             kept == Normalized(meter, Sent(input))
         IN /\ Fits(meter, Converted(unit, value))
            /\ kept \in Event
            /\ kept.value = Quantized(meter, Converted(unit, value))
            /\ kept.value \in Decimal
            /\ Equals(kept.value, Converted(unit, value))
            /\ kept.value.e = -meter.scale \/ kept.value = Zero
            /\ Abs(kept.value.c) <= TenTo[meter.precision] - 1
<1> DEFINE value == Canonical(input)
           x == Converted(unit, value)
           kept == Normalized(meter, Sent(input))
<1>1. input \in Decimal /\ meter \in Meters /\ unit \in Transforms
      /\ unit \in [scale : Decimal, offset : Decimal]
  BY MeteringAssumption DEF MeteringTypeOK
<1>2. value \in Decimal /\ x \in Decimal
  BY <1>1, CanonicalEquals, ConvertedType
<1>3. /\ Sent(input) = [value |-> value, unit |-> unit, original |-> value]
      /\ Sent(input).value = value /\ Sent(input).unit = unit
      /\ Sent(input).original = value
  BY DEF Sent
<1> HIDE DEF value
<1>4. Fits(meter, x)
  BY <1>3 DEF Outcome
<1>5. kept = [value |-> Quantized(meter, x), unit |-> Identity,
              original |-> value]
  <2> HIDE DEF x
  <2>1. kept = [Sent(input) EXCEPT !.value = Quantized(meter, x),
                                   !.unit = Identity]
    BY <1>3, Zenon DEF Normalized, x
  <2> QED BY <1>3, <2>1
<1> HIDE DEF x, kept
<1>6. /\ Quantized(meter, x) \in Decimal
      /\ Equals(Quantized(meter, x), x)
      /\ Quantized(meter, x).e = -meter.scale \/ Quantized(meter, x) = Zero
      /\ Abs(Quantized(meter, x).c) <= TenTo[meter.precision] - 1
  BY <1>1, <1>2, <1>4, FittingBelow, QuantizedEquals
<1>7. kept \in Event /\ kept.value = Quantized(meter, x)
  BY <1>2, <1>5, <1>6 DEF Event
<1> QED BY <1>4, <1>6, <1>7 DEF value, x, kept

-----------------------------------------------------------------------------
\* A history begins with nothing, which counts for nothing.
LEMMA MeteringInitKeeps == MeteringInit => MeteringInv
<1> SUFFICES ASSUME MeteringInit PROVE MeteringInv
  OBVIOUS
<1>1. /\ meter \in Meters /\ unit \in Transforms /\ count = 0
      /\ quantity = Zero /\ total = Zero /\ last = Nothing
      /\ unit.scale \in Decimal /\ unit.offset \in Decimal
  BY MeteringAssumption DEF MeteringInit
<1>2. Zero \in Decimal /\ Zero.c = 0 /\ Zero.e = 0
  BY DEF Zero, Decimal
<1>3. MeteringTypeOK
  <2>1. last.outcome = "none"
    BY <1>1 DEF Nothing
  <2> QED BY <1>1, <1>2, <2>1, ConstantTypes DEF MeteringTypeOK
<1>4. KeptInv /\ RefusedInv
  BY <1>1 DEF KeptInv, RefusedInv, Nothing
<1>5. TotalInv
  <2>1. TenTo[meter.precision] \in Nat
    BY <1>1, ConstantTypes, TenToPositive
  <2>2. Abs(total.c) = 0
    BY <1>1, <1>2 DEF Abs
  <2> QED BY <1>1, <2>1, <2>2 DEF TotalInv
<1>6. TotalIsExact
  <2> DEFINE p == Times(Zero, unit.scale)
             o == Times([c |-> 0, e |-> 0], unit.offset)
  <2>1. [c |-> 0, e |-> 0] \in Decimal
    BY DEF Decimal
  <2>2. p \in Decimal /\ p.c = 0 /\ o \in Decimal /\ o.c = 0
    BY <1>1, <1>2, <2>1, TimesAt DEF Decimal
  <2> HIDE DEF p, o
  <2>3. PICK k \in Int : k <= Zero.e /\ k <= p.e /\ k <= o.e
    BY <1>2, <2>2, UnitBelow
  <2>4. Zero.e - k \in Nat /\ p.e - k \in Nat /\ o.e - k \in Nat
    BY <1>2, <2>2, <2>3 DEF Decimal
  <2>5. At(Zero, k) = 0 /\ At(p, k) = 0 /\ At(o, k) = 0
    BY <1>2, <2>2, <2>4, TenToPositive DEF At
  <2>6. Plus(p, o) \in Decimal /\ k <= Plus(p, o).e /\ At(Plus(p, o), k) = 0
    BY <2>2, <2>3, <2>5, PlusAt
  <2>7. Equals(Zero, Plus(p, o))
    BY <1>2, <2>3, <2>5, <2>6, EqualsAt
  <2> QED BY <1>1, <2>7 DEF TotalIsExact, p, o
<1> QED BY <1>3, <1>4, <1>5, <1>6 DEF MeteringInv

\* What is sent is an event.
LEMMA SentType ==
  ASSUME MeteringTypeOK, NEW input \in Inputs
  PROVE  Sent(input) \in Event /\ Canonical(input) \in Decimal
<1>1. Canonical(input) \in Decimal
  BY MeteringAssumption, CanonicalEquals
<1> QED BY <1>1 DEF Sent, Event, MeteringTypeOK

\* normalized() keeps an event or raises one of its errors.
LEMMA OutcomeType ==
  ASSUME NEW m, NEW event, NEW b
  PROVE  Outcome(m, event, b) \in Outcomes
BY DEF Outcome, Outcomes

\* A refused event changes only what is said of the last one.
LEMMA RefusedSend ==
  ASSUME MeteringInv, NEW input \in Inputs,
         Outcome(meter, Sent(input), count > 0) # "kept",
         last' = [outcome |-> Outcome(meter, Sent(input), count > 0),
                  event |-> Sent(input), input |-> input],
         UNCHANGED <<count, quantity, total, meter, unit>>
  PROVE  MeteringInv'
<1> DEFINE outcome == Outcome(meter, Sent(input), count > 0)
<1>1. /\ Sent(input) \in Event /\ Canonical(input) \in Decimal
      /\ outcome \in Outcomes
  BY SentType, OutcomeType DEF MeteringInv
<1>2. /\ last'.outcome = outcome /\ last'.event = Sent(input)
      /\ last'.input = input
  OBVIOUS
<1>3. MeteringTypeOK'
  BY <1>1, <1>2 DEF MeteringTypeOK, MeteringInv
<1>4. KeptInv'
  BY <1>2 DEF KeptInv
<1>5. Sent(input).value = Canonical(input) /\ Sent(input).unit = unit
      /\ Sent(input)' = Sent(input)
  BY DEF Sent
<1>6. RefusedInv'
  <2> SUFFICES ASSUME outcome = "overflow"
               PROVE  \/ ~Storable(Sent(input).original)
                      \/ ~Fits(meter, Converted(unit, Canonical(input)))
    BY <1>2, <1>5 DEF RefusedInv
  <2> QED BY <1>5 DEF Outcome
<1>7. TotalInv' /\ TotalIsExact'
  BY DEF TotalInv, TotalIsExact, MeteringInv
<1> QED BY <1>3, <1>4, <1>6, <1>7 DEF MeteringInv

\* A kept event adds its normalized number.
LEMMA KeptSend ==
  ASSUME MeteringInv, NEW input \in Inputs, count < MaxRecords,
         Outcome(meter, Sent(input), count > 0) = "kept",
         count' = count + 1,
         quantity' = Plus(quantity, input),
         total' = Plus(total, Normalized(meter, Sent(input)).value),
         last' = [outcome |-> "kept", event |-> Normalized(meter, Sent(input)),
                  input |-> input],
         UNCHANGED <<meter, unit>>
  PROVE  MeteringInv'
<1>1. /\ MeteringTypeOK /\ TotalInv /\ TotalIsExact
      /\ meter \in Meters /\ unit \in Transforms
      /\ unit \in [scale : Decimal, offset : Decimal]
      /\ input \in Decimal /\ quantity \in Decimal /\ total \in Decimal
      /\ count \in Nat /\ count \in 0 .. MaxRecords /\ MaxRecords \in Nat
  BY MeteringAssumption, ConstantTypes DEF MeteringInv, MeteringTypeOK
<1> DEFINE kept == Normalized(meter, Sent(input))
           v == kept.value
<1>2. /\ kept \in Event /\ v \in Decimal
      /\ Equals(v, Converted(unit, Canonical(input)))
      /\ v.e = -meter.scale \/ v = Zero
      /\ Abs(v.c) <= TenTo[meter.precision] - 1
  <2>1. (count > 0) \in BOOLEAN
    OBVIOUS
  <2> QED BY <1>1, <2>1, KeptCounts
<1>3. last'.outcome = "kept" /\ last'.event = kept /\ last'.input = input
  OBVIOUS
<1>4. Sent(input)' = Sent(input)
  BY DEF Sent
<1>5. KeptInv' /\ RefusedInv'
  <2>1. (count' > 1) = (count > 0)
    BY <1>1
  <2>2. KeptInv'
    BY <1>3, <1>4, <2>1 DEF KeptInv
  <2> QED BY <1>3, <2>2 DEF RefusedInv
<1> HIDE DEF kept
<1>6. total' = Plus(total, v) /\ total' \in Decimal /\ quantity' \in Decimal
  BY <1>1, <1>2, PlusAt DEF kept
<1>7. MeteringTypeOK'
  <2>1. count' \in 0 .. MaxRecords
    BY <1>1
  <2>2. Zero.e = 0
    BY DEF Zero
  <2>3. last' \in [outcome : Outcomes, event : Event, input : Inputs]
    BY <1>2 DEF Outcomes, kept
  <2> QED BY <1>1, <1>2, <1>3, <1>6, <2>1, <2>2, <2>3 DEF MeteringTypeOK
<1>8. TotalInv'
  <2>1. PICK s \in Nat : s = meter.scale
    BY <1>1, ConstantTypes
  <2>2. PICK t \in Nat : t = TenTo[meter.precision] - 1
    <3>1. TenTo[meter.precision] \in Nat \ {0}
      BY <1>1, ConstantTypes, TenToPositive
    <3> QED BY <3>1
  <2>3. /\ total.c \in Int /\ total.e \in Int /\ v.c \in Int /\ v.e \in Int
        /\ Zero.c = 0 /\ Zero.e = 0 /\ Zero = [c |-> 0, e |-> 0]
    BY <1>1, <1>2 DEF Decimal, Zero
  <2>4. /\ total'.c = total.c + v.c
        /\ total'.e = -s \/ total' = Zero
    <3> DEFINE e == Smaller(total.e, v.e)
    <3>1. total' = [c |-> At(total, e) + At(v, e), e |-> e]
      BY <1>6 DEF Plus, At
    <3>2. /\ total.e = e \/ (total = Zero /\ e <= 0)
          /\ v.e = e \/ (v = Zero /\ e <= 0)
          /\ e = -s \/ (total = Zero /\ v = Zero /\ e = 0)
          /\ e \in Int
      BY <1>1, <1>2, <2>1, <2>3 DEF TotalInv, Smaller
    <3> HIDE DEF e
    <3>3. ASSUME NEW d \in Decimal, d.e = e \/ (d = Zero /\ e <= 0)
          PROVE  At(d, e) = d.c
      <4>1. CASE d.e = e
        <5>1. d.e - e = 0 /\ d.c \in Int
          BY <3>2, <4>1 DEF Decimal
        <5> QED BY <5>1, TenToSteps DEF At
      <4>2. CASE d = Zero /\ e <= 0
        <5>1. d.c = 0 /\ d.e - e \in Nat
          BY <2>3, <3>2, <4>2
        <5> QED BY <5>1, TenToPositive DEF At
      <4> QED BY <3>3, <4>1, <4>2
    <3>4. At(total, e) = total.c /\ At(v, e) = v.c
      BY <1>1, <1>2, <3>2, <3>3
    <3>5. total' = [c |-> total.c + v.c, e |-> e]
      BY <3>1, <3>4
    <3> QED BY <2>3, <3>2, <3>5
  <2>5. Abs(total.c) <= count * t /\ Abs(v.c) <= t
    BY <1>1, <1>2, <2>2 DEF TotalInv
  <2>6. Abs(total.c + v.c) <= Abs(total.c) + Abs(v.c)
    BY <2>3 DEF Abs
  <2>7. Abs(total.c) \in Nat /\ Abs(v.c) \in Nat /\ Abs(total.c + v.c) \in Nat
    BY <2>3, AbsType
  <2>8. (count + 1) * t = count * t + t /\ count * t \in Nat
    BY <1>1
  <2>9. Abs(total.c + v.c) <= (count + 1) * t
    BY <2>5, <2>6, <2>7, <2>8
  <2> QED BY <2>1, <2>2, <2>4, <2>9 DEF TotalInv
<1>9. TotalIsExact'
  <2>1. Equals(Plus(total, v),
               Plus(Times(Plus(quantity, input), unit.scale),
                    Times([c |-> count + 1, e |-> 0], unit.offset)))
    <3>1. Canonical(input) \in Decimal /\ Equals(Canonical(input), input)
      BY <1>1, CanonicalEquals
    <3> QED BY <1>1, <1>2, <3>1, SumStaysExact DEF TotalIsExact
  <2> QED BY <1>6, <2>1 DEF TotalIsExact
<1> QED BY <1>5, <1>7, <1>8, <1>9 DEF MeteringInv

\* Each event that is sent keeps MeteringInv, kept or refused.
LEMMA MeteringInvHolds == MeteringSpec => []MeteringInv
<1>1. MeteringInv /\ [MeteringNext]_meteringVars => MeteringInv'
  <2> SUFFICES ASSUME MeteringInv, [MeteringNext]_meteringVars
               PROVE  MeteringInv'
    OBVIOUS
  <2>1. ASSUME NEW input \in Inputs, Send(input)
        PROVE  MeteringInv'
    <3>1. CASE Outcome(meter, Sent(input), count > 0) = "kept"
      BY <2>1, <3>1, KeptSend DEF Send
    <3>2. CASE Outcome(meter, Sent(input), count > 0) # "kept"
      BY <2>1, <3>2, RefusedSend DEF Send
    <3> QED BY <3>1, <3>2
  <2>2. CASE UNCHANGED meteringVars
    <3>1. UNCHANGED <<meter, unit, count, quantity, total, last>>
      BY <2>2 DEF meteringVars
    <3>2. MeteringTypeOK'
      BY <3>1 DEF MeteringTypeOK, MeteringInv
    <3>3. \A i : Sent(i)' = Sent(i)
      BY <3>1 DEF Sent
    <3>4. KeptInv' /\ RefusedInv'
      BY <3>1, <3>3 DEF KeptInv, RefusedInv, MeteringInv, Sent
    <3>5. TotalInv' /\ TotalIsExact'
      BY <3>1 DEF TotalInv, TotalIsExact, MeteringInv
    <3> QED BY <3>2, <3>4, <3>5 DEF MeteringInv
  <2> QED BY <2>1, <2>2 DEF MeteringNext
<1> QED BY <1>1, MeteringInitKeeps, PTL DEF MeteringSpec

\* Types of a history of one meter; a kept number has the scale of its meter or
\* is the plain zero (MeterV1._fit).
THEOREM MeteringTypeCorrect == MeteringSpec => []MeteringTypeOK
BY MeteringInvHolds, PTL DEF MeteringInv

\* So many numbers of the meter fit the context of aggregate_events.
LEMMA SumFits == MeteringInv => Digits(total.c) <= SumPrecision
<1> SUFFICES ASSUME MeteringInv PROVE Digits(total.c) <= SumPrecision
  OBVIOUS
<1>1. /\ meter \in Meters /\ count \in Nat /\ count <= MaxRecords
      /\ MaxRecords \in Nat /\ SumPrecision \in Nat \ {0}
      /\ total \in Decimal /\ total.c \in Int /\ TotalInv
  BY ConstantTypes, SumAssumption DEF MeteringInv, MeteringTypeOK, Decimal
<1>2. PICK t \in Nat \ {0} : t = TenTo[meter.precision]
  BY <1>1, ConstantTypes, TenToPositive
<1>3. PICK u \in Nat \ {0} : u = TenTo[SumPrecision]
  BY <1>1, TenToPositive
<1>4. MaxRecords * t <= u
  BY <1>1, <1>2, <1>3, SumAssumption
<1>5. PICK x \in Nat : x = Abs(total.c) /\ x <= count * (t - 1)
  BY <1>1, <1>2, AbsType DEF TotalInv
<1>6. x < u
  <2>1. CASE count = 0
    BY <1>5, <2>1, <1>3
  <2>2. CASE count > 0
    <3>1. count * (t - 1) = count * t - count
      BY <1>1
    <3>2. count * t <= MaxRecords * t
      BY <1>1
    <3>3. count * t \in Nat /\ MaxRecords * t \in Nat
      BY <1>1
    <3> QED BY <1>1, <1>4, <1>5, <2>2, <3>1, <3>2, <3>3
  <2> QED BY <1>1, <2>1, <2>2
<1> QED BY <1>1, <1>3, <1>5, <1>6, DigitsAtMost

\* No digit is lost in UnitTransform.apply, MeterV1._fit and aggregate_events: the
\* total of an event and its corrections is what was sent of them in the canonical
\* unit, and neither a conversion nor the sum needs more digits than its context
\* has, for all meters, units and quantities.
THEOREM MeteringIsExact == MeteringSpec => []ArithmeticIsExact
<1>1. MeteringInv => ArithmeticIsExact
  <2> SUFFICES ASSUME MeteringInv PROVE ArithmeticIsExact
    OBVIOUS
  <2>1. ASSUME last # Nothing
        PROVE  LET value == Canonical(last.input)
                   precision == ConversionPrecision(unit, value)
               IN /\ Digits(Times(value, unit.scale).c) <= precision
                  /\ Digits(Converted(unit, value).c) <= precision
    <3>1. last.input \in Inputs
      BY <2>1 DEF MeteringInv, MeteringTypeOK
    <3>2. Canonical(last.input) \in Decimal
      BY <3>1, SentType DEF MeteringInv
    <3>3. unit \in [scale : Decimal, offset : Decimal]
      BY MeteringAssumption DEF MeteringInv, MeteringTypeOK
    <3> QED BY <3>2, <3>3, ConversionFits
  <2>2. NeverRounds
    BY <2>1, SumFits DEF NeverRounds
  <2> QED BY <2>2 DEF ArithmeticIsExact, MeteringInv
<1> QED BY <1>1, MeteringInvHolds, PTL

\* A number that the meter can represent fits it (MeterV1._fit), unless the meter
\* has no digit before the point.
LEMMA RepresentableFits ==
  ASSUME NEW m \in Meters, NEW d \in Decimal,
         Representable(m, d), ~OfFractions(m)
  PROVE  Fits(m, d)
<1>1. PICK q \in Decimal :
        /\ q = Quantized(m, d) /\ Equals(q, d) /\ q.c = AtScale(d, m.scale)
        /\ q.e = -m.scale \/ q = Zero
  BY QuantizedEquals DEF Representable
<1>2. PICK s \in Nat : s = m.scale
  BY ConstantTypes
<1>3. PICK p \in Nat \ {0} : p = m.precision /\ s + 1 <= p
  BY <1>2, ConstantTypes DEF OfFractions
<1>4. PICK n \in Nat \ {0} : n = Digits(q.c) /\ n <= p
  <2>1. q.c \in Int /\ Abs(q.c) < TenTo[p]
    BY <1>1, <1>3 DEF Decimal, Representable
  <2>2. Digits(q.c) <= p /\ Digits(q.c) \in Nat \ {0}
    BY <2>1, DigitsAtMost, DigitsBound
  <2> QED BY <2>2
<1>5. PICK i \in Nat \ {0} : i = IntegerDigits(q) /\ (i = 1 \/ i = n + q.e)
  BY <1>4, IntegerDigitsAre
<1>6. i + s <= p
  <2>1. CASE i = 1
    BY <1>2, <1>3, <2>1
  <2>2. CASE i # 1 /\ q.e = -s
    BY <1>2, <1>3, <1>4, <1>5, <2>2
  <2>3. CASE i # 1 /\ q = Zero
    <3>1. q.c = 0 /\ q.e = 0
      BY <2>3 DEF Zero
    <3>2. IntegerDigits(q) = 1
      BY <3>1 DEF IntegerDigits
    <3> QED BY <1>5, <2>3, <3>2
  <2> QED BY <1>1, <1>2, <2>1, <2>2, <2>3
<1>7. IntegerDigits(d) = i
  BY <1>1, <1>5, EqualsIntegerDigits
<1> QED BY <1>2, <1>3, <1>6, <1>7 DEF Fits, Representable

\* normalized() raises an overflow only for a number that the meter, or for an
\* original that the store, cannot represent; a meter with precision equal to
\* scale refuses everything.
THEOREM OverflowsAreReal == MeteringSpec => []OverflowIsReal
<1>1. MeteringInv => OverflowIsReal
  <2> SUFFICES ASSUME MeteringInv PROVE OverflowIsReal
    OBVIOUS
  <2>1. meter \in Meters /\ unit \in [scale : Decimal, offset : Decimal]
    BY MeteringAssumption DEF MeteringInv, MeteringTypeOK
  <2>2. ASSUME last.outcome \in Outcomes
        PROVE  /\ last.input \in Inputs
               /\ Converted(unit, Canonical(last.input)) \in Decimal
    <3>1. last.input \in Inputs
      BY <2>2 DEF MeteringInv, MeteringTypeOK, Nothing, Outcomes
    <3> QED BY <2>1, <3>1, SentType, ConvertedType DEF MeteringInv
  <2>3. ASSUME last.outcome = "overflow"
        PROVE  \/ ~Storable(last.event.original)
               \/ ~Representable(meter, Converted(unit, Canonical(last.input)))
               \/ OfFractions(meter)
    BY <2>1, <2>2, <2>3, RepresentableFits DEF Outcomes, RefusedInv, MeteringInv
  <2>4. ASSUME last.outcome = "kept"
        PROVE  ~OfFractions(meter)
    <3> DEFINE x == Converted(unit, Canonical(last.input))
    <3>1. last.input \in Inputs /\ x \in Decimal
      BY <2>2, <2>4 DEF Outcomes
    <3>2. Outcome(meter, Sent(last.input), count > 1) = "kept"
      BY <2>4 DEF KeptInv, MeteringInv
    <3>3. Fits(meter, x)
      <4>1. (count > 1) \in BOOLEAN
        OBVIOUS
      <4> QED BY <3>1, <3>2, <4>1, KeptCounts DEF MeteringInv
    <3> HIDE DEF x
    <3>4. PICK i \in Nat \ {0} : i = IntegerDigits(x)
      BY <3>1, IntegerDigitsAre
    <3>5. meter.precision \in Nat /\ meter.scale \in Nat
      BY <2>1, ConstantTypes
    <3>6. i + meter.scale <= meter.precision
      BY <3>3, <3>4 DEF Fits
    <3> QED BY <3>4, <3>5, <3>6 DEF OfFractions
  <2> QED BY <2>3, <2>4 DEF OverflowIsReal
<1> QED BY <1>1, MeteringInvHolds, PTL

\* normalized() of an event that it has returned gives the same event and raises
\* nothing, and what it keeps fits the columns of the store: record_batch may
\* normalize what it gives to record().
THEOREM EventsAreNormalizedOnce == MeteringSpec => []NormalizedOnce
<1>1. MeteringInv => NormalizedOnce
  <2> SUFFICES ASSUME MeteringInv, last.outcome = "kept"
               PROVE  /\ Normalized(meter, last.event) = last.event
                      /\ Outcome(meter, last.event, count > 1) = "kept"
                      /\ Storable(last.event.value)
                      /\ Storable(last.event.original)
    BY DEF NormalizedOnce
  <2> DEFINE input == last.input
             value == Canonical(input)
             x == Converted(unit, value)
             kept == Normalized(meter, Sent(input))
             q == Quantized(meter, x)
             b == count > 1
  <2>1. /\ MeteringTypeOK /\ meter \in Meters /\ input \in Inputs
        /\ unit \in [scale : Decimal, offset : Decimal]
    BY MeteringAssumption DEF MeteringInv, MeteringTypeOK, Nothing
  <2>2. /\ Outcome(meter, Sent(input), b) = "kept"
        /\ last.event = kept /\ b \in BOOLEAN
    BY DEF KeptInv, MeteringInv
  <2>3. /\ Sent(input).value = value /\ Sent(input).unit = unit
        /\ Sent(input).original = value
        /\ Sent(input) = [value |-> value, unit |-> unit, original |-> value]
    BY DEF Sent
  <2>4. value \in Decimal /\ x \in Decimal
    BY <2>1, SentType, ConvertedType
  <2> HIDE DEF input, value, b
  <2>5. /\ Storable(value) /\ Fits(meter, x)
        /\ q.c < 0 => b
    BY <2>2, <2>3 DEF Outcome
  <2>6. kept = [value |-> q, unit |-> Identity, original |-> value]
    <3> HIDE DEF x, q
    <3>1. kept = [Sent(input) EXCEPT !.value = q, !.unit = Identity]
      BY <2>3, Zenon DEF Normalized, x, q
    <3> QED BY <2>3, <3>1
  <2> HIDE DEF x, q, kept
  <2>7. q \in Decimal /\ Integral(x, meter.scale) /\ Equals(q, x)
        /\ (q.e = -meter.scale \/ q = Zero)
    BY <2>1, <2>4, <2>5, QuantizedEquals DEF Fits, q
  <2>8. /\ Converted(Identity, q) = q /\ Integral(q, meter.scale)
        /\ Quantized(meter, q) = q
    BY <2>1, <2>4, <2>7, QuantizedStays DEF q
  <2>9. IntegerDigits(q) = IntegerDigits(x)
    BY <2>4, <2>7, EqualsIntegerDigits
  <2>10. Fits(meter, q)
    BY <2>5, <2>8, <2>9 DEF Fits
  <2>11. kept.value = q /\ kept.unit = Identity /\ kept.original = value
    BY <2>6
  <2>12. Normalized(meter, kept) = kept
    <3>1. Normalized(meter, kept) = [kept EXCEPT !.value = q, !.unit = Identity]
      BY <2>8, <2>11, Zenon DEF Normalized
    <3> QED BY <2>6, <3>1
  <2>13. Outcome(meter, kept, b) = "kept"
    BY <2>5, <2>8, <2>10, <2>11 DEF Outcome
  <2>14. Storable(q)
    <3>1. PICK i \in Nat : i = IntegerDigits(q)
      BY <2>7, IntegerDigitsAre
    <3>2. /\ meter.precision \in Nat /\ meter.scale \in Nat
          /\ StoreInteger \in Nat /\ StoreScale \in Nat
          /\ meter.scale <= StoreScale
          /\ meter.precision - meter.scale <= StoreInteger
      BY <2>1, ConstantTypes
    <3>3. i <= StoreInteger
      BY <2>10, <3>1, <3>2 DEF Fits
    <3>4. Integral(q, StoreScale)
      BY <2>7, <2>8, <3>2, IntegralLarger
    <3> QED BY <3>1, <3>3, <3>4 DEF Storable
  <2> QED BY <2>2, <2>5, <2>11, <2>12, <2>13, <2>14 DEF b
<1> QED BY <1>1, MeteringInvHolds, PTL

-----------------------------------------------------------------------------
(* Decimal replay *)

\* from_mapping compares a digest only where the store has kept it, and what it
\* has found authentic is still what it returns.
ReplayInv ==
  /\ reader = [step |-> reader.step, original |-> reader.original,
               value |-> reader.value]
  /\ digest \in {Fingerprint(written), NoDigest}
  /\ reader.step \in {"match", "search", "done"} =>
       digest = Fingerprint(written)
  /\ reader.step = "match" => Fingerprint(stored) = digest
  /\ reader.step = "done" => Authentic(Candidate)

LEMMA ReplayInitKeeps == ReplayInit => ReplayInv
BY DEF ReplayInit, ReplayInv, NotReading

LEMMA ReplayStepKeeps ==
  ASSUME ReplayInv, [ReplayNext]_replayVars
  PROVE  ReplayInv'
<1>1. CASE Corrupt
  <2>1. /\ reader.step = "idle"
        /\ digest' \in {digest, NoDigest}
        /\ UNCHANGED <<written, reader>>
    BY <1>1 DEF Corrupt
  <2> QED BY <2>1 DEF ReplayInv, Fingerprint
<1>2. CASE ReadRecord
  <2>1. /\ UNCHANGED <<written, digest, stored>>
        /\ reader' = [step |-> reader'.step, original |-> reader'.original,
                      value |-> reader'.value]
        /\ reader'.step =
             IF digest # NoDigest
             THEN IF Fingerprint(stored) = digest THEN "match" ELSE "search"
             ELSE IF IsEvent(stored) THEN "rejected" ELSE "unchecked"
    BY <1>2 DEF ReadRecord, ReplayInv
  <2> QED BY <2>1 DEF ReplayInv, Fingerprint
<1>3. CASE ScanRecord
  <2>1. /\ UNCHANGED <<written, digest, stored>>
        /\ reader' = [step |-> "unchecked", original |-> reader.original,
                      value |-> reader.value]
    BY <1>3 DEF ScanRecord, ReplayInv
  <2> QED BY <2>1 DEF ReplayInv, Fingerprint
<1>4. CASE TryCandidate
  <2>1. /\ reader.step = "search"
        /\ UNCHANGED <<written, digest, stored>>
        /\ digest = Fingerprint(written)
        /\ reader' = IF Authentic(Candidate)
                     THEN [reader EXCEPT !.step = "done"] ELSE NextScales
    BY <1>4 DEF TryCandidate, ReplayInv
  <2>2. CASE Authentic(Candidate)
    <3>1. reader' = [step |-> "done", original |-> reader.original,
                     value |-> reader.value]
      BY <2>1, <2>2 DEF ReplayInv
    <3>2. Candidate' = Candidate
      BY <2>1, <3>1 DEF Candidate
    <3>3. Authentic(Candidate)'
      BY <2>1, <2>2, <3>2 DEF Authentic, Fingerprint
    <3> QED BY <2>1, <3>1, <3>3 DEF ReplayInv, Fingerprint
  <2>3. CASE ~Authentic(Candidate)
    <3>1. /\ reader' = [step |-> reader'.step, original |-> reader'.original,
                        value |-> reader'.value]
          /\ reader'.step \in {"search", "rejected"}
      BY <2>1, <2>3 DEF NextScales, ReplayInv
    <3> QED BY <2>1, <3>1 DEF ReplayInv, Fingerprint
  <2> QED BY <2>2, <2>3
<1>5. CASE UNCHANGED replayVars
  BY <1>5 DEF replayVars, ReplayInv, Authentic, Candidate, Fingerprint
<1> QED BY <1>1, <1>2, <1>3, <1>4, <1>5 DEF ReplayNext

\* from_mapping: a record that it returns after it has compared a fingerprint, as
\* it came or restored from a candidate, has the texts and the content that were
\* written, whatever has become of it in the store.
THEOREM ReturnedIsWritten == ReplaySpec => []ReturnsWhatWasWritten
<1>1. ReplayInv => ReturnsWhatWasWritten
  BY DEF ReplayInv, ReturnsWhatWasWritten, Restored, Authentic
<1> QED BY ReplayInitKeeps, ReplayStepKeeps, <1>1, PTL DEF ReplaySpec

-----------------------------------------------------------------------------
(* The search of decimal replay *)

\* A number that a column can hold, and every zero the plain one.
InColumn(d) ==
  /\ d \in Decimal
  /\ Integral(d, StoreScale)
  /\ d.c = 0 => d = Zero

ZeroIs == Zero \in Decimal /\ Zero.c = 0 /\ Zero.e = 0 /\ Zero # NoNumber

\* The plain zero is a number.
LEMMA PlainZero == ZeroIs
BY ReplayAssumption DEF ZeroIs, Zero, Decimal

\* What the assumptions say of columns and inputs.
LEMMA StoreTypes ==
  /\ MaxDigits \in Nat \ {0} /\ StoreInteger \in Nat
  /\ StoreScale \in Nat /\ StoreScale \in Int
  /\ StoreInteger <= MaxDigits
BY DecimalsAssumption, DomainAssumption

\* The least scale is the least.
LEMMA LeastScaleIs ==
  ASSUME NEW d \in Decimal, Integral(d, StoreScale)
  PROVE  /\ LeastScale(d) \in 0 .. StoreScale
         /\ Integral(d, LeastScale(d))
         /\ \A s \in Nat : Integral(d, s) => LeastScale(d) <= s
<1> DEFINE T == {s \in Nat : Integral(d, s)}
           Least(s) == Integral(d, s) /\ \A r \in 0 .. s - 1 : ~Integral(d, r)
<1>1. PICK n \in T : \A m \in Nat : m < n => m \notin T
  BY StoreTypes, Smallest
<1>2. n \in 0 .. StoreScale /\ Least(n)
  BY <1>1, StoreTypes
<1>3. LeastScale(d) = CHOOSE s \in 0 .. StoreScale : Least(s)
  BY DEF LeastScale
<1> HIDE DEF Least
<1>4. LeastScale(d) \in 0 .. StoreScale /\ Least(LeastScale(d))
  BY <1>2, <1>3
<1>5. PICK l \in Nat : l = LeastScale(d) /\ l \in 0 .. StoreScale
  BY <1>4, StoreTypes
<1>6. ASSUME NEW s \in Nat, Integral(d, s)
      PROVE  l <= s
  BY <1>4, <1>5, <1>6 DEF Least
<1> QED BY <1>4, <1>5, <1>6 DEF Least

\* The number at a scale that has it.
LEMMA WithScaleEquals ==
  ASSUME NEW d \in Decimal, NEW s \in Int, Integral(d, s)
  PROVE  /\ WithScale(d, s) \in Decimal
         /\ Equals(WithScale(d, s), d)
         /\ WithScale(d, s).c = AtScale(d, s)
         /\ WithScale(d, s).e = -s
<1>1. PICK q \in Int : q = AtScale(d, s) /\ Equals([c |-> q, e |-> -s], d)
  BY IntegralExact
<1> QED BY <1>1 DEF WithScale, Decimal

\* What a column holds of a number is the number.
LEMMA ScaledInColumn ==
  ASSUME NEW d \in Decimal, Integral(d, StoreScale),
         NEW s \in Int, Integral(d, s)
  PROVE  /\ InColumn(Canonical(WithScale(d, s)))
         /\ Equals(Canonical(WithScale(d, s)), d)
<1>1. PICK x \in Decimal : x = WithScale(d, s) /\ Equals(x, d)
  BY WithScaleEquals
<1>2. PICK y \in Decimal : /\ y = Canonical(x) /\ Equals(y, x)
                           /\ y.c = 0 => y = Zero
  BY CanonicalEquals
<1>3. Equals(y, d) /\ Equals(d, y)
  BY <1>1, <1>2, EqualsSymmetric, EqualsTransitive
<1>4. Integral(y, StoreScale)
  BY <1>3, StoreTypes, EqualsAtScale
<1> QED BY <1>1, <1>2, <1>3, <1>4 DEF InColumn

\* An original has at most the digits of an input (decimal_value), and no more of
\* them before the point than the store (storage_decimal).
LEMMA OriginalFacts ==
  ASSUME NEW d \in Originals
  PROVE  /\ InColumn(d)
         /\ d.c # 0 => /\ Digits(d.c) <= MaxDigits
                       /\ Adjusted(d) + 1 <= StoreInteger
<1>1. PICK x \in Numbers : Bounded(x) /\ Storable(x) /\ d = Canonical(x)
  BY DEF Originals
<1>2. x \in Decimal
  BY ReplayAssumption
<1>3. /\ d \in Decimal /\ Equals(x, d) /\ d.c = x.c
      /\ d.c # 0 => d = x
      /\ d.c = 0 => d = Zero
  BY <1>1, <1>2, CanonicalEquals, EqualsSymmetric
<1>4. Integral(d, StoreScale)
  BY <1>1, <1>2, <1>3, StoreTypes, EqualsAtScale DEF Storable
<1>5. ASSUME d.c # 0
      PROVE  Digits(d.c) <= MaxDigits /\ Adjusted(d) + 1 <= StoreInteger
  <2>1. d = x /\ Digits(d.c) <= MaxDigits
    BY <1>1, <1>3, <1>5 DEF Bounded
  <2>2. PICK a \in Int : a = Adjusted(d)
    BY <1>3, DigitsBound DEF Adjusted, Decimal
  <2>3. IntegerDigits(d) = IF 1 > a + 1 THEN 1 ELSE a + 1
    BY <1>5, <2>2 DEF IntegerDigits, Larger
  <2>4. IntegerDigits(d) <= StoreInteger
    BY <1>1, <2>1 DEF Storable
  <2> QED BY <2>1, <2>2, <2>3, <2>4, StoreTypes
<1> QED BY <1>3, <1>4, <1>5 DEF InColumn

\* A meter value has the scale of a meter.
LEMMA MeterValueFacts ==
  ASSUME NEW d \in MeterValues
  PROVE  /\ InColumn(d)
         /\ d.e <= 0 /\ -d.e <= StoreScale
<1>1. PICK x \in Quantities : /\ Storable(x)
                              /\ \E s \in LeastScale(x) .. StoreScale :
                                   d = Canonical(WithScale(x, s))
  BY DEF MeterValues
<1>2. PICK s \in LeastScale(x) .. StoreScale : d = Canonical(WithScale(x, s))
  BY <1>1
<1>3. x \in Decimal /\ Integral(x, StoreScale)
  BY <1>1, ReplayAssumption DEF Storable
<1>4. PICK l \in 0 .. StoreScale : l = LeastScale(x) /\ Integral(x, l)
  BY <1>3, LeastScaleIs
<1>5. s \in Nat /\ l <= s /\ s <= StoreScale
  BY <1>2, <1>4, StoreTypes
<1>6. Integral(x, s)
  BY <1>3, <1>4, <1>5, IntegralLarger
<1>7. InColumn(d)
  BY <1>2, <1>3, <1>5, <1>6, ScaledInColumn
<1>8. WithScale(x, s) \in Decimal /\ WithScale(x, s).e = -s
  BY <1>3, <1>5, <1>6, WithScaleEquals
<1>9. d.e = -s \/ d.e = 0
  BY <1>2, <1>8, CanonicalEquals, PlainZero DEF ZeroIs
<1> QED BY <1>5, <1>7, <1>9, StoreTypes

\* The scale of a text: a number that is written without digits behind the point
\* has the scale zero.
TextScale(d) == IF d.c = 0 \/ d.e > 0 THEN 0 ELSE -d.e

\* The text of a number is found again at its scale, whatever decimal the store
\* returns for it.
LEMMA TextIsFound ==
  ASSUME NEW d, InColumn(d), NEW x, InColumn(x), Equals(x, d)
  PROVE  /\ TextScale(d) \in Nat
         /\ Integral(x, TextScale(d))
         /\ Text(Canonical(WithScale(x, TextScale(d)))) = Text(d)
<1>1. /\ d \in Decimal /\ x \in Decimal /\ Equals(d, x)
      /\ d.c \in Int /\ d.e \in Int /\ d # NoNumber
  BY ReplayAssumption, EqualsSymmetric DEF InColumn, Decimal
<1>2. PICK s \in Nat : s = TextScale(d)
  BY <1>1 DEF TextScale
<1>3. Integral(d, s)
  <2>1. d.e + s >= 0
    BY <1>1, <1>2, PlainZero DEF TextScale, InColumn, ZeroIs
  <2> QED BY <2>1 DEF Integral
<1>4. Integral(x, s) /\ AtScale(x, s) = AtScale(d, s)
  BY <1>1, <1>3, EqualsAtScale
<1>5. WithScale(x, s) = [c |-> AtScale(d, s), e |-> -s]
  BY <1>4 DEF WithScale
<1>6. PICK q \in Int : q = AtScale(d, s)
  <2>1. s \in Int
    OBVIOUS
  <2> QED BY <1>1, <1>3, <2>1, IntegralExact, Zenon
<1>7. Text(Canonical([c |-> q, e |-> -s])) = Text(d)
  <2>1. CASE d.c = 0
    <3>1. d = Zero /\ s = 0
      BY <1>2, <2>1 DEF InColumn, TextScale
    <3>2. q = 0
      BY <1>6, <2>1, <3>1, PlainZero, TenToSteps DEF AtScale, ZeroIs
    <3>3. Canonical([c |-> q, e |-> -s]) = Zero
      BY <3>2 DEF Canonical
    <3> QED BY <3>1, <3>3
  <2>2. CASE d.c # 0 /\ d.e > 0
    <3>1. s = 0
      BY <1>2, <2>2 DEF TextScale
    <3>2. q # 0
      <4>1. Equals([c |-> q, e |-> -s], d) /\ [c |-> q, e |-> -s] \in Decimal
        BY <1>1, <1>3, <1>6, IntegralExact DEF Decimal
      <4> QED BY <1>1, <2>2, <4>1, EqualsMeans
    <3>3. Canonical([c |-> q, e |-> -s]) = [c |-> q, e |-> 0]
      BY <3>1, <3>2 DEF Canonical
    <3>4. [c |-> q, e |-> 0] \in Decimal /\ [c |-> q, e |-> 0] # NoNumber
      BY ReplayAssumption DEF Decimal
    <3>5. Text([c |-> q, e |-> 0]) = [c |-> q, e |-> 0]
      BY <3>2, <3>4 DEF Text
    <3>6. Text(d) = [c |-> AtScale(d, 0), e |-> 0]
      BY <1>1, <2>2 DEF Text
    <3> QED BY <1>6, <3>1, <3>3, <3>5, <3>6
  <2>3. CASE d.c # 0 /\ ~(d.e > 0)
    <3>1. s = -d.e
      BY <1>2, <2>3 DEF TextScale
    <3>2. q = d.c
      <4>1. d.e + s = 0
        BY <1>1, <3>1
      <4>2. q = d.c * TenTo[0]
        BY <1>6, <4>1 DEF AtScale
      <4> QED BY <1>1, <4>2, TenToSteps
    <3>3. [c |-> q, e |-> -s] = d
      BY <1>1, <3>1, <3>2 DEF Decimal
    <3>4. Canonical(d) = d
      BY <2>3 DEF Canonical
    <3> QED BY <3>3, <3>4
  <2> QED BY <2>1, <2>2, <2>3
<1> QED BY <1>2, <1>4, <1>5, <1>6, <1>7

\* The scales of an original that are tried: the last is in reach of the cursor,
\* and there are no more of them than an input may have digits.
LEMMA OriginalRange ==
  ASSUME NEW x, InColumn(x)
  PROVE  /\ LastOriginal(x) \in Int
         /\ LeastScale(x) \in 0 .. StoreScale
         /\ LastOriginal(x) - LeastScale(x) + 1 <= MaxDigits
         /\ LastOriginal(x) <= MaxDigits + StoreScale
<1>1. /\ x \in Decimal /\ x.c \in Int /\ x.e \in Int
      /\ Integral(x, StoreScale)
  BY DEF InColumn, Decimal
<1>2. PICK l \in 0 .. StoreScale : l = LeastScale(x) /\ Integral(x, l)
  BY <1>1, LeastScaleIs
<1>3. CASE x.c = 0
  <2>1. LastOriginal(x) = 0
    BY <1>3 DEF LastOriginal
  <2> QED BY <1>2, <2>1, StoreTypes
<1>4. CASE x.c # 0
  <2>1. PICK y \in Decimal : /\ Equals(y, x) /\ y.e = -l
    <3>1. l \in Int
      BY <1>2, StoreTypes
    <3> QED BY <1>1, <1>2, <3>1, WithScaleEquals
  <2>2. y.c # 0 /\ Adjusted(y) = Adjusted(x)
    BY <1>1, <1>4, <2>1, EqualsMeans
  <2>3. PICK n \in Nat \ {0} : n = Digits(y.c)
    BY DigitsBound DEF Decimal
  <2>4. Adjusted(x) = n - l - 1
    BY <1>2, <2>1, <2>2, <2>3, StoreTypes DEF Adjusted
  <2>5. LastOriginal(x) = MaxDigits - (n - l - 1) - 1
    BY <1>4, <2>4 DEF LastOriginal
  <2> QED BY <1>2, <2>3, <2>5, StoreTypes
<1> QED BY <1>3, <1>4

\* The scale that an original was written with is among them.
LEMMA OriginalInRange ==
  ASSUME NEW d \in Originals, NEW x, InColumn(x), Equals(x, d)
  PROVE  LeastScale(x) <= TextScale(d) /\ TextScale(d) <= LastOriginal(x)
<1>1. /\ InColumn(d) /\ d \in Decimal /\ d.c \in Int /\ d.e \in Int
      /\ x \in Decimal /\ Integral(x, StoreScale)
  BY OriginalFacts DEF InColumn, Decimal
<1>2. TextScale(d) \in Nat /\ Integral(x, TextScale(d))
  BY <1>1, TextIsFound
<1>3. LeastScale(x) <= TextScale(d)
  BY <1>1, <1>2, LeastScaleIs
<1>4. CASE d.c = 0
  <2>1. x.c = 0
    BY <1>1, <1>4, EqualsMeans
  <2> QED BY <1>3, <1>4, <2>1 DEF TextScale, LastOriginal
<1>5. CASE d.c # 0
  <2>1. x.c # 0 /\ Adjusted(x) = Adjusted(d)
    BY <1>1, <1>5, EqualsMeans
  <2>2. PICK n \in Nat \ {0} : n = Digits(d.c) /\ n <= MaxDigits
    BY <1>1, <1>5, DigitsBound, OriginalFacts
  <2>3. Adjusted(d) = d.e + n - 1 /\ Adjusted(d) + 1 <= StoreInteger
    BY <1>5, <2>2, OriginalFacts DEF Adjusted
  <2>4. LastOriginal(x) = MaxDigits - (d.e + n - 1) - 1
    BY <2>1, <2>3 DEF LastOriginal
  <2>5. TextScale(d) <= LastOriginal(x)
    BY <1>1, <1>5, <2>2, <2>3, <2>4, StoreTypes DEF TextScale
  <2> QED BY <1>3, <2>5
<1> QED BY <1>4, <1>5

\* So is the scale of a meter value.
LEMMA ValueInRange ==
  ASSUME NEW d \in MeterValues, NEW x, InColumn(x), Equals(x, d)
  PROVE  LeastScale(x) <= TextScale(d) /\ TextScale(d) <= LastValue(x)
<1>1. /\ InColumn(d) /\ d \in Decimal /\ d.c \in Int /\ d.e \in Int
      /\ x \in Decimal /\ Integral(x, StoreScale) /\ x # NoNumber
      /\ -d.e <= StoreScale
  BY MeterValueFacts, ReplayAssumption DEF InColumn, Decimal
<1>2. TextScale(d) \in Nat /\ Integral(x, TextScale(d))
  BY <1>1, TextIsFound
<1>3. LeastScale(x) <= TextScale(d)
  BY <1>1, <1>2, LeastScaleIs
<1>4. CASE d.c = 0
  <2>1. TextScale(d) = 0 /\ LastValue(x) \in Nat
    BY <1>4, StoreTypes DEF TextScale, LastValue
  <2> QED BY <1>3, <2>1
<1>5. CASE d.c # 0
  <2>1. x.c # 0
    BY <1>1, <1>5, EqualsMeans
  <2>2. LastValue(x) = StoreScale
    BY <1>1, <2>1, PlainZero DEF LastValue, ZeroIs
  <2>3. TextScale(d) <= StoreScale
    BY <1>1, StoreTypes DEF TextScale
  <2> QED BY <1>3, <2>2, <2>3
<1> QED BY <1>4, <1>5

\* The store returns what a column can hold.
StoredInv ==
  /\ InColumn(stored.original)
  /\ stored.value # NoNumber => InColumn(stored.value)

\* What it has kept.
IntactInv ==
  intact =>
    /\ digest = Fingerprint(written)
    /\ stored.content = written.content
    /\ Equals(stored.original, written.original)
    /\ stored.value = NoNumber <=> written.value = NoNumber
    /\ stored.value # NoNumber => Equals(stored.value, written.value)

FirstOriginal == LeastScale(stored.original)

FirstValue == IF stored.value = NoNumber THEN 0 ELSE LeastScale(stored.value)

\* How far the search is, and that it has tried no more than it has passed.
CursorInv ==
  reader.step = "search" =>
    /\ FirstOriginal <= reader.original
    /\ reader.original - FirstOriginal + 1 <= MaxDigits
    /\ FirstValue <= reader.value
    /\ tried <= (reader.original - FirstOriginal) * (StoreScale + 1)
                  + (reader.value - FirstValue)

\* The scales that the record was written with.
WrittenOriginal == TextScale(written.original)

WrittenValue == IF written.value = NoNumber THEN 0 ELSE TextScale(written.value)

\* While it searches, they are the next or are still to come.
TargetInv ==
  reader.step = "search" /\ intact =>
    \/ reader.original < WrittenOriginal
    \/ reader.original = WrittenOriginal /\ reader.value <= WrittenValue

SearchInv ==
  /\ ReplayTypeOK /\ StoredInv /\ IntactInv /\ CursorInv /\ TargetInv
  /\ SearchSucceeds
  /\ reader.step = "idle" => tried = 0

\* FromColumn keeps the number.
LEMMA ColumnKeeps ==
  ASSUME NEW d, InColumn(d), NEW x \in FromColumn(d)
  PROVE  InColumn(x) /\ Equals(x, d) /\ x # NoNumber
<1>1. d \in Decimal /\ Integral(d, StoreScale) /\ d # NoNumber
  BY ReplayAssumption DEF InColumn
<1>2. PICK l \in Int : l = LeastScale(d) /\ Integral(d, l)
  BY <1>1, LeastScaleIs, StoreTypes
<1>3. x = Canonical(WithScale(d, StoreScale)) \/ x = Canonical(WithScale(d, l))
  BY <1>1, <1>2 DEF FromColumn
<1>4. InColumn(x) /\ Equals(x, d)
  BY <1>1, <1>2, <1>3, StoreTypes, ScaledInColumn
<1> QED BY <1>4, ReplayAssumption DEF InColumn

\* What stands in a corrupted column is a number that the column can hold.
LEMMA StrippedInColumn ==
  ASSUME NEW D, \A d \in D : InColumn(d), NEW x \in Stripped(D)
  PROVE  InColumn(x) /\ x # NoNumber
<1>1. PICK d \in D : x = Canonical(WithScale(d, LeastScale(d)))
  BY DEF Stripped
<1>2. d \in Decimal /\ Integral(d, StoreScale)
  BY <1>1 DEF InColumn
<1>3. LeastScale(d) \in Int /\ Integral(d, LeastScale(d))
  BY <1>2, LeastScaleIs, StoreTypes
<1>4. InColumn(x)
  BY <1>1, <1>2, <1>3, ScaledInColumn
<1> QED BY <1>4, ReplayAssumption DEF InColumn

\* The fields of a written record.
LEMMA WrittenFacts ==
  ASSUME NEW r \in WrittenRecord
  PROVE  /\ r.original \in Originals /\ InColumn(r.original)
         /\ r.value # NoNumber => r.value \in MeterValues /\ InColumn(r.value)
         /\ r.content \in Contents
BY OriginalFacts, MeterValueFacts DEF WrittenRecord

\* The store returns what was put, in the scale of a column or in the least.
LEMMA SearchInit == ReplayInit => SearchInv
<1> SUFFICES ASSUME ReplayInit PROVE SearchInv
  OBVIOUS
<1>1. /\ written \in WrittenRecord /\ digest = Fingerprint(written)
      /\ intact = TRUE /\ reader = NotReading /\ tried = 0
  BY DEF ReplayInit
<1>2. PICK original \in FromColumn(written.original),
           value \in FromColumn(written.value) :
        stored = [value |-> value, original |-> original,
                  content |-> written.content]
  BY DEF ReplayInit
<1>3. InColumn(original) /\ Equals(original, written.original)
  BY <1>1, WrittenFacts, ColumnKeeps
<1>4. CASE written.value = NoNumber
  <2>1. value = NoNumber
    BY <1>4 DEF FromColumn
  <2>2. stored \in StoredRecord
    BY <1>1, <1>2, <1>3, <2>1, WrittenFacts DEF StoredRecord, InColumn
  <2>3. StoredInv /\ IntactInv
    BY <1>1, <1>2, <1>3, <1>4, <2>1 DEF StoredInv, IntactInv
  <2>4. ReplayTypeOK
    BY <1>1, <2>2, StoreTypes DEF ReplayTypeOK, NotReading, Reader
  <2> QED
    BY <1>1, <2>3, <2>4, StoreTypes
    DEF SearchInv, CursorInv, TargetInv, NotReading, SearchSucceeds,
        IntactIsReadable, SearchIsBounded
<1>5. CASE written.value # NoNumber
  <2>1. InColumn(value) /\ Equals(value, written.value) /\ value # NoNumber
    BY <1>1, <1>5, WrittenFacts, ColumnKeeps
  <2>2. stored \in StoredRecord
    BY <1>1, <1>2, <1>3, <2>1, WrittenFacts DEF StoredRecord, InColumn
  <2>3. StoredInv /\ IntactInv
    BY <1>1, <1>2, <1>3, <1>5, <2>1 DEF StoredInv, IntactInv
  <2>4. ReplayTypeOK
    BY <1>1, <2>2, StoreTypes DEF ReplayTypeOK, NotReading, Reader
  <2> QED
    BY <1>1, <2>3, <2>4, StoreTypes
    DEF SearchInv, CursorInv, TargetInv, NotReading, SearchSucceeds,
        IntactIsReadable, SearchIsBounded
<1> QED BY <1>4, <1>5

\* A changed record is no longer intact, and the search has not begun.
LEMMA CorruptKeeps ==
  ASSUME SearchInv, Corrupt
  PROVE  SearchInv'
<1>1. /\ reader.step = "idle" /\ intact' = FALSE
      /\ UNCHANGED <<written, reader, tried>>
      /\ digest' \in {digest, NoDigest}
  BY DEF Corrupt
<1>2. /\ stored \in StoredRecord /\ StoredInv /\ ReplayTypeOK
      /\ stored = [value |-> stored.value, original |-> stored.original,
                   content |-> stored.content]
  BY DEF SearchInv, ReplayTypeOK, StoredRecord
<1>3. stored' \in StoredRecord /\ StoredInv'
  <2>1. ASSUME NEW d \in Stripped(Originals),
               stored' = [stored EXCEPT !.original = d]
        PROVE  stored' \in StoredRecord /\ StoredInv'
    <3>1. InColumn(d) /\ d \in Decimal
      BY OriginalFacts, StrippedInColumn DEF InColumn
    <3>2. stored' = [value |-> stored.value, original |-> d,
                     content |-> stored.content]
      BY <1>2, <2>1
    <3> QED BY <1>2, <3>1, <3>2 DEF StoredRecord, StoredInv, InColumn
  <2>2. ASSUME NEW d \in Stripped(MeterValues),
               stored' = [stored EXCEPT !.value = d]
        PROVE  stored' \in StoredRecord /\ StoredInv'
    <3>1. InColumn(d) /\ d \in Decimal
      BY MeterValueFacts, StrippedInColumn DEF InColumn
    <3>2. stored' = [value |-> d, original |-> stored.original,
                     content |-> stored.content]
      BY <1>2, <2>2
    <3> QED BY <1>2, <3>1, <3>2 DEF StoredRecord, StoredInv, InColumn
  <2>3. ASSUME NEW content \in Contents,
               stored' = [stored EXCEPT !.content = content]
        PROVE  stored' \in StoredRecord /\ StoredInv'
    <3>1. stored' = [value |-> stored.value, original |-> stored.original,
                     content |-> content]
      BY <1>2, <2>3
    <3> QED BY <1>2, <3>1 DEF StoredRecord, StoredInv, InColumn
  <2>4. CASE stored' = stored
    BY <1>2, <2>4 DEF StoredInv
  <2> QED BY <2>1, <2>2, <2>3, <2>4 DEF Corrupt
<1>4. ReplayTypeOK'
  BY <1>1, <1>2, <1>3 DEF ReplayTypeOK, Fingerprint
<1> QED
  BY <1>1, <1>3, <1>4
  DEF SearchInv, IntactInv, CursorInv, TargetInv, SearchSucceeds,
      IntactIsReadable, SearchIsBounded

\* A record that is not checked is not searched for.
LEMMA ScanKeeps ==
  ASSUME SearchInv, ScanRecord
  PROVE  SearchInv'
<1>1. /\ UNCHANGED <<written, digest, stored, intact, tried>>
      /\ ReplayTypeOK /\ reader \in Reader
  BY DEF ScanRecord, SearchInv, ReplayTypeOK
<1>2. reader' \in Reader /\ reader'.step = "unchecked"
  BY <1>1 DEF ScanRecord, Reader
<1>3. ReplayTypeOK'
  BY <1>1, <1>2 DEF ReplayTypeOK, Fingerprint
<1> QED
  BY <1>1, <1>2, <1>3
  DEF SearchInv, StoredInv, IntactInv, CursorInv, TargetInv, SearchSucceeds,
      IntactIsReadable, SearchIsBounded, Fingerprint

\* A fingerprint is not the absence of one.
LEMMA DigestIs ==
  ASSUME NEW r \in WrittenRecord
  PROVE  Fingerprint(r) # NoDigest
<1>1. \A d \in Decimal : Text(d) \in Decimal
  <2> SUFFICES ASSUME NEW d \in Decimal PROVE Text(d) \in Decimal
    OBVIOUS
  <2>1. CASE d.e > 0 /\ d.c # 0
    <3>1. AtScale(d, 0) \in Int
      <4>1. 0 \in Int /\ Integral(d, 0)
        BY <2>1 DEF Integral, Decimal
      <4> QED BY <4>1, IntegralExact
    <3>2. d # NoNumber
      BY ReplayAssumption
    <3> QED BY <2>1, <3>1, <3>2 DEF Text, Decimal
  <2>2. CASE ~(d.e > 0 /\ d.c # 0)
    BY <2>2, PlainZero DEF Text, ZeroIs
  <2> QED BY <2>1, <2>2
<1>2. Text(r.original) \in Decimal
  BY <1>1, WrittenFacts DEF InColumn
<1>3. Text(r.value) \in Decimal \cup {NoNumber}
  <2>1. CASE r.value = NoNumber
    BY <2>1 DEF Text
  <2>2. CASE r.value # NoNumber
    BY <1>1, <2>2, WrittenFacts DEF InColumn
  <2> QED BY <2>1, <2>2
<1> QED BY <1>2, <1>3, ReplayAssumption, WrittenFacts DEF Fingerprint

\* What the scales of the written record are, from the record that is stored.
LEMMA TargetFacts ==
  ASSUME SearchInv, intact
  PROVE  /\ WrittenOriginal \in Nat /\ WrittenValue \in Nat
         /\ FirstOriginal <= WrittenOriginal
         /\ WrittenOriginal <= LastOriginal(stored.original)
         /\ FirstValue <= WrittenValue
         /\ WrittenValue <= LastValue(stored.value)
<1>1. /\ written \in WrittenRecord /\ StoredInv /\ IntactInv
  BY DEF SearchInv, ReplayTypeOK
<1>2. /\ written.original \in Originals /\ InColumn(written.original)
      /\ InColumn(stored.original) /\ Equals(stored.original, written.original)
  BY <1>1, WrittenFacts DEF StoredInv, IntactInv
<1>3. /\ WrittenOriginal \in Nat
      /\ FirstOriginal <= WrittenOriginal
      /\ WrittenOriginal <= LastOriginal(stored.original)
  BY <1>2, OriginalInRange, TextIsFound DEF WrittenOriginal, FirstOriginal
<1>4. CASE written.value = NoNumber
  <2>1. stored.value = NoNumber
    BY <1>1, <1>4 DEF IntactInv
  <2> QED BY <1>3, <1>4, <2>1 DEF WrittenValue, FirstValue, LastValue
<1>5. CASE written.value # NoNumber
  <2>1. /\ written.value \in MeterValues /\ InColumn(written.value)
        /\ stored.value # NoNumber
        /\ InColumn(stored.value) /\ Equals(stored.value, written.value)
    BY <1>1, <1>5, WrittenFacts DEF StoredInv, IntactInv
  <2>2. /\ WrittenValue \in Nat
        /\ FirstValue <= WrittenValue
        /\ WrittenValue <= LastValue(stored.value)
    BY <1>5, <2>1, ValueInRange, TextIsFound DEF WrittenValue, FirstValue
  <2> QED BY <1>3, <2>2
<1> QED BY <1>4, <1>5

\* At them, an intact record is authentic.
LEMMA TargetIsAuthentic ==
  ASSUME SearchInv, intact,
         reader.original = WrittenOriginal, reader.value = WrittenValue
  PROVE  Authentic(Candidate)
<1>1. /\ written \in WrittenRecord /\ StoredInv /\ IntactInv
  BY DEF SearchInv, ReplayTypeOK
<1>2. /\ InColumn(written.original)
      /\ InColumn(stored.original) /\ Equals(stored.original, written.original)
  BY <1>1, WrittenFacts DEF StoredInv, IntactInv
<1> DEFINE x == Canonical(WithScale(stored.original, reader.original))
           v == IF stored.value = NoNumber THEN NoNumber
                ELSE Canonical(WithScale(stored.value, reader.value))
<1>3. Text(x) = Text(written.original)
  BY <1>2, TextIsFound DEF WrittenOriginal
<1>4. Text(v) = Text(written.value)
  <2>1. CASE written.value = NoNumber
    BY <1>1, <2>1 DEF IntactInv
  <2>2. CASE written.value # NoNumber
    <3>1. /\ InColumn(written.value) /\ stored.value # NoNumber
          /\ InColumn(stored.value) /\ Equals(stored.value, written.value)
      BY <1>1, <2>2, WrittenFacts DEF StoredInv, IntactInv
    <3> QED BY <2>2, <3>1, TextIsFound DEF WrittenValue
  <2> QED BY <2>1, <2>2
<1>5. Candidate = [value |-> v, original |-> x, content |-> written.content]
  BY <1>1 DEF Candidate, IntactInv
<1> HIDE DEF x, v
<1>6. Fingerprint(Candidate) = Fingerprint(written)
  BY <1>3, <1>4, <1>5 DEF Fingerprint
<1> QED BY <1>1, <1>6 DEF Authentic, IntactInv

\* Where the loops of the search begin and end.
LEMMA FirstFacts ==
  ASSUME SearchInv
  PROVE  /\ FirstOriginal \in 0 .. StoreScale
         /\ FirstValue \in 0 .. StoreScale
         /\ LastOriginal(stored.original) \in Int
         /\ LastOriginal(stored.original) - FirstOriginal + 1 <= MaxDigits
         /\ LastOriginal(stored.original) <= MaxDigits + StoreScale
         /\ LastValue(stored.value) \in 0 .. StoreScale
<1>1. /\ FirstOriginal \in 0 .. StoreScale
      /\ LastOriginal(stored.original) \in Int
      /\ LastOriginal(stored.original) - FirstOriginal + 1 <= MaxDigits
      /\ LastOriginal(stored.original) <= MaxDigits + StoreScale
  BY OriginalRange DEF SearchInv, StoredInv, FirstOriginal
<1>2. FirstValue \in 0 .. StoreScale
  <2>1. CASE stored.value = NoNumber
    BY <2>1, StoreTypes DEF FirstValue
  <2>2. CASE stored.value # NoNumber
    BY <2>2, LeastScaleIs DEF FirstValue, SearchInv, StoredInv, InColumn
  <2> QED BY <2>1, <2>2
<1>3. LastValue(stored.value) \in 0 .. StoreScale
  BY StoreTypes DEF LastValue
<1> QED BY <1>1, <1>2, <1>3

\* The search begins at the least scales.
LEMMA ReadKeeps ==
  ASSUME SearchInv, ReadRecord
  PROVE  SearchInv'
<1>1. /\ UNCHANGED <<written, digest, stored, intact, tried>>
      /\ reader.step = "idle" /\ tried = 0 /\ reader \in Reader
      /\ ReplayTypeOK /\ IntactInv /\ StoredInv
  BY DEF ReadRecord, SearchInv, ReplayTypeOK
<1>2. reader' = [step |-> reader'.step, original |-> FirstOriginal,
                 value |-> FirstValue]
      /\ reader'.step =
           IF digest # NoDigest
           THEN IF Fingerprint(stored) = digest THEN "match" ELSE "search"
           ELSE IF IsEvent(stored) THEN "rejected" ELSE "unchecked"
  BY <1>1 DEF ReadRecord, Reader, FirstOriginal, FirstValue, IsEvent
<1>3. FirstOriginal \in 0 .. StoreScale /\ FirstValue \in 0 .. StoreScale
  BY FirstFacts
<1>4. reader'.original = FirstOriginal /\ reader'.value = FirstValue
  BY <1>2
<1>5. reader' \in Reader
  BY <1>2, <1>3, StoreTypes DEF Reader
<1>6. ReplayTypeOK'
  BY <1>1, <1>5 DEF ReplayTypeOK, Fingerprint
<1>7. StoredInv' /\ IntactInv'
  BY <1>1 DEF StoredInv, IntactInv, Fingerprint
<1>8. FirstOriginal' = FirstOriginal /\ FirstValue' = FirstValue
      /\ WrittenOriginal' = WrittenOriginal /\ WrittenValue' = WrittenValue
  BY <1>1 DEF FirstOriginal, FirstValue, WrittenOriginal, WrittenValue
<1>9. CursorInv'
  BY <1>1, <1>3, <1>4, <1>8, StoreTypes DEF CursorInv
<1>10. TargetInv'
  <2> SUFFICES ASSUME intact
               PROVE  \/ FirstOriginal < WrittenOriginal
                      \/ /\ FirstOriginal = WrittenOriginal
                         /\ FirstValue <= WrittenValue
    BY <1>1, <1>4, <1>8 DEF TargetInv
  <2> QED BY <1>3, TargetFacts
<1>11. SearchSucceeds'
  <2>1. reader'.step = "rejected" => ~intact
    <3> SUFFICES ASSUME intact PROVE digest # NoDigest
      BY <1>2
    <3> QED BY <1>1, DigestIs DEF IntactInv, ReplayTypeOK
  <2> QED
    BY <1>1, <2>1
    DEF SearchSucceeds, IntactIsReadable, SearchIsBounded, SearchInv
<1> QED
  BY <1>1, <1>2, <1>6, <1>7, <1>9, <1>10, <1>11 DEF SearchInv

\* A candidate that is not authentic is not the written record: its scales are
\* still to come, and the two loops come to them.
LEMMA TryKeeps ==
  ASSUME SearchInv, TryCandidate
  PROVE  SearchInv'
<1>1. /\ UNCHANGED <<written, digest, stored, intact>>
      /\ reader.step = "search" /\ reader \in Reader /\ tried' = tried + 1
      /\ ReplayTypeOK /\ IntactInv /\ StoredInv /\ CursorInv /\ TargetInv
      /\ tried \in Nat
  BY DEF TryCandidate, SearchInv, ReplayTypeOK
<1>2. /\ reader = [step |-> "search", original |-> reader.original,
                   value |-> reader.value]
      /\ reader.original \in 0 .. MaxDigits + StoreScale
      /\ reader.value \in 0 .. StoreScale
  BY <1>1 DEF Reader
<1>3. StoredInv' /\ IntactInv'
  BY <1>1 DEF StoredInv, IntactInv, Fingerprint
<1>4. FirstOriginal' = FirstOriginal /\ FirstValue' = FirstValue
      /\ WrittenOriginal' = WrittenOriginal /\ WrittenValue' = WrittenValue
  BY <1>1 DEF FirstOriginal, FirstValue, WrittenOriginal, WrittenValue
<1> DEFINE o == reader.original
           v == reader.value
           lo == FirstOriginal
           lv == FirstValue
           S == StoreScale
<1>5. /\ S \in Nat /\ o \in Nat /\ v \in 0 .. S
      /\ lo \in 0 .. S /\ lv \in 0 .. S
      /\ MaxDigits \in Nat
      /\ lo <= o /\ lv <= v /\ o - lo + 1 <= MaxDigits
      /\ tried <= (o - lo) * (S + 1) + (v - lv)
  BY <1>1, <1>2, FirstFacts, StoreTypes DEF CursorInv
<1>6. /\ LastOriginal(stored.original) \in Int
      /\ LastOriginal(stored.original) - lo + 1 <= MaxDigits
      /\ LastOriginal(stored.original) <= MaxDigits + S
      /\ LastValue(stored.value) \in 0 .. S
  BY FirstFacts
<1>7. tried' <= (S + 1) * MaxDigits
  <2>1. (o - lo) * (S + 1) + (S + 1) = (o - lo + 1) * (S + 1)
    BY <1>5
  <2>2. (o - lo + 1) * (S + 1) <= MaxDigits * (S + 1)
    BY <1>5
  <2>3. MaxDigits * (S + 1) = (S + 1) * MaxDigits
    BY <1>5
  <2>4. tried + 1 <= (o - lo) * (S + 1) + (S + 1)
    BY <1>1, <1>5
  <2>5. (o - lo) * (S + 1) \in Int /\ MaxDigits * (S + 1) \in Int
    BY <1>5
  <2> QED BY <1>1, <1>5, <2>1, <2>2, <2>3, <2>4, <2>5
<1>8. /\ reader' \in Reader
      /\ reader'.step = "rejected" => ~intact
      /\ reader'.step # "idle"
      /\ CursorInv' /\ TargetInv'
  <2>1. CASE Authentic(Candidate)
    <3>1. reader' = [step |-> "done", original |-> o, value |-> v]
      BY <1>2, <2>1 DEF TryCandidate
    <3> QED BY <1>2, <3>1 DEF Reader, CursorInv, TargetInv
  <2>2. CASE ~Authentic(Candidate) /\ v < LastValue(stored.value)
    <3>1. reader' = [step |-> "search", original |-> o, value |-> v + 1]
      BY <1>2, <2>2 DEF TryCandidate, NextScales
    <3>2. reader' \in Reader
      BY <1>2, <1>5, <1>6, <2>2, <3>1 DEF Reader
    <3>3. CursorInv'
      <4>1. (o - lo) * (S + 1) \in Int
        BY <1>5
      <4> QED BY <1>1, <1>4, <1>5, <3>1, <4>1 DEF CursorInv
    <3>4. ASSUME intact
          PROVE  \/ o < WrittenOriginal
                 \/ o = WrittenOriginal /\ v + 1 <= WrittenValue
      <4>1. o < WrittenOriginal \/ (o = WrittenOriginal /\ v <= WrittenValue)
        BY <1>1, <3>4 DEF TargetInv
      <4>2. ~(o = WrittenOriginal /\ v = WrittenValue)
        BY <2>2, <3>4, TargetIsAuthentic
      <4>3. /\ WrittenOriginal \in Nat /\ WrittenValue \in Nat
            /\ WrittenOriginal <= LastOriginal(stored.original)
            /\ WrittenValue <= LastValue(stored.value)
        BY <3>4, TargetFacts
      <4>4. o \in Nat /\ v \in Nat
        BY <1>5
      <4> QED BY <4>1, <4>2, <4>3, <4>4
    <3>5. TargetInv'
      BY <1>1, <1>4, <3>1, <3>4 DEF TargetInv
    <3> QED BY <3>1, <3>2, <3>3, <3>5
  <2>3. CASE ~Authentic(Candidate) /\ ~(v < LastValue(stored.value))
    <3>1. ASSUME intact
          PROVE  /\ o < WrittenOriginal
                 /\ WrittenOriginal <= LastOriginal(stored.original)
      <4>1. o < WrittenOriginal \/ (o = WrittenOriginal /\ v <= WrittenValue)
        BY <1>1, <3>1 DEF TargetInv
      <4>2. ~(o = WrittenOriginal /\ v = WrittenValue)
        BY <2>3, <3>1, TargetIsAuthentic
      <4>3. /\ WrittenOriginal \in Nat /\ WrittenValue \in Nat
            /\ WrittenOriginal <= LastOriginal(stored.original)
            /\ WrittenValue <= LastValue(stored.value)
        BY <3>1, TargetFacts
      <4>4. o \in Nat /\ v \in Nat /\ LastValue(stored.value) \in Nat
        BY <1>5, <1>6
      <4> QED BY <2>3, <4>1, <4>2, <4>3, <4>4
    <3>2. CASE o < LastOriginal(stored.original)
      <4>1. reader' = [step |-> "search", original |-> o + 1, value |-> lv]
        BY <1>2, <2>3, <3>2 DEF TryCandidate, NextScales, FirstValue
      <4>2. reader' \in Reader
        BY <1>5, <1>6, <3>2, <4>1 DEF Reader
      <4>3. CursorInv'
        <5>1. (o + 1 - lo) * (S + 1) = (o - lo) * (S + 1) + (S + 1)
          BY <1>5
        <5>2. (o - lo) * (S + 1) \in Int
          BY <1>5
        <5>3. tried + 1 <= (o + 1 - lo) * (S + 1) + (lv - lv)
          BY <1>1, <1>5, <5>1, <5>2
        <5> QED BY <1>1, <1>4, <1>5, <1>6, <3>2, <4>1, <5>3 DEF CursorInv
      <4>4. ASSUME intact
            PROVE  \/ o + 1 < WrittenOriginal
                   \/ o + 1 = WrittenOriginal /\ lv <= WrittenValue
        BY <1>5, <3>1, <4>4, TargetFacts
      <4>5. TargetInv'
        BY <1>1, <1>4, <4>1, <4>4 DEF TargetInv
      <4> QED BY <4>1, <4>2, <4>3, <4>5
    <3>3. CASE ~(o < LastOriginal(stored.original))
      <4>1. reader' = [step |-> "rejected", original |-> o, value |-> v]
        BY <1>2, <2>3, <3>3 DEF TryCandidate, NextScales
      <4>2. ~intact
        <5> SUFFICES ASSUME intact PROVE FALSE
          OBVIOUS
        <5> QED BY <1>5, <1>6, <3>1, <3>3, TargetFacts
      <4> QED BY <1>2, <4>1, <4>2 DEF Reader, CursorInv, TargetInv
    <3> QED BY <3>2, <3>3
  <2> QED BY <2>1, <2>2, <2>3
<1>9. ReplayTypeOK'
  BY <1>1, <1>8 DEF ReplayTypeOK, Fingerprint
<1>10. SearchSucceeds'
  BY <1>1, <1>7, <1>8 DEF SearchSucceeds, IntactIsReadable, SearchIsBounded
<1> QED
  BY <1>3, <1>8, <1>9, <1>10 DEF SearchInv

\* All steps of a reader and of the store keep SearchInv.
LEMMA SearchInvHolds == ReplaySpec => []SearchInv
<1>1. SearchInv /\ [ReplayNext]_replayVars => SearchInv'
  <2> SUFFICES ASSUME SearchInv, [ReplayNext]_replayVars
               PROVE  SearchInv'
    OBVIOUS
  <2>1. CASE UNCHANGED replayVars
    BY <2>1
    DEF replayVars, SearchInv, ReplayTypeOK, StoredInv, IntactInv, CursorInv,
        TargetInv, SearchSucceeds, IntactIsReadable, SearchIsBounded,
        FirstOriginal, FirstValue, WrittenOriginal, WrittenValue, Fingerprint
  <2> QED
    BY <2>1, CorruptKeeps, ReadKeeps, ScanKeeps, TryKeeps DEF ReplayNext
<1> QED BY <1>1, SearchInit, PTL DEF ReplaySpec

\* Types of the written and the stored record and of the reader; the loops stay
\* within their scales.
THEOREM ReplayTypeCorrect == ReplaySpec => []ReplayTypeOK
BY SearchInvHolds, PTL DEF SearchInv

\* from_mapping refuses no record whose numbers and facts the store has kept,
\* whatever scales the publisher sent, the meter gave or the store returns, and it
\* digests no more candidates than docs/decimal-replay.md promises, of records that
\* were changed too.
THEOREM IntactRecordsAreFound == ReplaySpec => []SearchSucceeds
BY SearchInvHolds, PTL DEF SearchInv
===============================================================================
