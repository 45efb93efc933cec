-------------------------- MODULE OracleLedger_proofs --------------------------
(***************************************************************************)
(* The oracle's ledger for any rates, prices and quantities and any number *)
(* of fills: what decimal rounding does to an amount and to the order of   *)
(* two amounts, and what follows for snapshots, for the average price, for *)
(* the PnL of a reduction, and for the double-entry identity.              *)
(***************************************************************************)
EXTENDS OracleLedger, WellFoundedInduction, TLAPS

\* Division with remainder.
LEMMA Division ==
    ASSUME NEW n \in Int, NEW d \in Nat \ {0}
    PROVE  /\ n \div d \in Int /\ n % d \in Int
           /\ n = d * (n \div d) + (n % d)
           /\ 0 <= n % d /\ n % d < d
OBVIOUS

\* q is n/d to the nearest whole number, ties to even.
Nearest(n, d, q) ==
    /\ q \in Int
    /\ 2 * (d * q) - d <= 2 * n /\ 2 * n <= 2 * (d * q) + d
    /\ 2 * n = 2 * (d * q) + d \/ 2 * n = 2 * (d * q) - d => q % 2 = 0

\* HalfEven finds the nearest.
LEMMA HalfEvenIsNearest ==
    ASSUME NEW n \in Int, NEW d \in Nat \ {0}
    PROVE  Nearest(n, d, HalfEven(n, d))
<1>1. PICK q, r : q = n \div d /\ r = n % d
    OBVIOUS
<1>2. q \in Int /\ r \in Int /\ n = d * q + r /\ 0 <= r /\ r < d
    BY <1>1, Division
<1>3. HalfEven(n, d) = IF 2 * r < d \/ (2 * r = d /\ q % 2 = 0) THEN q ELSE q + 1
    BY <1>1 DEF HalfEven
<1>4. d * (q + 1) = d * q + d /\ d * q \in Int
    BY <1>2
<1>5. CASE 2 * r < d \/ (2 * r = d /\ q % 2 = 0)
    <2>1. HalfEven(n, d) = q
        BY <1>3, <1>5
    <2>2. 2 * n = 2 * (d * q) + 2 * r
        BY <1>2, <1>4
    <2>3. Nearest(n, d, q)
        BY <1>2, <1>4, <1>5, <2>2 DEF Nearest
    <2>4. QED
        BY <2>1, <2>3
<1>6. CASE ~(2 * r < d \/ (2 * r = d /\ q % 2 = 0))
    <2>1. HalfEven(n, d) = q + 1
        BY <1>3, <1>6
    <2>2. 2 * n = 2 * (d * (q + 1)) - 2 * d + 2 * r
        BY <1>2, <1>4
    <2>3. 2 * r = d => (q + 1) % 2 = 0
        BY <1>2, <1>6
    <2>4. Nearest(n, d, q + 1)
        BY <1>2, <1>4, <1>6, <2>2, <2>3 DEF Nearest
    <2>5. QED
        BY <2>1, <2>4
<1>7. QED
    BY <1>5, <1>6

\* A greater number of units is never nearest to a smaller number.
LEMMA NearestMonotone ==
    ASSUME NEW n \in Int, NEW m \in Int, NEW d \in Nat \ {0}, NEW p, NEW q,
           Nearest(n, d, p), Nearest(m, d, q), n <= m
    PROVE  p <= q
<1>. SUFFICES ASSUME q < p PROVE FALSE
    BY DEF Nearest
<1>1. PICK k \in Nat : p = q + 1 + k
    <2>1. p - q - 1 \in Nat /\ p = q + 1 + (p - q - 1)
        BY DEF Nearest
    <2>2. QED
        BY <2>1
<1>2. d * p = d * q + d + d * k /\ {d * p, d * q, d * k} \subseteq Int
    BY <1>1 DEF Nearest
<1>3. d * k >= 0 /\ (d * k = 0 => k = 0)
    BY <1>1
<1>4. 2 * n = 2 * (d * p) - d /\ 2 * m = 2 * (d * q) + d /\ d * k = 0
    BY <1>2, <1>3 DEF Nearest
<1>5. p % 2 = 0 /\ q % 2 = 0 /\ k = 0
    BY <1>3, <1>4 DEF Nearest
<1>6. QED
    BY <1>1, <1>5 DEF Nearest

\* There is one nearest number.
LEMMA NearestUnique ==
    ASSUME NEW n \in Int, NEW d \in Nat \ {0}, NEW p, NEW q,
           Nearest(n, d, p), Nearest(n, d, q)
    PROVE  p = q
<1>1. p <= q /\ q <= p
    BY NearestMonotone
<1>2. QED
    BY <1>1 DEF Nearest

\* HalfEven never swaps two quotients.
LEMMA HalfEvenMonotone ==
    ASSUME NEW n \in Int, NEW m \in Int, NEW d \in Nat \ {0}, n <= m
    PROVE  HalfEven(n, d) <= HalfEven(m, d)
BY HalfEvenIsNearest, NearestMonotone

\* HalfEven leaves a whole quotient alone.
LEMMA HalfEvenExact ==
    ASSUME NEW k \in Int, NEW d \in Nat \ {0}
    PROVE  HalfEven(d * k, d) = k
<1>1. d * k \in Int /\ Nearest(d * k, d, k)
    BY DEF Nearest
<1>2. QED
    BY <1>1, HalfEvenIsNearest, NearestUnique

\* HalfEven treats losses like gains.
LEMMA HalfEvenOdd ==
    ASSUME NEW n \in Int, NEW d \in Nat \ {0}
    PROVE  HalfEven(-n, d) = -HalfEven(n, d)
<1>1. PICK q : q = HalfEven(n, d)
    OBVIOUS
<1>2. Nearest(n, d, q)
    BY <1>1, HalfEvenIsNearest
<1>3. d * (-q) = -(d * q) /\ d * q \in Int /\ q \in Int
    BY <1>2 DEF Nearest
<1>4. q % 2 = 0 => (-q) % 2 = 0
    BY <1>3
<1>5. Nearest(-n, d, -q)
    BY <1>2, <1>3, <1>4 DEF Nearest
<1>6. QED
    BY <1>1, <1>5, HalfEvenIsNearest, NearestUnique

\* Dividing numerator and denominator by a common factor changes nothing.
LEMMA HalfEvenCancel ==
    ASSUME NEW n \in Int, NEW d \in Nat \ {0}, NEW c \in Nat \ {0}
    PROVE  HalfEven(c * n, c * d) = HalfEven(n, d)
<1>1. PICK q : q = HalfEven(n, d)
    OBVIOUS
<1>2. Nearest(n, d, q)
    BY <1>1, HalfEvenIsNearest
<1>3. PICK e : e = d * q
    OBVIOUS
<1>4. q \in Int /\ e \in Int
    BY <1>2, <1>3 DEF Nearest
<1>5. (c * d) * q = c * e
    BY <1>3, <1>4
<1>6. c * n \in Int /\ c * d \in Nat \ {0} /\ c * e \in Int
    BY <1>4
<1>7. /\ c * (2 * e - d) <= c * (2 * n) /\ c * (2 * n) <= c * (2 * e + d)
      /\ c * (2 * n) = c * (2 * e + d) => 2 * n = 2 * e + d
      /\ c * (2 * n) = c * (2 * e - d) => 2 * n = 2 * e - d
    BY <1>2, <1>3, <1>4 DEF Nearest
<1>8. /\ c * (2 * e - d) = 2 * (c * e) - c * d
      /\ c * (2 * e + d) = 2 * (c * e) + c * d
      /\ c * (2 * n) = 2 * (c * n)
    BY <1>4
<1>9. Nearest(c * n, c * d, q)
    BY <1>2, <1>3, <1>4, <1>5, <1>6, <1>7, <1>8 DEF Nearest
<1>10. QED
    BY <1>1, <1>6, <1>9, HalfEvenIsNearest, NearestUnique

\* A nonempty set of numbers has a least one.
LEMMA LeastNumber ==
    ASSUME NEW T \in SUBSET Nat, T # {}
    PROVE  \E m \in T : \A k \in T : m <= k
<1>. DEFINE Less == OpToRel(<, Nat)
<1>1. IsWellFoundedOn(Less, Nat)
    BY NatLessThanWellFounded
<1>2. PICK m \in T : \A k \in T : <<k, m>> \notin Less
    BY <1>1, WFMin, Zenon
<1>3. \A k \in Nat : k < m => <<k, m>> \in Less
    BY DEF OpToRel
<1>4. ASSUME NEW k \in T PROVE m <= k
    <2>1. m \in Nat /\ k \in Nat
        OBVIOUS
    <2>2. ~(k < m)
        BY <1>2, <1>3, <2>1, Zenon
    <2>3. QED
        BY <2>1, <2>2
<1>5. QED
    BY <1>4

\* The scales are the powers of ten, and so are the ulps in 1 and the limit of
\* the coefficients, of one digit at least.
DecimalContext ==
    /\ {1, Unit} \subseteq Scales
    /\ \A s \in Scales : 10 * s \in Scales
    /\ \A s \in Scales \ {1} : \E r \in Scales : s = 10 * r
    /\ \E c \in Nat \ {0} : Limit = 10 * c

\* The constants rounding depends on.
LEMMA ContextFacts ==
    /\ Limit \in Nat \ {0} /\ Unit \in Nat \ {0}
    /\ \A s \in Scales : s \in Nat \ {0}
BY LedgerAssumption

\* There is a scale above every number.
LEMMA ScaleAbove ==
    ASSUME DecimalContext, NEW n \in Nat
    PROVE  \E s \in Scales : n < s
<1>. DEFINE Over == {m \in Nat : \A s \in Scales : s <= m}
<1>1. SUFFICES ASSUME n \in Over PROVE FALSE
    BY ContextFacts
<1>2. PICK m \in Over : \A k \in Over : m <= k
    BY <1>1, LeastNumber
<1>3. m # 0
    BY ContextFacts DEF DecimalContext
<1>4. m - 1 \in Nat /\ m - 1 \notin Over
    BY <1>2, <1>3
<1>5. PICK s \in Scales : ~(s <= m - 1)
    BY <1>4
<1>6. 10 * s \in Scales /\ s \in Nat \ {0} /\ 10 * s > m
    BY <1>5, ContextFacts DEF DecimalContext
<1>7. QED
    BY <1>2, <1>6

\* Each scale is a multiple of ten times every finer one.
LEMMA FinerDivides ==
    ASSUME DecimalContext, NEW s \in Scales, NEW t \in Scales, t < s
    PROVE  \E k \in Nat \ {0} : s = 10 * t * k
<1>. DEFINE Bad == {u \in Scales : \E v \in Scales : v < u /\ ~ \E k \in Nat \ {0} : u = 10 * v * k}
<1>1. SUFFICES ASSUME s \in Bad PROVE FALSE
    OBVIOUS
<1>2. PICK u \in Bad : \A x \in Bad : u <= x
    <2>1. Bad \in SUBSET Nat
        BY ContextFacts
    <2>2. QED
        BY <1>1, <2>1, LeastNumber
<1>3. PICK v \in Scales : v < u /\ ~ \E k \in Nat \ {0} : u = 10 * v * k
    OBVIOUS
<1>4. u \in Nat \ {0} /\ v \in Nat \ {0} /\ u # 1
    BY <1>3, ContextFacts
<1>5. PICK r \in Scales : u = 10 * r
    BY <1>4 DEF DecimalContext
<1>6. r \in Nat \ {0} /\ r < u /\ r \notin Bad
    BY <1>2, <1>4, <1>5, ContextFacts
<1>7. CASE v = 1
    BY <1>3, <1>5, <1>6, <1>7
<1>8. CASE v # 1
    <2>1. PICK w \in Scales : v = 10 * w
        BY <1>8 DEF DecimalContext
    <2>2. w \in Nat \ {0} /\ w < r
        BY <1>3, <1>4, <1>5, <1>6, <2>1, ContextFacts
    <2>3. PICK k \in Nat \ {0} : r = 10 * w * k
        BY <1>6, <2>2
    <2>4. 10 * (10 * w * k) = 10 * (10 * w) * k
        BY <2>2, <2>3
    <2>5. u = 10 * v * k
        BY <1>5, <2>1, <2>3, <2>4
    <2>6. QED
        BY <1>3, <2>3, <2>5
<1>9. QED
    BY <1>7, <1>8

\* s is the finest scale on which n/d has a coefficient below Limit.
Finest(n, d, s) ==
    /\ s \in Scales
    /\ Abs(n) < Limit * (d * s)
    /\ \A t \in Scales : Abs(n) < Limit * (d * t) => s <= t

\* a/b is below c before it is cut to a whole number if and only if it is after.
LEMMA DivisionBelow ==
    ASSUME NEW a \in Nat, NEW b \in Nat \ {0}, NEW c \in Nat
    PROVE  a \div b < c <=> a < c * b
<1>1. PICK q, r : q = a \div b /\ r = a % b
    OBVIOUS
<1>2. q \in Int /\ r \in Int /\ a = b * q + r /\ 0 <= r /\ r < b
    BY <1>1, Division
<1>3. CASE q < c
    <2>1. PICK k \in Nat : c = q + 1 + k
        <3>1. c - q - 1 \in Nat /\ c = q + 1 + (c - q - 1)
            BY <1>2, <1>3
        <3>2. QED
            BY <3>1
    <2>2. c * b = b * q + b + b * k /\ b * k >= 0 /\ b * q \in Int /\ b * k \in Int
        BY <1>2, <2>1
    <2>3. QED
        BY <1>1, <1>2, <1>3, <2>2
<1>4. CASE q >= c
    <2>1. PICK k \in Nat : q = c + k
        <3>1. q - c \in Nat /\ q = c + (q - c)
            BY <1>2, <1>4
        <3>2. QED
            BY <3>1
    <2>2. b * q = c * b + b * k /\ b * k >= 0 /\ c * b \in Int /\ b * k \in Int
        BY <2>1
    <2>3. QED
        BY <1>1, <1>2, <1>4, <2>2
<1>5. QED
    BY <1>2, <1>3, <1>4

\* Scale finds the finest scale: there is one.
LEMMA ScaleIsFinest ==
    ASSUME DecimalContext, NEW n \in Int, NEW d \in Nat \ {0}
    PROVE  Finest(n, d, Scale(n, d))
<1>1. Abs(n) \in Nat
    BY DEF Abs
<1>2. \A s \in Scales : d * s \in Nat \ {0} /\ (Abs(n) \div (d * s) < Limit <=> Abs(n) < Limit * (d * s))
    <2>1. TAKE s \in Scales
    <2>2. s \in Nat \ {0} /\ Limit \in Nat
        BY ContextFacts
    <2>3. d * s \in Nat \ {0}
        BY <2>2
    <2>4. QED
        BY <1>1, <2>2, <2>3, DivisionBelow
<1>. DEFINE Below == {s \in Scales : Abs(n) \div (d * s) < Limit}
<1>3. Below # {}
    <2>1. PICK s \in Scales : Abs(n) < s
        BY <1>1, ScaleAbove
    <2>2. s \in Nat /\ s <= d * s
        BY ContextFacts
    <2>3. d * s \in Nat /\ d * s <= Limit * (d * s) /\ Limit * (d * s) \in Nat
        BY <2>2, ContextFacts
    <2>4. Abs(n) < Limit * (d * s)
        BY <1>1, <2>1, <2>2, <2>3
    <2>5. s \in Below
        BY <1>2, <2>4
    <2>6. QED
        BY <2>5
<1>4. PICK s \in Below : \A t \in Below : s <= t
    <2>1. Below \in SUBSET Nat
        BY ContextFacts
    <2>2. QED
        BY <1>3, <2>1, LeastNumber
<1>5. \E x \in Scales : /\ Abs(n) \div (d * x) < Limit
                        /\ \A t \in Scales : Abs(n) \div (d * t) < Limit => x <= t
    BY <1>4
<1>6. /\ Scale(n, d) \in Scales
      /\ Abs(n) \div (d * Scale(n, d)) < Limit
      /\ \A t \in Scales : Abs(n) \div (d * t) < Limit => Scale(n, d) <= t
    BY <1>5 DEF Scale
<1>7. QED
    BY <1>2, <1>6 DEF Finest

\* And only one.
LEMMA FinestUnique ==
    ASSUME NEW n, NEW d, NEW s, NEW t, Finest(n, d, s), Finest(n, d, t)
    PROVE  s = t
<1>1. s <= t /\ t <= s /\ s \in Nat /\ t \in Nat
    BY ContextFacts DEF Finest
<1>2. QED
    BY <1>1

\* What rounding makes of n/d, on its finest scale s.
LEMMA RoundedOn ==
    ASSUME DecimalContext, NEW n \in Int, NEW d \in Nat \ {0}, NEW s, Finest(n, d, s)
    PROVE  /\ Rounded(n, d) = s * HalfEven(n, d * s)
           /\ s \in Nat \ {0} /\ d * s \in Nat \ {0}
           /\ HalfEven(n, d * s) \in Int /\ Rounded(n, d) \in Int
<1>1. Scale(n, d) = s
    BY ScaleIsFinest, FinestUnique
<1>2. Rounded(n, d) = s * HalfEven(n, d * s)
    BY <1>1 DEF Rounded
<1>3. s \in Nat \ {0}
    BY ContextFacts DEF Finest
<1>4. d * s \in Nat \ {0}
    BY <1>3
<1>5. HalfEven(n, d * s) \in Int
    BY <1>4, HalfEvenIsNearest DEF Nearest
<1>6. QED
    BY <1>2, <1>3, <1>4, <1>5

\* Rounding a number of units gives a number of units.
LEMMA RoundedInt ==
    ASSUME DecimalContext, NEW n \in Int, NEW d \in Nat \ {0}
    PROVE  Rounded(n, d) \in Int
BY ScaleIsFinest, RoundedOn

\* Rounding treats losses like gains.
LEMMA RoundedOdd ==
    ASSUME DecimalContext, NEW n \in Int, NEW d \in Nat \ {0}
    PROVE  Rounded(-n, d) = -Rounded(n, d)
<1>1. PICK s : Finest(n, d, s)
    BY ScaleIsFinest
<1>2. Abs(-n) = Abs(n) /\ -n \in Int
    BY DEF Abs
<1>3. Finest(-n, d, s)
    BY <1>1, <1>2 DEF Finest
<1>4. /\ Rounded(n, d) = s * HalfEven(n, d * s)
      /\ s \in Nat \ {0} /\ d * s \in Nat \ {0} /\ HalfEven(n, d * s) \in Int
    BY <1>1, RoundedOn
<1>5. Rounded(-n, d) = s * HalfEven(-n, d * s)
    BY <1>2, <1>3, RoundedOn
<1>6. HalfEven(-n, d * s) = -HalfEven(n, d * s)
    BY <1>4, HalfEvenOdd
<1>7. QED
    BY <1>4, <1>5, <1>6

\* A multiple of a scale whose coefficient is below the limit is not rounded.
LEMMA MultipleExact ==
    ASSUME DecimalContext, NEW u \in Scales, NEW e \in Int, Abs(e) < Limit
    PROVE  Rounded(u * e, 1) = u * e
<1>1. u \in Nat \ {0} /\ u * e \in Int /\ Limit \in Nat
    BY ContextFacts
<1>2. PICK t : Finest(u * e, 1, t)
    BY <1>1, ScaleIsFinest
<1>3. /\ Rounded(u * e, 1) = t * HalfEven(u * e, 1 * t)
      /\ t \in Scales /\ t \in Nat \ {0}
    BY <1>1, <1>2, RoundedOn DEF Finest
<1>4. Abs(u * e) < Limit * (1 * u)
    <2>1. Abs(u * e) = u * Abs(e) /\ Abs(e) \in Nat
        <3>1. CASE e >= 0
            BY <1>1, <3>1 DEF Abs
        <3>2. CASE e < 0
            <4>1. u * e < 0 /\ -(u * e) = u * (-e)
                BY <1>1, <3>2
            <4>2. QED
                BY <3>2, <4>1 DEF Abs
        <3>3. QED
            BY <3>1, <3>2
    <2>2. u * Abs(e) < u * Limit
        BY <1>1, <2>1
    <2>3. QED
        BY <1>1, <2>1, <2>2
<1>5. t <= u
    BY <1>2, <1>4 DEF Finest
<1>6. PICK k \in Nat : u = t * k
    <2>1. CASE t = u
        BY <1>3, <2>1
    <2>2. CASE t < u
        <3>1. PICK k \in Nat \ {0} : u = 10 * t * k
            BY <1>3, <2>2, FinerDivides
        <3>2. u = t * (10 * k) /\ 10 * k \in Nat
            BY <1>3, <3>1
        <3>3. QED
            BY <3>2
    <2>3. QED
        BY <1>1, <1>3, <1>5, <2>1, <2>2
<1>7. u * e = t * (k * e) /\ k * e \in Int /\ 1 * t = t
    BY <1>3, <1>6
<1>8. HalfEven(t * (k * e), t) = k * e
    BY <1>3, <1>7, HalfEvenExact
<1>9. QED
    BY <1>3, <1>7, <1>8

\* A number that has a coefficient below the limit, on some scale.
Exact(n) == n \in Int /\ Rounded(n, 1) = n

\* Nothing stays nothing.
LEMMA RoundedZero ==
    ASSUME DecimalContext, NEW d \in Nat \ {0}
    PROVE  Rounded(0, d) = 0
<1>1. PICK z \in Int : z = 0 /\ -z = z
    OBVIOUS
<1>2. Rounded(-z, d) = -Rounded(z, d) /\ Rounded(z, d) \in Int
    BY RoundedOdd, RoundedInt
<1>3. Rounded(z, d) = -Rounded(z, d)
    BY <1>1, <1>2
<1>4. QED
    BY <1>1, <1>2, <1>3

\* A result that is not negative lies between zero and the limit on its scale.
LEMMA Coefficient ==
    ASSUME DecimalContext, NEW n \in Nat, NEW d \in Nat \ {0}, NEW s, Finest(n, d, s)
    PROVE  0 <= HalfEven(n, d * s) /\ HalfEven(n, d * s) <= Limit
<1>1. s \in Nat \ {0} /\ d * s \in Nat \ {0} /\ Limit \in Nat /\ Limit * (d * s) = (d * s) * Limit
    BY ContextFacts, RoundedOn
<1>2. n <= (d * s) * Limit /\ (d * s) * Limit \in Int /\ (d * s) * 0 = 0
    BY <1>1 DEF Finest, Abs
<1>3. HalfEven(n, d * s) <= HalfEven((d * s) * Limit, d * s)
    BY <1>1, <1>2, HalfEvenMonotone
<1>4. HalfEven((d * s) * Limit, d * s) = Limit
    BY <1>1, HalfEvenExact
<1>5. HalfEven((d * s) * 0, d * s) <= HalfEven(n, d * s)
    BY <1>1, <1>2, HalfEvenMonotone
<1>6. HalfEven((d * s) * 0, d * s) = 0
    BY <1>1, HalfEvenExact
<1>7. QED
    BY <1>3, <1>4, <1>5, <1>6

\* What has been rounded is not rounded again: amounts that are not negative.
LEMMA RoundedNatExact ==
    ASSUME DecimalContext, NEW n \in Nat, NEW d \in Nat \ {0}
    PROVE  Exact(Rounded(n, d))
<1>1. PICK s : Finest(n, d, s)
    BY ScaleIsFinest
<1>2. PICK c : c = HalfEven(n, d * s)
    OBVIOUS
<1>3. /\ Rounded(n, d) = s * c /\ s \in Scales /\ s \in Nat \ {0}
      /\ c \in Int /\ 0 <= c /\ c <= Limit /\ Limit \in Nat \ {0}
    BY <1>1, <1>2, RoundedOn, Coefficient, ContextFacts DEF Finest
<1>4. CASE c < Limit
    <2>1. Abs(c) < Limit /\ s * c \in Int
        BY <1>3, <1>4 DEF Abs
    <2>2. QED
        BY <1>3, <2>1, MultipleExact DEF Exact
<1>5. CASE c = Limit
    <2>1. PICK e \in Nat \ {0} : Limit = 10 * e
        BY DEF DecimalContext
    <2>2. 10 * s \in Scales /\ s * c = (10 * s) * e /\ Abs(e) < Limit /\ s * c \in Int
        BY <1>3, <1>5, <2>1 DEF DecimalContext, Abs
    <2>3. QED
        BY <1>3, <2>2, MultipleExact DEF Exact
<1>6. QED
    BY <1>3, <1>4, <1>5

\* What has been rounded is not rounded again.
LEMMA RoundedExact ==
    ASSUME DecimalContext, NEW n \in Int, NEW d \in Nat \ {0}
    PROVE  Exact(Rounded(n, d))
<1>1. CASE n \in Nat
    BY <1>1, RoundedNatExact
<1>2. CASE n \notin Nat
    <2>1. -n \in Nat /\ -(-n) = n
        BY <1>2
    <2>2. Exact(Rounded(-n, d))
        BY <2>1, RoundedNatExact
    <2>3. Rounded(n, d) = -Rounded(-n, d)
        BY <2>1, RoundedOdd
    <2>4. Rounded(-Rounded(-n, d), 1) = -Rounded(Rounded(-n, d), 1)
        BY <2>2, RoundedOdd DEF Exact
    <2>5. QED
        BY <2>2, <2>3, <2>4 DEF Exact
<1>3. QED
    BY <1>1, <1>2

\* Rounding never swaps two amounts: ones that are not negative.  A result on a
\* coarser scale is at least the limit on the finer one.
LEMMA RoundedNatMonotone ==
    ASSUME DecimalContext, NEW n \in Nat, NEW m \in Nat, NEW d \in Nat \ {0}, n <= m
    PROVE  Rounded(n, d) <= Rounded(m, d) /\ 0 <= Rounded(n, d)
<1>1. PICK s, t : Finest(n, d, s) /\ Finest(m, d, t)
    BY ScaleIsFinest
<1>2. PICK p, q : p = HalfEven(n, d * s) /\ q = HalfEven(m, d * t)
    OBVIOUS
<1>3. /\ Rounded(n, d) = s * p /\ s \in Scales /\ s \in Nat \ {0}
      /\ d * s \in Nat \ {0} /\ p \in Int /\ 0 <= p /\ p <= Limit
      /\ Rounded(m, d) = t * q /\ t \in Scales /\ t \in Nat \ {0}
      /\ d * t \in Nat \ {0} /\ q \in Int /\ 0 <= q /\ q <= Limit
      /\ Limit \in Nat \ {0}
    BY <1>1, <1>2, RoundedOn, Coefficient, ContextFacts DEF Finest
<1>4. 0 <= s * p
    BY <1>3
<1>5. s <= t
    <2>1. m < Limit * (d * t) /\ Limit * (d * t) \in Int
        BY <1>1, <1>3 DEF Finest, Abs
    <2>2. n < Limit * (d * t)
        BY <2>1
    <2>3. QED
        BY <1>1, <1>3, <2>2 DEF Finest, Abs
<1>6. CASE s = t
    <2>1. p <= q
        BY <1>2, <1>3, <1>6, HalfEvenMonotone
    <2>2. QED
        BY <1>3, <1>4, <1>6, <2>1
<1>7. CASE s < t
    <2>1. PICK k \in Nat \ {0} : t = 10 * s * k
        BY <1>3, <1>7, FinerDivides
    <2>2. PICK r \in Scales : t = 10 * r
        BY <1>3, <1>7 DEF DecimalContext
    <2>3. r \in Nat \ {0} /\ r = s * k /\ s <= r /\ r < t
        BY <1>3, <2>1, <2>2, ContextFacts
    <2>4. PICK e \in Nat \ {0} : Limit = 10 * e
        BY DEF DecimalContext
    <2>5. ~(m < Limit * (d * r))
        BY <1>1, <1>3, <2>3 DEF Finest, Abs
    <2>6. Limit * (d * r) = (d * t) * e
        <3>1. Limit * (d * r) = 10 * (e * (d * r)) /\ (d * t) * e = 10 * (e * (d * r))
            BY <2>2, <2>3, <2>4
        <3>2. QED
            BY <3>1
    <2>7. (d * t) * e <= m /\ (d * t) * e \in Int
        BY <1>3, <2>4, <2>5, <2>6
    <2>8. HalfEven((d * t) * e, d * t) <= q
        BY <1>2, <1>3, <2>7, HalfEvenMonotone
    <2>9. e <= q
        <3>1. HalfEven((d * t) * e, d * t) = e
            BY <1>3, <2>4, HalfEvenExact
        <3>2. QED
            BY <2>8, <3>1
    <2>10. t * e <= t * q
        BY <1>3, <2>4, <2>9
    <2>11. t * e = r * Limit /\ s * Limit <= r * Limit /\ s * p <= s * Limit
        BY <1>3, <2>2, <2>3, <2>4
    <2>12. {t * e, t * q, r * Limit, s * Limit, s * p} \subseteq Int
        BY <1>3, <2>3, <2>4
    <2>13. QED
        BY <1>3, <1>4, <2>10, <2>11, <2>12
<1>8. QED
    BY <1>3, <1>5, <1>6, <1>7

\* Rounding never swaps two amounts.
LEMMA RoundedMonotone ==
    ASSUME DecimalContext, NEW n \in Int, NEW m \in Int, NEW d \in Nat \ {0}, n <= m
    PROVE  Rounded(n, d) <= Rounded(m, d)
<1>1. CASE n \in Nat
    BY <1>1, RoundedNatMonotone
<1>2. CASE n \notin Nat /\ m \in Nat
    <2>1. -n \in Nat /\ -(-n) = n
        BY <1>2
    <2>2. 0 <= Rounded(-n, d) /\ 0 <= Rounded(m, d)
        BY <1>2, <2>1, RoundedNatMonotone
    <2>3. Rounded(n, d) = -Rounded(-n, d) /\ Rounded(-n, d) \in Int /\ Rounded(m, d) \in Int
        BY <2>1, RoundedOdd, RoundedInt
    <2>4. QED
        BY <2>2, <2>3
<1>3. CASE m \notin Nat
    <2>1. -n \in Nat /\ -m \in Nat /\ -m <= -n /\ -(-n) = n /\ -(-m) = m
        BY <1>3
    <2>2. Rounded(-m, d) <= Rounded(-n, d)
        BY <2>1, RoundedNatMonotone
    <2>3. /\ Rounded(n, d) = -Rounded(-n, d) /\ Rounded(-n, d) \in Int
          /\ Rounded(m, d) = -Rounded(-m, d) /\ Rounded(-m, d) \in Int
        BY <2>1, RoundedOdd, RoundedInt
    <2>4. QED
        BY <2>2, <2>3
<1>4. QED
    BY <1>1, <1>2, <1>3

\* Dividing d times an exact number by d gives it back.
LEMMA QuotientExact ==
    ASSUME DecimalContext, NEW k, Exact(k), NEW d \in Nat \ {0}
    PROVE  Rounded(d * k, d) = k
<1>1. k \in Int /\ Rounded(k, 1) = k /\ d * k \in Int
    BY DEF Exact
<1>2. PICK s : Finest(k, 1, s)
    BY <1>1, ScaleIsFinest
<1>3. s \in Nat \ {0} /\ k = s * HalfEven(k, 1 * s) /\ Limit \in Nat /\ 1 * s = s
    BY <1>1, <1>2, RoundedOn, ContextFacts
<1>4. Abs(d * k) = d * Abs(k) /\ Abs(k) \in Nat
    <2>1. CASE k >= 0
        BY <1>1, <2>1 DEF Abs
    <2>2. CASE k < 0
        <3>1. d * k < 0
            BY <1>1, <2>2
        <3>2. Abs(d * k) = -(d * k) /\ Abs(k) = -k /\ -k \in Nat
            BY <1>1, <2>2, <3>1 DEF Abs
        <3>3. d * (-k) = -(d * k)
            BY <1>1
        <3>4. QED
            BY <3>2, <3>3
    <2>3. QED
        BY <1>1, <2>1, <2>2
<1>5. ASSUME NEW t \in Scales
      PROVE  Abs(d * k) < Limit * (d * t) <=> Abs(k) < Limit * (1 * t)
    <2>1. t \in Nat \ {0}
        BY ContextFacts
    <2>2. PICK a, b : a = Abs(k) /\ b = Limit * t
        OBVIOUS
    <2>3. a \in Nat /\ b \in Nat
        BY <1>3, <1>4, <2>1, <2>2
    <2>4. Limit * (d * t) = d * b /\ Limit * (1 * t) = b
        BY <1>3, <2>1, <2>2
    <2>5. d * a < d * b <=> a < b
        BY <2>3
    <2>6. QED
        BY <1>4, <2>2, <2>4, <2>5
<1>6. Finest(d * k, d, s)
    BY <1>2, <1>5 DEF Finest
<1>7. Rounded(d * k, d) = s * HalfEven(d * k, d * s)
    BY <1>1, <1>6, RoundedOn
<1>8. HalfEven(d * k, d * s) = HalfEven(k, s)
    BY <1>1, <1>3, HalfEvenCancel
<1>9. QED
    BY <1>3, <1>7, <1>8

Sides == {"BUY", "SELL"}

\* The facts of the constants, and of a fill, that the arithmetic below uses.
LEMMA FillFacts ==
    ASSUME NEW side \in Sides, NEW price \in Prices, NEW qty \in Quantities
    PROVE  /\ price \in Int /\ qty \in Nat \ {0} /\ Unit \in Nat \ {0}
           /\ Signed(side, qty) \in Int /\ Signed(side, qty) # 0
BY LedgerAssumption DEF Signed, Sides

\* And of the caller's configuration.
LEMMA ConfigFacts ==
    ASSUME config \in Configs
    PROVE  {config.starting_cash, config.fee_rate, config.margin_rate} \subseteq Int
BY LedgerAssumption

\* Rounding keeps the sign of an amount, or makes it zero.
LEMMA RoundedSign ==
    ASSUME DecimalContext, NEW n \in Int, NEW d \in Nat \ {0}
    PROVE  /\ Rounded(n, d) \in Int
           /\ n >= 0 => Rounded(n, d) >= 0
           /\ n <= 0 => Rounded(n, d) <= 0
<1>1. Rounded(n, d) \in Int /\ Rounded(0, d) = 0
    BY RoundedInt, RoundedZero
<1>2. ASSUME n >= 0 PROVE Rounded(n, d) >= 0
    <2>1. Rounded(0, d) <= Rounded(n, d)
        BY <1>2, RoundedMonotone
    <2>2. QED
        BY <1>1, <2>1
<1>3. ASSUME n <= 0 PROVE Rounded(n, d) <= 0
    <2>1. Rounded(n, d) <= Rounded(0, d)
        BY <1>3, RoundedMonotone
    <2>2. QED
        BY <1>1, <2>1
<1>4. QED
    BY <1>1, <1>2, <1>3

\* A negative rate shows in every amount it is applied to: rounding does not
\* hide it.
LEMMA NegativeRateShows ==
    ASSUME DecimalContext, NEW k \in Nat \ {0}, NEW rate \in Int, rate < 0
    PROVE  Rounded(Rounded(k * Unit, 1) * rate, Unit) < 0
<1>1. Unit \in Nat \ {0} /\ Unit \in Scales /\ 1 \in Scales /\ Limit \in Nat /\ Abs(1) < Limit
    BY ContextFacts DEF DecimalContext, Abs
<1>2. Exact(Unit) /\ Exact(1)
    <2>1. Unit * 1 = Unit /\ 1 * 1 = 1
        BY <1>1
    <2>2. Rounded(Unit * 1, 1) = Unit * 1 /\ Rounded(1 * 1, 1) = 1 * 1
        BY <1>1, MultipleExact
    <2>3. QED
        BY <1>1, <2>1, <2>2 DEF Exact
<1>3. PICK amount : amount = Rounded(k * Unit, 1)
    OBVIOUS
<1>4. amount \in Int /\ Unit <= amount
    <2>1. k * Unit \in Int /\ Unit \in Int /\ Unit <= k * Unit /\ 1 \in Nat \ {0}
        BY <1>1
    <2>2. Rounded(Unit, 1) <= Rounded(k * Unit, 1)
        BY <2>1, RoundedMonotone
    <2>3. Rounded(k * Unit, 1) \in Int
        BY <2>1, RoundedInt
    <2>4. QED
        BY <1>2, <1>3, <2>2, <2>3 DEF Exact
<1>5. amount * rate \in Int /\ -Unit \in Int /\ amount * rate <= -Unit
    <2>1. PICK a \in Nat, b \in Nat : amount = Unit + a /\ rate = -1 - b
        <3>1. /\ amount - Unit \in Nat /\ amount = Unit + (amount - Unit)
              /\ -1 - rate \in Nat /\ rate = -1 - (-1 - rate)
            BY <1>1, <1>4
        <3>2. QED
            BY <3>1
    <2>2. amount * rate = -Unit - a - (Unit + a) * b /\ (Unit + a) * b \in Nat
        BY <1>1, <2>1
    <2>3. QED
        BY <1>1, <2>1, <2>2
<1>6. Rounded(amount * rate, Unit) <= Rounded(-Unit, Unit)
    BY <1>1, <1>5, RoundedMonotone
<1>7. Rounded(-Unit, Unit) = -1
    <2>1. Rounded(Unit * 1, Unit) = 1 /\ Unit * 1 = Unit
        BY <1>1, <1>2, QuotientExact
    <2>2. Rounded(-Unit, Unit) = -Rounded(Unit, Unit)
        BY <1>1, RoundedOdd
    <2>3. QED
        BY <2>1, <2>2
<1>8. QED
    BY <1>1, <1>3, <1>5, <1>6, <1>7, RoundedInt

------------------------------------------------------------------------------
\* Until a fill is refused the ledger's amounts are whole ulps and an accepted
\* fill, the first of which opened a position, has shown the rates to be sound;
\* realized PnL, a result of rounding, is not rounded by adding nothing.
Priced ==
    /\ config \in Configs
    /\ refused = 0 =>
          /\ {cash, position_qty} \subseteq Int /\ {avg_price, fill_seq} \subseteq Nat
          /\ Exact(realized_pnl)
          /\ IF fill_seq = 0 THEN position_qty = 0
             ELSE config.fee_rate >= 0 /\ config.margin_rate >= 0
    /\ RefusedForCause

\* A ledger that has booked nothing.
LEMMA PricedInit == DecimalContext /\ Init => Priced
<1>. SUFFICES ASSUME DecimalContext, Init PROVE Priced
    OBVIOUS
<1>1. config.starting_cash \in Int /\ Rounded(0, 1) = 0
    BY ConfigFacts, RoundedZero DEF Init
<1>2. QED
    BY <1>1 DEF Init, Priced, Exact, RefusedForCause

\* The amounts a fill moves.
LEMMA FlowInt ==
    ASSUME DecimalContext, config \in Configs,
           NEW side \in Sides, NEW price \in Prices, NEW qty \in Quantities
    PROVE  /\ {Notional(price, qty), Fee(price, qty), Flow(side, price, qty)} \subseteq Int
           /\ price > 0 => Notional(price, qty) >= 0
           /\ price > 0 => (Fee(price, qty) >= 0 <=> config.fee_rate >= 0)
<1>1. /\ price * qty * Unit \in Int /\ config.fee_rate \in Int /\ Unit \in Nat \ {0}
      /\ price \in Int /\ qty \in Nat \ {0}
      /\ price > 0 => price * qty * Unit >= 0
    BY FillFacts, ConfigFacts
<1>2. Notional(price, qty) \in Int /\ (price > 0 => Notional(price, qty) >= 0)
    BY <1>1, RoundedSign DEF Notional
<1>3. Notional(price, qty) * config.fee_rate \in Int
    BY <1>1, <1>2
<1>4. Fee(price, qty) \in Int
    BY <1>1, <1>3, RoundedSign DEF Fee
<1>5. /\ -Notional(price, qty) - Fee(price, qty) \in Int
      /\ Notional(price, qty) - Fee(price, qty) \in Int
    BY <1>2, <1>4
<1>6. Flow(side, price, qty) \in Int
    BY <1>5, RoundedInt DEF Flow
<1>7. ASSUME price > 0 PROVE Fee(price, qty) >= 0 <=> config.fee_rate >= 0
    <2>1. CASE config.fee_rate >= 0
        <3>1. Notional(price, qty) * config.fee_rate >= 0
            BY <1>1, <1>2, <1>7, <2>1
        <3>2. QED
            BY <1>1, <1>3, <2>1, <3>1, RoundedSign DEF Fee
    <2>2. CASE config.fee_rate < 0
        <3>1. price * qty \in Nat \ {0}
            BY <1>1, <1>7
        <3>2. Rounded(Rounded(price * qty * Unit, 1) * config.fee_rate, Unit) < 0
            BY <1>1, <2>2, <3>1, NegativeRateShows
        <3>3. QED
            BY <1>1, <1>4, <2>2, <3>2 DEF Fee, Notional
    <2>3. QED
        BY <1>1, <2>1, <2>2
<1>8. QED
    BY <1>2, <1>4, <1>6, <1>7

\* Every snapshot of such amounts is valid, unless the margin rate is negative,
\* which shows as soon as there is a position.
LEMMA SnapshotValid ==
    ASSUME DecimalContext, config \in Configs,
           NEW c \in Int, NEW qty \in Int, NEW avg \in Nat, NEW realized, NEW last \in Nat \ {0}
    PROVE  /\ config.margin_rate >= 0 => ValidSnapshot(SnapshotOf(c, qty, avg, realized, last))
           /\ ValidSnapshot(SnapshotOf(c, qty, avg, realized, last)) /\ qty # 0
                 => config.margin_rate >= 0
<1>1. /\ Abs(qty) \in Nat /\ Unit \in Nat \ {0} /\ config.margin_rate \in Int
      /\ qty # 0 => Abs(qty) # 0
    BY ContextFacts, ConfigFacts DEF Abs
<1>2. Abs(qty) * last \in Nat /\ Abs(qty) * last * Unit \in Nat
    BY <1>1
<1>3. Rounded(Abs(qty) * last * Unit, 1) \in Nat
    BY <1>2, RoundedSign
<1>4. Rounded(Abs(qty) * last * Unit, 1) * config.margin_rate \in Int
    BY <1>1, <1>3
<1>5. UsedMargin(qty, last) \in Int
    BY <1>1, <1>4, RoundedSign DEF UsedMargin
<1>6. c - UsedMargin(qty, last) \in Int
    BY <1>5
<1>7. Rounded(c - UsedMargin(qty, last), 1) \in Int
    BY <1>6, RoundedInt
<1>8. Available(c, UsedMargin(qty, last)) >= 0
    BY <1>7 DEF Available
<1>9. ASSUME config.margin_rate >= 0 PROVE UsedMargin(qty, last) >= 0
    <2>1. Rounded(Abs(qty) * last * Unit, 1) * config.margin_rate >= 0
        BY <1>1, <1>3, <1>9
    <2>2. QED
        BY <1>1, <1>4, <2>1, RoundedSign DEF UsedMargin
<1>10. ASSUME config.margin_rate < 0, qty # 0 PROVE UsedMargin(qty, last) < 0
    <2>1. Abs(qty) * last \in Nat \ {0}
        BY <1>1, <1>10
    <2>2. QED
        BY <1>1, <1>10, <2>1, NegativeRateShows DEF UsedMargin
<1>11. QED
    BY <1>1, <1>5, <1>8, <1>9, <1>10 DEF SnapshotOf, ValidSnapshot

\* What a fill makes of the position.
LEMMA PositionAfter ==
    ASSUME DecimalContext, Priced, refused = 0,
           NEW side \in Sides, NEW price \in Prices, NEW qty \in Quantities, price > 0,
           Book(side, price, qty)
    PROVE  /\ position_qty' = position_qty + Signed(side, qty)
           /\ position_qty' \in Int /\ cash' \in Int /\ avg_price' \in Nat
           /\ Exact(realized_pnl') /\ last_price' = price
<1>. DEFINE delta == Signed(side, qty)
<1>1. /\ price \in Nat \ {0} /\ Unit \in Nat \ {0} /\ price * Unit \in Nat
      /\ delta \in Int /\ delta # 0 /\ Abs(delta) = qty
      /\ qty \in Nat \ {0}
    BY FillFacts DEF Abs, Signed, Sides
<1>. HIDE DEF delta
<1>2. position_qty \in Int /\ avg_price \in Nat /\ cash \in Int /\ Exact(realized_pnl)
    BY DEF Priced
<1>3. ApplyPositionDelta(price, delta) /\ last_price' = price
      /\ cash' = Rounded(cash + Flow(side, price, qty), 1)
    BY DEF Book, delta
<1>4. position_qty' = position_qty + delta /\ position_qty' \in Int
    BY <1>1, <1>2, <1>3 DEF ApplyPositionDelta
<1>5. cash' \in Int
    <2>1. cash + Flow(side, price, qty) \in Int
        BY <1>2, FlowInt DEF Priced
    <2>2. QED
        BY <1>3, <2>1, RoundedInt
<1>6. avg_price' \in Nat
    <2>1. CASE Extends(delta) /\ position_qty # 0
        <3>1. avg_price' = Rounded(Cost(price, qty), Abs(position_qty'))
            BY <1>1, <1>3, <2>1 DEF ApplyPositionDelta
        <3>2. Abs(position_qty') \in Nat \ {0} /\ avg_price * Abs(position_qty) \in Nat
            <4>1. Abs(position_qty') \in Nat \ {0} /\ Abs(position_qty) \in Nat
                BY <1>1, <1>2, <1>4, <2>1 DEF Extends, Abs
            <4>2. QED
                BY <1>2, <4>1
        <3>3. Rounded(avg_price * Abs(position_qty), 1) \in Nat
            BY <3>2, RoundedSign
        <3>4. Rounded(avg_price * Abs(position_qty), 1) + Notional(price, qty) \in Nat
            BY <3>3, FlowInt DEF Priced
        <3>5. Cost(price, qty) \in Nat
            BY <3>4, RoundedSign DEF Cost
        <3>6. QED
            BY <3>1, <3>2, <3>5, RoundedSign
    <2>2. CASE ~(Extends(delta) /\ position_qty # 0)
        BY <1>1, <1>2, <1>3, <2>2 DEF ApplyPositionDelta
    <2>3. QED
        BY <2>1, <2>2
<1>7. Exact(realized_pnl')
    <2>1. CASE Extends(delta)
        BY <1>2, <1>3, <2>1 DEF ApplyPositionDelta, Exact
    <2>2. CASE ~Extends(delta)
        <3>1. price * Unit - avg_price \in Int /\ Closing(delta) \in Int /\ Direction \in Int
            BY <1>1, <1>2 DEF Closing, Direction, Abs
        <3>2. Gain(price) \in Int
            BY <3>1, RoundedInt DEF Gain
        <3>3. Gain(price) * Closing(delta) \in Int
            BY <3>1, <3>2
        <3>4. Rounded(Gain(price) * Closing(delta), 1) * Direction \in Int
            BY <3>1, <3>3, RoundedInt
        <3>5. realized_pnl + Rounded(Gain(price) * Closing(delta), 1) * Direction \in Int
            BY <1>2, <3>4 DEF Exact
        <3>6. QED
            BY <1>3, <2>2, <3>5, RoundedExact DEF ApplyPositionDelta
    <2>3. QED
        BY <2>1, <2>2
<1>8. QED
    BY <1>3, <1>4, <1>5, <1>6, <1>7 DEF delta

\* Every fill.
LEMMA PricedStep == DecimalContext /\ Priced /\ [Next]_vars => Priced'
<1>. SUFFICES ASSUME DecimalContext, Priced, [Next]_vars PROVE Priced'
    OBVIOUS
<1>1. ASSUME refused = 0,
             NEW side \in Sides, NEW price \in Prices, NEW qty \in Quantities,
             Trade(side, price, qty)
      PROVE  Priced'
    <2>1. /\ price \in Int /\ Signed(side, qty) \in Int /\ Signed(side, qty) # 0
          /\ config \in Configs /\ fill_seq \in Nat /\ last_price' = price
          /\ config' = config /\ {config.fee_rate, config.margin_rate} \subseteq Int
        <3>1. Book(side, price, qty) /\ config' = config
            BY <1>1 DEF Trade, ExecuteFill, RefuseFill, RefuseSnapshot, Refuse
        <3>2. QED
            BY <1>1, <3>1, FillFacts, ConfigFacts DEF Priced, Book
    <2>2. /\ fill_seq = 0 => position_qty = 0
          /\ fill_seq # 0 => config.fee_rate >= 0 /\ config.margin_rate >= 0
        BY <1>1 DEF Priced
    <2>3. CASE ValidFill(price, qty)
        <3>1. /\ price > 0 /\ price \in Nat \ {0} /\ config.fee_rate >= 0
              /\ Book(side, price, qty) /\ fill_seq' = fill_seq + 1
            BY <1>1, <2>1, <2>3, FlowInt
               DEF Trade, ExecuteFill, RefuseFill, RefuseSnapshot, Refuse, ValidFill
        <3>2. /\ position_qty' = position_qty + Signed(side, qty)
              /\ position_qty' \in Int /\ cash' \in Int /\ avg_price' \in Nat
              /\ Exact(realized_pnl')
            BY <1>1, <3>1, PositionAfter
        <3>3. PICK s : s = SnapshotOf(cash', position_qty', avg_price', realized_pnl', last_price')
            OBVIOUS
        <3>4. /\ config.margin_rate >= 0 => ValidSnapshot(s)
              /\ ValidSnapshot(s) /\ position_qty' # 0 => config.margin_rate >= 0
            BY <2>1, <3>1, <3>2, <3>3, SnapshotValid
        <3>5. CASE ExecuteFill(side, price, qty)
            <4>1. refused' = 0 /\ ValidSnapshot(s)
                BY <1>1, <3>3, <3>5 DEF ExecuteFill
            <4>2. config.margin_rate >= 0
                BY <2>1, <2>2, <3>2, <3>4, <4>1
            <4>3. QED
                BY <2>1, <3>1, <3>2, <4>1, <4>2 DEF Priced, RefusedForCause, Exact
        <3>6. CASE RefuseSnapshot(side, price, qty)
            <4>1. refused' # 0 /\ ~ValidSnapshot(s)
                BY <2>1, <3>3, <3>6 DEF RefuseSnapshot, Refuse
            <4>2. config.margin_rate < 0 /\ fill_seq = 0
                BY <2>1, <2>2, <3>4, <4>1
            <4>3. QED
                BY <2>1, <3>1, <4>1, <4>2 DEF Priced, RefusedForCause
        <3>7. QED
            BY <1>1, <2>3, <3>5, <3>6 DEF Trade, RefuseFill
    <2>4. CASE ~ValidFill(price, qty)
        <3>1. refused' # 0 /\ fill_seq' = fill_seq
            BY <1>1, <2>1, <2>4 DEF Trade, ExecuteFill, RefuseSnapshot, RefuseFill, Refuse
        <3>2. price <= 0 \/ config.fee_rate < 0
            BY <2>1, <2>4, FlowInt DEF ValidFill
        <3>3. price <= 0 \/ (config.fee_rate < 0 /\ fill_seq = 0)
            BY <2>1, <2>2, <3>2
        <3>4. QED
            BY <2>1, <3>1, <3>3 DEF Priced, RefusedForCause
    <2>5. QED
        BY <2>3, <2>4
<1>2. CASE UNCHANGED vars
    BY <1>2 DEF vars, Priced, RefusedForCause, Exact
<1>3. QED
    BY <1>1, <1>2 DEF Next, Sides

------------------------------------------------------------------------------
\* The notional value of Capacity units and less, at any price, is exact: it
\* has no more significant digits than the context keeps.
NotionalsFit(Capacity) ==
    \A price \in Prices, qty \in Nat : qty <= Capacity => Exact(price * qty * Unit)

\* A lot of m at price p added to n units held at a, which is at least l: the new
\* average, rounded four times over, is at least l.
LEMMA AverageAbove ==
    ASSUME DecimalContext, NEW Capacity \in Nat, NotionalsFit(Capacity),
           NEW l \in Prices, NEW p \in Prices, l > 0, NEW a \in Nat,
           NEW n \in Nat \ {0}, NEW m \in Nat \ {0}, n + m <= Capacity,
           l * Unit <= a, l <= p
    PROVE  l * Unit <= Rounded(Rounded(Rounded(a * n, 1) + Rounded(p * m * Unit, 1), 1), n + m)
<1>1. l \in Nat \ {0} /\ p \in Nat \ {0} /\ Unit \in Nat \ {0}
    BY LedgerAssumption
<1>2. PICK u, v : u = l * Unit /\ v = p * Unit
    OBVIOUS
<1>3. u \in Nat \ {0} /\ v \in Nat \ {0} /\ u <= v /\ u <= a
    BY <1>1, <1>2
<1>4. /\ l * n * Unit = u * n /\ l * (n + m) * Unit = (n + m) * u /\ p * m * Unit = v * m
      /\ l * 1 * Unit = u
    BY <1>1, <1>2
<1>5. Exact(u * n) /\ Exact((n + m) * u) /\ Exact(v * m) /\ Exact(u)
    <2>1. n <= Capacity /\ m <= Capacity /\ 1 <= Capacity /\ n + m \in Nat
        OBVIOUS
    <2>2. Exact(l * n * Unit) /\ Exact(l * (n + m) * Unit) /\ Exact(p * m * Unit)
          /\ Exact(l * 1 * Unit)
        BY <2>1 DEF NotionalsFit
    <2>3. QED
        BY <1>4, <2>2
<1>6. PICK x : x = Rounded(a * n, 1)
    OBVIOUS
<1>7. x \in Int /\ u * n <= x
    <2>1. a * n \in Int /\ u * n \in Int /\ u * n <= a * n
        BY <1>3
    <2>2. Rounded(u * n, 1) <= Rounded(a * n, 1)
        BY <2>1, RoundedMonotone
    <2>3. Rounded(a * n, 1) \in Int
        BY <2>1, RoundedInt
    <2>4. QED
        BY <1>5, <1>6, <2>2, <2>3 DEF Exact
<1>8. Rounded(p * m * Unit, 1) = v * m /\ v * m \in Int /\ u * m <= v * m /\ u * m \in Int
    BY <1>3, <1>4, <1>5 DEF Exact
<1>9. PICK y : y = Rounded(x + v * m, 1)
    OBVIOUS
<1>10. y \in Int /\ (n + m) * u <= y
    <2>1. (n + m) * u = u * n + u * m /\ u * n \in Int
        BY <1>3
    <2>2. x + v * m \in Int /\ (n + m) * u \in Int /\ (n + m) * u <= x + v * m
        BY <1>7, <1>8, <2>1
    <2>3. Rounded((n + m) * u, 1) <= Rounded(x + v * m, 1)
        BY <2>2, RoundedMonotone
    <2>4. Rounded(x + v * m, 1) \in Int
        BY <2>2, RoundedInt
    <2>5. QED
        BY <1>5, <1>9, <2>3, <2>4 DEF Exact
<1>11. n + m \in Nat \ {0} /\ (n + m) * u \in Int
    BY <1>3
<1>12. Rounded((n + m) * u, n + m) <= Rounded(y, n + m)
    BY <1>10, <1>11, RoundedMonotone
<1>13. Rounded((n + m) * u, n + m) = u
    BY <1>5, <1>11, QuotientExact
<1>14. QED
    BY <1>2, <1>6, <1>8, <1>9, <1>12, <1>13

\* And at most h, when both are.
LEMMA AverageBelow ==
    ASSUME DecimalContext, NEW Capacity \in Nat, NotionalsFit(Capacity),
           NEW h \in Prices, NEW p \in Prices, p > 0, NEW a \in Nat,
           NEW n \in Nat \ {0}, NEW m \in Nat \ {0}, n + m <= Capacity,
           a <= h * Unit, p <= h
    PROVE  Rounded(Rounded(Rounded(a * n, 1) + Rounded(p * m * Unit, 1), 1), n + m) <= h * Unit
<1>1. h \in Nat \ {0} /\ p \in Nat \ {0} /\ Unit \in Nat \ {0}
    BY LedgerAssumption
<1>2. PICK u, v : u = h * Unit /\ v = p * Unit
    OBVIOUS
<1>3. u \in Nat \ {0} /\ v \in Nat \ {0} /\ v <= u /\ a <= u
    BY <1>1, <1>2
<1>4. /\ h * n * Unit = u * n /\ h * (n + m) * Unit = (n + m) * u /\ p * m * Unit = v * m
      /\ h * 1 * Unit = u
    BY <1>1, <1>2
<1>5. Exact(u * n) /\ Exact((n + m) * u) /\ Exact(v * m) /\ Exact(u)
    <2>1. n <= Capacity /\ m <= Capacity /\ 1 <= Capacity /\ n + m \in Nat
        OBVIOUS
    <2>2. Exact(h * n * Unit) /\ Exact(h * (n + m) * Unit) /\ Exact(p * m * Unit)
          /\ Exact(h * 1 * Unit)
        BY <2>1 DEF NotionalsFit
    <2>3. QED
        BY <1>4, <2>2
<1>6. PICK x : x = Rounded(a * n, 1)
    OBVIOUS
<1>7. x \in Int /\ x <= u * n
    <2>1. a * n \in Int /\ u * n \in Int /\ a * n <= u * n
        BY <1>3
    <2>2. Rounded(a * n, 1) <= Rounded(u * n, 1)
        BY <2>1, RoundedMonotone
    <2>3. Rounded(a * n, 1) \in Int
        BY <2>1, RoundedInt
    <2>4. QED
        BY <1>5, <1>6, <2>2, <2>3 DEF Exact
<1>8. Rounded(p * m * Unit, 1) = v * m /\ v * m \in Int /\ v * m <= u * m /\ u * m \in Int
    BY <1>3, <1>4, <1>5 DEF Exact
<1>9. PICK y : y = Rounded(x + v * m, 1)
    OBVIOUS
<1>10. y \in Int /\ y <= (n + m) * u
    <2>1. (n + m) * u = u * n + u * m /\ u * n \in Int
        BY <1>3
    <2>2. x + v * m \in Int /\ (n + m) * u \in Int /\ x + v * m <= (n + m) * u
        BY <1>7, <1>8, <2>1
    <2>3. Rounded(x + v * m, 1) <= Rounded((n + m) * u, 1)
        BY <2>2, RoundedMonotone
    <2>4. Rounded(x + v * m, 1) \in Int
        BY <2>2, RoundedInt
    <2>5. QED
        BY <1>5, <1>9, <2>3, <2>4 DEF Exact
<1>11. n + m \in Nat \ {0} /\ (n + m) * u \in Int
    BY <1>3
<1>12. Rounded(y, n + m) <= Rounded((n + m) * u, n + m)
    BY <1>10, <1>11, RoundedMonotone
<1>13. Rounded((n + m) * u, n + m) = u
    BY <1>5, <1>11, QuotientExact
<1>14. QED
    BY <1>2, <1>6, <1>8, <1>9, <1>12, <1>13

\* The history's range is one of prices, while a position is open.
Ranged == /\ AverageWithinRange
          /\ refused = 0 /\ position_qty # 0 =>
                /\ {history.low, history.high} \subseteq Prices
                /\ history.low > 0 /\ history.high > 0

\* A fill leaves the average within the range the history records.
LEMMA RangedFill ==
    ASSUME DecimalContext, Priced, Ranged, refused = 0,
           NEW Capacity \in Nat, NotionalsFit(Capacity), Abs(position_qty') <= Capacity,
           NEW side \in Sides, NEW price \in Prices, NEW qty \in Quantities,
           ExecuteFill(side, price, qty)
    PROVE  Ranged'
<1>. DEFINE delta == Signed(side, qty)
<1>1. /\ price \in Nat \ {0} /\ price > 0 /\ Unit \in Nat \ {0} /\ price * Unit \in Nat
      /\ delta \in Int /\ delta # 0 /\ Abs(delta) = qty /\ qty \in Nat \ {0}
    BY FillFacts DEF Abs, Signed, Sides, ExecuteFill, ValidFill
<1>2. ApplyPositionDelta(price, delta)
    BY DEF ExecuteFill, Book
<1>3. /\ history'.low  = IF position_qty = 0 \/ (~Extends(delta) /\ Flips(delta)) THEN price
                         ELSE IF Extends(delta) THEN Lower(history.low, price) ELSE history.low
      /\ history'.high = IF position_qty = 0 \/ (~Extends(delta) /\ Flips(delta)) THEN price
                         ELSE IF Extends(delta) THEN Upper(history.high, price) ELSE history.high
    BY DEF ExecuteFill, RecordHistory
<1>. HIDE DEF delta
<1>4. position_qty \in Int /\ avg_price \in Nat
    BY DEF Priced
<1>5. position_qty' = position_qty + delta
    BY <1>2 DEF ApplyPositionDelta
<1>6. CASE position_qty = 0 \/ (~Extends(delta) /\ Flips(delta))
    <2>1. avg_price' = price * Unit
        BY <1>2, <1>6 DEF ApplyPositionDelta, Extends
    <2>2. position_qty' # 0
        BY <1>1, <1>4, <1>5, <1>6 DEF Flips, Abs
    <2>3. history'.low = price /\ history'.high = price
        BY <1>3, <1>6
    <2>4. QED
        BY <1>1, <2>1, <2>2, <2>3 DEF Ranged, AverageWithinRange
<1>7. CASE position_qty # 0 /\ Extends(delta)
    <2>1. avg_price' = Rounded(Cost(price, qty), Abs(position_qty'))
        BY <1>1, <1>2, <1>7 DEF ApplyPositionDelta
    <2>2. PICK n : n = Abs(position_qty)
        OBVIOUS
    <2>3. n \in Nat \ {0} /\ Abs(position_qty') = n + qty /\ position_qty' # 0
        BY <1>1, <1>4, <1>5, <1>7, <2>2 DEF Extends, Abs
    <2>4. avg_price' = Rounded(Rounded(Rounded(avg_price * n, 1)
                                           + Rounded(price * qty * Unit, 1), 1), n + qty)
        BY <2>1, <2>2, <2>3 DEF Cost, Notional
    <2>5. PICK l, h : l = Lower(history.low, price) /\ h = Upper(history.high, price)
        OBVIOUS
    <2>6. /\ history.low \in Prices /\ history.high \in Prices
          /\ history.low \in Nat /\ history.high \in Nat
          /\ history.low > 0 /\ history.high > 0
          /\ history.low * Unit <= avg_price /\ avg_price <= history.high * Unit
        <3>1. Prices \subseteq Int
            BY LedgerAssumption
        <3>2. /\ history.low \in Prices /\ history.high \in Prices
              /\ history.low > 0 /\ history.high > 0
            BY <1>7 DEF Ranged
        <3>3. history.low * Unit <= avg_price /\ avg_price <= history.high * Unit
            BY <1>7 DEF Ranged, AverageWithinRange
        <3>4. \A p \in Prices : p > 0 => p \in Nat
            BY <3>1
        <3>5. QED
            BY <3>2, <3>3, <3>4
    <2>7. l \in Prices /\ l \in Nat /\ l > 0 /\ l <= price /\ l <= history.low
        BY <1>1, <2>5, <2>6 DEF Lower
    <2>8. h \in Prices /\ h \in Nat /\ price <= h /\ history.high <= h
        BY <1>1, <2>5, <2>6 DEF Upper
    <2>9. l * Unit <= avg_price
        <3>1. l * Unit <= history.low * Unit /\ l * Unit \in Int /\ history.low * Unit \in Int
            BY <1>1, <2>6, <2>7
        <3>2. QED
            BY <1>4, <2>6, <3>1
    <2>10. avg_price <= h * Unit
        <3>1. history.high * Unit <= h * Unit /\ h * Unit \in Int /\ history.high * Unit \in Int
            BY <1>1, <2>6, <2>8
        <3>2. QED
            BY <1>4, <2>6, <3>1
    <2>11. n + qty <= Capacity
        BY <2>3
    <2>12. l * Unit <= avg_price'
        BY <1>1, <1>4, <2>3, <2>4, <2>7, <2>9, <2>11, AverageAbove
    <2>13. avg_price' <= h * Unit
        BY <1>1, <1>4, <2>3, <2>4, <2>8, <2>10, <2>11, AverageBelow
    <2>14. history'.low = l /\ history'.high = h
        BY <1>3, <1>7, <2>5
    <2>15. QED
        BY <2>3, <2>7, <2>8, <2>12, <2>13, <2>14 DEF Ranged, AverageWithinRange
<1>8. CASE position_qty # 0 /\ ~Extends(delta) /\ ~Flips(delta)
    <2>1. history'.low = history.low /\ history'.high = history.high
        BY <1>3, <1>8
    <2>2. avg_price' = IF position_qty' = 0 THEN 0 ELSE avg_price
        BY <1>2, <1>8 DEF ApplyPositionDelta
    <2>3. QED
        BY <1>8, <2>1, <2>2 DEF Ranged, AverageWithinRange
<1>9. QED
    BY <1>6, <1>7, <1>8

\* As does every step that leaves a position of at most Capacity.
LEMMA RangedStep ==
    ASSUME DecimalContext, NEW Capacity \in Nat, NotionalsFit(Capacity)
    PROVE  Priced /\ Ranged /\ [Next]_vars /\ (Abs(position_qty) <= Capacity)' => Ranged'
<1>. SUFFICES ASSUME Priced, Ranged, [Next]_vars, (Abs(position_qty) <= Capacity)'
              PROVE  Ranged'
    OBVIOUS
<1>1. Abs(position_qty') <= Capacity
    BY DEF Abs
<1>2. ASSUME NEW side \in Sides, NEW price \in Prices, NEW qty \in Quantities,
             refused = 0, ExecuteFill(side, price, qty)
      PROVE  Ranged'
    BY <1>1, <1>2, RangedFill
<1>3. ASSUME NEW side \in Sides, NEW price \in Prices, NEW qty \in Quantities,
             Refuse(side, price, qty)
      PROVE  Ranged'
    BY <1>3, FillFacts DEF Refuse, Ranged, AverageWithinRange
<1>4. CASE UNCHANGED vars
    BY <1>4 DEF vars, Ranged, AverageWithinRange
<1>5. QED
    BY <1>2, <1>3, <1>4 DEF Next, Trade, RefuseFill, RefuseSnapshot, Sides

\* What closing c units of a position at a gain of g each does to the realized
\* PnL r, whichever side the position is on.
LEMMA RealizedMoves ==
    ASSUME DecimalContext, NEW r, Exact(r), NEW g \in Int, NEW c \in Nat, NEW sign \in {1, -1},
           NEW after, after = Rounded(r + Rounded(Rounded(g, 1) * c, 1) * sign, 1)
    PROVE  /\ g * sign >= 0 => after >= r
           /\ g * sign <= 0 => after <= r
           /\ g = 0 => after = r
<1>1. PICK x : x = Rounded(g, 1)
    OBVIOUS
<1>2. x \in Int /\ (g >= 0 => x >= 0) /\ (g <= 0 => x <= 0)
    BY <1>1, RoundedSign
<1>3. x * c \in Int /\ (g >= 0 => x * c >= 0) /\ (g <= 0 => x * c <= 0)
    BY <1>2
<1>4. PICK y : y = Rounded(x * c, 1)
    OBVIOUS
<1>5. y \in Int /\ (g >= 0 => y >= 0) /\ (g <= 0 => y <= 0)
    BY <1>3, <1>4, RoundedSign
<1>6. r \in Int /\ Rounded(r, 1) = r
    BY DEF Exact
<1>7. /\ y * sign \in Int
      /\ g * sign >= 0 => y * sign >= 0
      /\ g * sign <= 0 => y * sign <= 0
    <2>1. CASE sign = 1
        BY <1>5, <2>1
    <2>2. CASE sign = -1
        BY <1>5, <2>2
    <2>3. QED
        BY <2>1, <2>2
<1>8. after = Rounded(r + y * sign, 1) /\ r + y * sign \in Int
    BY <1>1, <1>4, <1>6, <1>7
<1>9. after \in Int
    BY <1>8, RoundedInt
<1>10. ASSUME g * sign >= 0 PROVE after >= r
    <2>1. r <= r + y * sign
        BY <1>6, <1>7, <1>10
    <2>2. Rounded(r, 1) <= after
        BY <1>6, <1>8, <2>1, RoundedMonotone
    <2>3. QED
        BY <1>6, <1>9, <2>2
<1>11. ASSUME g * sign <= 0 PROVE after <= r
    <2>1. r + y * sign <= r
        BY <1>6, <1>7, <1>11
    <2>2. after <= Rounded(r, 1)
        BY <1>6, <1>8, <2>1, RoundedMonotone
    <2>3. QED
        BY <1>6, <1>9, <2>2
<1>12. ASSUME g = 0 PROVE after = r
    <2>1. g * sign = 0
        BY <1>12
    <2>2. QED
        BY <1>6, <1>9, <1>10, <1>11, <2>1
<1>13. QED
    BY <1>10, <1>11, <1>12

\* A fill that makes the position smaller and does not turn it.
LEMMA Reduction ==
    ASSUME DecimalContext, Priced, refused = 0,
           NEW side \in Sides, NEW price \in Prices, NEW qty \in Quantities,
           Book(side, price, qty),
           position_qty * position_qty' >= 0, Abs(position_qty') < Abs(position_qty)
    PROVE  /\ position_qty' # 0 => avg_price' = avg_price
           /\ LET better == (last_price' * Unit - avg_price) * position_qty
              IN  /\ better > 0 => realized_pnl' >= realized_pnl
                  /\ better < 0 => realized_pnl' <= realized_pnl
                  /\ better = 0 => realized_pnl' = realized_pnl
<1>. DEFINE delta == Signed(side, qty)
<1>1. /\ price \in Int /\ Unit \in Nat \ {0} /\ price * Unit \in Int
      /\ delta \in Int /\ delta # 0
    BY FillFacts
<1>2. ApplyPositionDelta(price, delta) /\ last_price' = price
    BY DEF Book
<1>. HIDE DEF delta
<1>3. position_qty \in Int /\ avg_price \in Nat /\ Exact(realized_pnl)
    BY DEF Priced
<1>4. position_qty' = position_qty + delta
    BY <1>2 DEF ApplyPositionDelta
<1>5. \/ position_qty > 0 /\ delta < 0 /\ position_qty + delta >= 0
      \/ position_qty < 0 /\ delta > 0 /\ position_qty + delta <= 0
    <2>1. CASE position_qty > 0
        <3>1. position_qty + delta >= 0
            BY <1>1, <1>3, <1>4, <2>1
        <3>2. QED
            BY <1>1, <1>3, <1>4, <2>1, <3>1 DEF Abs
    <2>2. CASE position_qty < 0
        <3>1. position_qty + delta <= 0
            BY <1>1, <1>3, <1>4, <2>2
        <3>2. QED
            BY <1>1, <1>3, <1>4, <2>2, <3>1 DEF Abs
    <2>3. CASE position_qty = 0
        BY <1>1, <1>4, <2>3 DEF Abs
    <2>4. QED
        BY <1>3, <2>1, <2>2, <2>3
<1>6. ~Extends(delta) /\ ~Flips(delta)
    BY <1>1, <1>3, <1>5 DEF Extends, Flips, Abs
<1>7. position_qty' # 0 => avg_price' = avg_price
    BY <1>2, <1>6 DEF ApplyPositionDelta
<1>8. PICK g, c, sign : g = price * Unit - avg_price /\ c = Closing(delta) /\ sign = Direction
    OBVIOUS
<1>9. g \in Int /\ c \in Nat /\ sign \in {1, -1}
    BY <1>1, <1>3, <1>6, <1>8 DEF Closing, Direction, Abs
<1>10. realized_pnl' = Rounded(realized_pnl + Rounded(Rounded(g, 1) * c, 1) * sign, 1)
    BY <1>2, <1>6, <1>8 DEF ApplyPositionDelta, Gain
<1>11. /\ g * sign >= 0 => realized_pnl' >= realized_pnl
       /\ g * sign <= 0 => realized_pnl' <= realized_pnl
       /\ g = 0 => realized_pnl' = realized_pnl
    BY <1>3, <1>9, <1>10, RealizedMoves
<1>12. /\ g * position_qty > 0 => g * sign >= 0
       /\ g * position_qty < 0 => g * sign <= 0
       /\ g * position_qty = 0 => g = 0
    <2>1. CASE position_qty > 0
        <3>1. sign = 1
            BY <1>8, <2>1 DEF Direction
        <3>2. QED
            BY <1>3, <1>9, <2>1, <3>1
    <2>2. CASE position_qty < 0
        <3>1. sign = -1
            BY <1>3, <1>8, <2>2 DEF Direction
        <3>2. QED
            BY <1>3, <1>9, <2>2, <3>1
    <2>3. QED
        BY <1>5, <2>1, <2>2
<1>13. (last_price' * Unit - avg_price) * position_qty = g * position_qty
    BY <1>2, <1>8
<1>14. QED
    BY <1>7, <1>11, <1>12, <1>13

\* Therefore always.
LEMMA PricedInvariance == ASSUME DecimalContext PROVE Spec => []Priced
<1>1. Init => Priced
    BY PricedInit
<1>2. Priced /\ [Next]_vars => Priced'
    BY PricedStep
<1>3. QED
    BY <1>1, <1>2, PTL DEF Spec

\* A negative rate is refused at the first fill.  Past it, whatever is traded
\* and however it rounds, the validators accept every fill at a positive price
\* and its snapshot.
THEOREM RefusalsHaveCause == ASSUME DecimalContext PROVE Spec => []RefusedForCause
<1>1. Priced => RefusedForCause
    BY DEF Priced
<1>2. QED
    BY <1>1, PricedInvariance, PTL

\* As long as the position is small enough for its value at a price to be exact,
\* the average price, itself rounded again and again, stays between the lowest
\* and the highest price that built the position.
THEOREM AveragesStayWithinRange ==
    ASSUME DecimalContext, NEW Capacity \in Nat, NotionalsFit(Capacity)
    PROVE  Spec => ([](Abs(position_qty) <= Capacity) => []AverageWithinRange)
<1>1. Init => Ranged
    BY DEF Init, Ranged, AverageWithinRange
<1>2. Priced /\ Ranged /\ [Next]_vars /\ (Abs(position_qty) <= Capacity)' => Ranged'
    BY RangedStep
<1>3. Ranged => AverageWithinRange
    BY DEF Ranged
<1>4. QED
    BY <1>1, <1>2, <1>3, PricedInvariance, PTL DEF Spec

\* A fill that only reduces the position leaves its cost alone and, rounding
\* included, never books a gain as a loss or a loss as a gain.
THEOREM ReductionsRealize == ASSUME DecimalContext PROVE Spec => ReductionRealizes
<1>1. Priced /\ [Next]_vars =>
        [/\ position_qty' # position_qty /\ position_qty * position_qty' >= 0
         /\ Abs(position_qty') < Abs(position_qty)
         => /\ position_qty' # 0 => avg_price' = avg_price
            /\ LET better == (last_price' * Unit - avg_price) * position_qty
               IN  /\ better > 0 => realized_pnl' >= realized_pnl
                   /\ better < 0 => realized_pnl' <= realized_pnl
                   /\ better = 0 => realized_pnl' = realized_pnl ]_vars
    BY Reduction DEF Next, Trade, ExecuteFill, RefuseFill, RefuseSnapshot, Refuse, Sides
<1>2. QED
    BY <1>1, PricedInvariance, PTL DEF Spec, ReductionRealizes

------------------------------------------------------------------------------
\* As long as nothing has rounded the ledger's amounts are whole ulps and the
\* books balance.
ExactInv ==
    /\ config \in Configs
    /\ refused = 0 =>
          /\ position_qty \in Int /\ history.exact \in BOOLEAN
          /\ history.exact =>
                /\ {cash, avg_price, realized_pnl, history.fees} \subseteq Int
                /\ BookBalances

\* Cash moves by the notional value and the fee, and nothing else.
LEMMA ExactCash ==
    ASSUME NEW side \in Sides, NEW price \in Prices, NEW qty \in Quantities,
           cash \in Int, Fee(price, qty) \in Int, ExactFill(side, price, qty)
    PROVE  cash' = cash - price * Signed(side, qty) * Unit - Fee(price, qty)
<1>1. CASE side = "BUY"
    BY <1>1, FillFacts DEF ExactFill, Signed
<1>2. CASE side # "BUY"
    BY <1>2, FillFacts DEF ExactFill, Signed
<1>3. QED
    BY <1>1, <1>2

\* A lot of d at price p added on the same side as a position of q at cost a0:
\* weighting by absolute sizes weighs the signed ones.
LEMMA ExtendArithmetic ==
    ASSUME NEW a0 \in Int, NEW a1 \in Int, NEW q \in Int, NEW d \in Int,
           NEW p \in Int, NEW u \in Int,
           (q > 0 /\ d > 0) \/ (q < 0 /\ d < 0),
           a1 * Abs(q + d) = a0 * Abs(q) + p * Abs(d) * u
    PROVE  a1 * (q + d) = a0 * q + p * d * u
<1>1. CASE q > 0 /\ d > 0
    BY <1>1 DEF Abs
<1>2. CASE q < 0 /\ d < 0
    <2>1. Abs(q + d) = -(q + d) /\ Abs(q) = -q /\ Abs(d) = -d
        BY <1>2 DEF Abs
    <2>2. a1 * (-(q + d)) = a0 * (-q) + p * (-d) * u
        BY <2>1
    <2>3. QED
        BY <2>2
<1>3. QED
    BY <1>1, <1>2

\* A fill of d at price p closes c units of a position of q on the other side,
\* held at cost a0 and afterwards at cost a1.
Reduces(a0, a1, q, d, p, u, c, sign) ==
    /\ a0 \in Int /\ a1 \in Int /\ q \in Int /\ d \in Int
    /\ p \in Int /\ u \in Int /\ c \in Int /\ sign \in Int
    /\ (q > 0 /\ d < 0) \/ (q < 0 /\ d > 0)
    /\ q > 0 => sign = 1
    /\ q < 0 => sign = -1
    /\ Abs(d) > Abs(q) => c = Abs(q) /\ a1 = p * u
    /\ ~(Abs(d) > Abs(q)) => c = Abs(d) /\ (q + d # 0 => a1 = a0)

\* What the position gives up at cost is what the fill pays, less the gain.
LEMMA ReduceArithmetic ==
    ASSUME NEW a0, NEW a1, NEW q, NEW d, NEW p, NEW u, NEW c, NEW sign,
           Reduces(a0, a1, q, d, p, u, c, sign)
    PROVE  a1 * (q + d) = a0 * q + p * d * u + (p * u - a0) * c * sign
<1>. USE DEF Reduces
<1>1. CASE q > 0 /\ d < 0
    <2>1. CASE -d > q
        <3>1. c = q /\ sign = 1 /\ a1 = p * u
            BY <1>1, <2>1 DEF Abs
        <3>2. QED
            BY <3>1
    <2>2. CASE ~(-d > q)
        <3>1. c = -d /\ sign = 1 /\ (q + d # 0 => a1 = a0)
            BY <1>1, <2>2 DEF Abs
        <3>2. a1 * (q + d) = a0 * (q + d)
            BY <3>1
        <3>3. QED
            BY <3>1, <3>2
    <2>3. QED
        BY <2>1, <2>2
<1>2. CASE q < 0 /\ d > 0
    <2>1. CASE d > -q
        <3>1. c = -q /\ sign = -1 /\ a1 = p * u
            BY <1>2, <2>1 DEF Abs
        <3>2. QED
            BY <3>1
    <2>2. CASE ~(d > -q)
        <3>1. c = d /\ sign = -1 /\ (q + d # 0 => a1 = a0)
            BY <1>2, <2>2 DEF Abs
        <3>2. a1 * (q + d) = a0 * (q + d)
            BY <3>1
        <3>3. QED
            BY <3>1, <3>2
    <2>3. QED
        BY <2>1, <2>2
<1>3. QED
    BY <1>1, <1>2

\* One fill during which nothing rounds.
LEMMA ExactStep ==
    ASSUME ExactInv, refused = 0, history.exact,
           NEW side \in Sides, NEW price \in Prices, NEW qty \in Quantities,
           Book(side, price, qty), ExactFill(side, price, qty)
    PROVE  /\ {cash', avg_price', realized_pnl', Fee(price, qty)} \subseteq Int
           /\ cash' + avg_price' * position_qty'
                 = cash + avg_price * position_qty + (realized_pnl' - realized_pnl)
                        - Fee(price, qty)
<1>. DEFINE delta == Signed(side, qty)
            fee == Fee(price, qty)
<1>1. /\ {cash, avg_price, realized_pnl, position_qty} \subseteq Int
      /\ {price, qty, Unit} \subseteq Int /\ delta \in Int /\ delta # 0
      /\ Abs(delta) = qty
    BY FillFacts DEF ExactInv, Sides, Abs, Signed
<1>2. fee \in Int /\ cash' = cash - price * delta * Unit - fee
    BY <1>1, ExactCash DEF ExactFill
<1>3. position_qty' = position_qty + delta /\ position_qty' \in Int
    BY <1>1 DEF Book, ApplyPositionDelta
<1>4. CASE Extends(delta)
    <2>1. realized_pnl' = realized_pnl
        BY <1>4 DEF Book, ApplyPositionDelta
    <2>2. avg_price' \in Int /\ avg_price' * position_qty'
                                  = avg_price * position_qty + price * delta * Unit
        <3>1. CASE position_qty = 0
            <4>1. avg_price' = price * Unit
                BY <1>4, <3>1 DEF Book, ApplyPositionDelta
            <4>2. QED
                BY <1>1, <1>3, <3>1, <4>1
        <3>2. CASE position_qty # 0
            <4>1. (position_qty > 0 /\ delta > 0) \/ (position_qty < 0 /\ delta < 0)
                BY <1>1, <1>4, <3>2 DEF Extends
            <4>2. /\ avg_price' \in Int
                  /\ avg_price' * Abs(position_qty')
                        = avg_price * Abs(position_qty) + price * qty * Unit
                BY <1>4, <3>2 DEF ExactFill
            <4>3. avg_price' * Abs(position_qty + delta)
                        = avg_price * Abs(position_qty) + price * Abs(delta) * Unit
                BY <1>1, <1>3, <4>2
            <4>4. avg_price' * (position_qty + delta)
                        = avg_price * position_qty + price * delta * Unit
                BY <1>1, <4>1, <4>2, <4>3, ExtendArithmetic
            <4>5. QED
                BY <1>3, <4>2, <4>4
        <3>3. QED
            BY <3>1, <3>2
    <2>3. QED
        BY <1>1, <1>2, <1>3, <2>1, <2>2
<1>5. CASE ~Extends(delta)
    <2>1. /\ Closing(delta) \in Int /\ Direction \in Int
          /\ position_qty > 0 => Direction = 1
          /\ position_qty < 0 => Direction = -1
          /\ Abs(delta) > Abs(position_qty) => Closing(delta) = Abs(position_qty)
          /\ ~(Abs(delta) > Abs(position_qty)) => Closing(delta) = Abs(delta)
        BY <1>1 DEF Closing, Direction, Flips, Abs
    <2>2. PICK c, sign : c = Closing(delta) /\ sign = Direction
        OBVIOUS
    <2>3. realized_pnl' = realized_pnl + (price * Unit - avg_price) * c * sign
        BY <1>5, <2>2 DEF ExactFill
    <2>4. (position_qty > 0 /\ delta < 0) \/ (position_qty < 0 /\ delta > 0)
        BY <1>1, <1>5 DEF Extends
    <2>5. /\ avg_price' \in Int
          /\ Abs(delta) > Abs(position_qty) => avg_price' = price * Unit
          /\ ~(Abs(delta) > Abs(position_qty)) =>
                (position_qty + delta # 0 => avg_price' = avg_price)
        BY <1>1, <1>3, <1>5 DEF Book, ApplyPositionDelta, Flips
    <2>6. c \in Int /\ sign \in Int
        BY <2>1, <2>2
    <2>7. avg_price' * (position_qty + delta)
              = avg_price * position_qty + price * delta * Unit
                    + (price * Unit - avg_price) * c * sign
        <3>1. PICK a0, a1, q, d, p, u : /\ a0 = avg_price /\ a1 = avg_price'
                                        /\ q = position_qty /\ d = delta
                                        /\ p = price /\ u = Unit
            OBVIOUS
        <3>2. Reduces(a0, a1, q, d, p, u, c, sign)
            BY <1>1, <1>3, <2>1, <2>2, <2>4, <2>5, <2>6, <3>1 DEF Reduces
        <3>3. a1 * (q + d) = a0 * q + p * d * u + (p * u - a0) * c * sign
            BY <3>2, ReduceArithmetic
        <3>4. QED
            BY <3>1, <3>3
    <2>8. QED
        BY <1>1, <1>2, <1>3, <2>3, <2>5, <2>6, <2>7
<1>6. QED
    BY <1>4, <1>5

\* Nothing has rounded yet.
LEMMA ExactInit == Init => ExactInv
BY ConfigFacts DEF Init, ExactInv, BookBalances

\* A fill keeps the books balanced, or something in it rounds.
LEMMA ExactFillStep ==
    ASSUME ExactInv, refused = 0, NEW side \in Sides, NEW price \in Prices, NEW qty \in Quantities,
           ExecuteFill(side, price, qty)
    PROVE  ExactInv'
<1>1. position_qty' \in Int
    BY FillFacts DEF ExactInv, ExecuteFill, Book, ApplyPositionDelta
<1>2. /\ history'.exact = (history.exact /\ ExactFill(side, price, qty))
      /\ history'.fees = history.fees + Fee(price, qty)
    BY DEF ExecuteFill, RecordHistory
<1>3. ASSUME history'.exact
      PROVE  /\ {cash', avg_price', realized_pnl', history'.fees} \subseteq Int
             /\ BookBalances'
    <2>1. history.exact /\ ExactFill(side, price, qty) /\ Book(side, price, qty)
        BY <1>2, <1>3 DEF ExecuteFill
    <2>2. /\ {cash', avg_price', realized_pnl', Fee(price, qty)} \subseteq Int
          /\ cash' + avg_price' * position_qty'
                = cash + avg_price * position_qty + (realized_pnl' - realized_pnl)
                       - Fee(price, qty)
        BY <2>1, ExactStep
    <2>3. /\ {cash, avg_price, realized_pnl, history.fees, position_qty} \subseteq Int
          /\ cash + avg_price * position_qty
                = config.starting_cash + realized_pnl - history.fees
        BY <2>1 DEF ExactInv, BookBalances
    <2>4. config.starting_cash \in Int /\ config' = config
        BY ConfigFacts DEF ExactInv, ExecuteFill
    <2>5. QED
        BY <1>1, <1>2, <2>2, <2>3, <2>4 DEF BookBalances
<1>4. history'.exact \in BOOLEAN
    BY <1>2
<1>5. config' \in Configs
    BY DEF ExactInv, ExecuteFill
<1>6. QED
    BY <1>1, <1>3, <1>4, <1>5 DEF ExactInv

\* So does every step.
LEMMA ExactInvStep == ExactInv /\ [Next]_vars => ExactInv'
<1>. SUFFICES ASSUME ExactInv, [Next]_vars PROVE ExactInv'
    OBVIOUS
<1>1. ASSUME refused = 0,
             NEW side \in Sides, NEW price \in Prices, NEW qty \in Quantities,
             ExecuteFill(side, price, qty)
      PROVE  ExactInv'
    BY <1>1, ExactFillStep
<1>2. ASSUME NEW side \in Sides, NEW price \in Prices, NEW qty \in Quantities,
             Refuse(side, price, qty)
      PROVE  ExactInv'
    BY <1>2, FillFacts DEF Refuse, ExactInv
<1>3. CASE UNCHANGED vars
    BY <1>3 DEF vars, ExactInv, BookBalances
<1>4. QED
    BY <1>1, <1>2, <1>3 DEF Next, Trade, RefuseFill, RefuseSnapshot, Sides

\* A fill moves the position by what it trades, its snapshot reports the position,
\* and a flat position costs nothing.
LEMMA PositionMoves ==
    ASSUME position_qty \in Int,
           NEW side \in Sides, NEW price \in Prices, NEW qty \in Quantities,
           ExecuteFill(side, price, qty)
    PROVE  /\ position_qty' = position_qty + Signed(side, qty) /\ position_qty' \in Int
           /\ last_price' = price /\ snapshot'.quantity = position_qty'
           /\ position_qty' = 0 => avg_price' = 0
<1>. DEFINE delta == Signed(side, qty)
<1>1. delta \in Int /\ delta # 0
    BY FillFacts
<1>2. ApplyPositionDelta(price, delta) /\ last_price' = price
      /\ snapshot' = SnapshotOf(cash', position_qty', avg_price', realized_pnl', last_price')
    BY DEF ExecuteFill, Book
<1>. HIDE DEF delta
<1>3. position_qty' = position_qty + delta /\ position_qty' \in Int
    BY <1>1, <1>2 DEF ApplyPositionDelta
<1>4. snapshot'.quantity = position_qty'
    BY <1>2 DEF SnapshotOf
<1>5. ASSUME position_qty' = 0 PROVE avg_price' = 0
    <2>1. ~Extends(delta) /\ ~Flips(delta)
        BY <1>1, <1>3, <1>5 DEF Extends, Flips, Abs
    <2>2. QED
        BY <1>2, <1>5, <2>1 DEF ApplyPositionDelta
<1>6. QED
    BY <1>2, <1>3, <1>4, <1>5 DEF delta

\* However many fills open, extend, reduce and flip the position: until an
\* operation rounds, cash plus the position at cost is the starting cash plus
\* realized PnL less fees.
THEOREM BooksBalance == Spec => []BookBalances
<1>1. ExactInv => BookBalances
    BY DEF ExactInv, BookBalances
<1>2. QED
    BY <1>1, ExactInit, ExactInvStep, PTL DEF Spec
==============================================================================
