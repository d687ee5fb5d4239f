------------------------- MODULE RadarSessiyaIsboti --------------------------
(* Proofs about one session of the radar: the places of its coins are those of  *)
(* a strict order, what a source did not say counts for nothing, and what it     *)
(* writes is a result the worker's model allows.                                 *)
EXTENDS RadarAmalga, FiniteSetTheorems, SequenceTheorems, WellFoundedInduction, TLAPS

-----------------------------------------------------------------------------
\* Finite sets and orders

\* A nonempty set of naturals has a least element.
LEMMA EngKichikL ==
  ASSUME NEW N \in SUBSET Nat, N # {}
  PROVE  \E n \in N : \A m \in N : n <= m
<1>1. PICK n \in N : \A m \in N : ~(<<m, n>> \in OpToRel(<, Nat))
  BY NatLessThanWellFounded, WFMin
<1>2. \A m \in N : ~(m < n)  BY <1>1 DEF OpToRel
<1>. QED  BY <1>2

\* In a finite set with a strict order some element has none after it.
LEMMA OxirgiL ==
  ASSUME NEW D, IsFiniteSet(D), D # {}, NEW R,
         \A x, y, z \in D : <<x, y>> \in R /\ <<y, z>> \in R => <<x, z>> \in R,
         \A x \in D : <<x, x>> \notin R
  PROVE  \E x \in D : \A y \in D : <<x, y>> \notin R
<1>. DEFINE K(x) == {y \in D : <<x, y>> \in R}
            N == {Cardinality(K(x)) : x \in D}
<1>1. \A x \in D : IsFiniteSet(K(x)) /\ Cardinality(K(x)) \in Nat
  BY FS_Subset, FS_CardinalityType
<1>. HIDE DEF K
<1>2. N \in SUBSET Nat /\ N # {}
  <2>1. \A m \in N : m \in Nat  BY <1>1
  <2>2. \E x \in D : Cardinality(K(x)) \in N  OBVIOUS
  <2>. QED  BY <2>1, <2>2
<1>3. PICK n \in N : \A m \in N : n <= m
  <2>. HIDE DEF N
  <2>. QED  BY <1>2, EngKichikL
<1>4. PICK x \in D : n = Cardinality(K(x))  OBVIOUS
<1>5. ASSUME NEW y \in D, <<x, y>> \in R  PROVE FALSE
  <2>1. K(y) \subseteq K(x) /\ y \in K(x) /\ y \notin K(y)  BY <1>5 DEF K
  <2>2. Cardinality(K(y)) <= Cardinality(K(x)) /\ Cardinality(K(y)) # Cardinality(K(x))
    BY <1>1, <2>1, FS_Subset
  <2>3. Cardinality(K(y)) \in N  OBVIOUS
  <2>4. Cardinality(K(x)) <= Cardinality(K(y))  BY <1>3, <1>4, <2>3
  <2>. QED  BY <1>1, <2>2, <2>4
<1>. QED  BY <1>5

\* Of the naturals of a finite set one is the largest.
LEMMA EngKattaL ==
  ASSUME NEW D \in SUBSET Nat, IsFiniteSet(D), D # {}
  PROVE  \E x \in D : \A y \in D : y <= x
<1>. DEFINE R == {p \in D \X D : p[1] < p[2]}
<1>1. \A x, y \in D : <<x, y>> \in R <=> x < y  OBVIOUS
<1>. HIDE DEF R
<1>2. PICK x \in D : \A y \in D : <<x, y>> \notin R
  <2>1. \A x, y, z \in D : <<x, y>> \in R /\ <<y, z>> \in R => <<x, z>> \in R  BY <1>1
  <2>2. \A x \in D : <<x, x>> \notin R  BY <1>1
  <2>. QED  BY <2>1, <2>2, OxirgiL
<1>3. \A y \in D : ~(x < y)  BY <1>1, <1>2
<1>4. D \subseteq Int  OBVIOUS
<1>. QED  BY <1>3, <1>4

\* Places: in a finite set with a strict total order, one and the number of those
\* before an element are 1, 2, ... without a gap, and grow with the order.
Orni(D, R, x) == 1 + Cardinality({y \in D : <<y, x>> \in R})

LEMMA OrinL ==
  ASSUME NEW D, IsFiniteSet(D), NEW R,
         \A x, y, z \in D : <<x, y>> \in R /\ <<y, z>> \in R => <<x, z>> \in R,
         \A x \in D : <<x, x>> \notin R,
         \A x, y \in D : x = y \/ <<x, y>> \in R \/ <<y, x>> \in R
  PROVE  /\ {Orni(D, R, x) : x \in D} = 1..Cardinality(D)
         /\ \A x \in D : Orni(D, R, x) \in Nat /\ Orni(D, R, x) > 0
         /\ \A x, y \in D : Orni(D, R, x) < Orni(D, R, y) => <<x, y>> \in R
<1>. DEFINE K(x) == {y \in D : <<y, x>> \in R}
            o == [x \in D |-> Orni(D, R, x)]
            n == Cardinality(D)
<1>1. \A x \in D : IsFiniteSet(K(x)) /\ Cardinality(K(x)) \in Nat /\ Cardinality(K(x)) < n /\ n \in Nat
  <2>. SUFFICES ASSUME NEW x \in D
                PROVE IsFiniteSet(K(x)) /\ Cardinality(K(x)) \in Nat /\ Cardinality(K(x)) < n /\ n \in Nat
    OBVIOUS
  <2>1. K(x) \subseteq D /\ x \notin K(x)  OBVIOUS
  <2>. HIDE DEF K
  <2>. QED  BY <2>1, FS_Subset, FS_CardinalityType
<1>2. \A x, y \in D : <<x, y>> \in R => Cardinality(K(x)) < Cardinality(K(y))
  <2>. SUFFICES ASSUME NEW x \in D, NEW y \in D, <<x, y>> \in R
                PROVE Cardinality(K(x)) < Cardinality(K(y))
    OBVIOUS
  <2>1. K(x) \subseteq K(y) /\ x \in K(y) /\ x \notin K(x)  OBVIOUS
  <2>. HIDE DEF K
  <2>2. Cardinality(K(x)) <= Cardinality(K(y)) /\ Cardinality(K(x)) # Cardinality(K(y))
    BY <1>1, <2>1, FS_Subset
  <2>. QED  BY <1>1, <2>2
<1>3. \A x \in D : o[x] = 1 + Cardinality(K(x))  BY DEF Orni
<1>0. o \in [D -> {Orni(D, R, x) : x \in D}] /\ \A x \in D : o[x] = Orni(D, R, x)  OBVIOUS
<1>. HIDE DEF K, o
<1>4. \A x \in D : o[x] \in 1..n  BY <1>1, <1>3
<1>5. n \in Nat  BY FS_CardinalityType
<1>6. \A x, y \in D : <<x, y>> \in R => o[x] < o[y]  BY <1>1, <1>2, <1>3
<1>7. \A x, y \in D : o[x] < o[y] => <<x, y>> \in R  
  <2>. SUFFICES ASSUME NEW x \in D, NEW y \in D, o[x] < o[y]  PROVE <<x, y>> \in R
    OBVIOUS
  <2>1. o[x] \in Int /\ o[y] \in Int  BY <1>4
  <2>2. x # y  BY <2>1
  <2>3. <<y, x>> \in R => o[y] < o[x]  BY <1>6
  <2>. QED  BY <2>1, <2>2, <2>3
<1>8. \A x, y \in D : o[x] = o[y] => x = y
  <2>. SUFFICES ASSUME NEW x \in D, NEW y \in D, o[x] = o[y], x # y  PROVE FALSE
    OBVIOUS
  <2>1. o[x] \in Int /\ o[y] \in Int  BY <1>4
  <2>2. <<y, x>> \in R => o[y] < o[x]  BY <1>6
  <2>3. <<x, y>> \in R => o[x] < o[y]  BY <1>6
  <2>. QED  BY <2>1, <2>2, <2>3
<1>9. o \in Injection(D, 1..n)
  BY <1>0, <1>4, <1>8 DEF Injection, IsInjective
<1>10. o \in Surjection(D, 1..n)
  <2>1. IsFiniteSet(1..n) /\ Cardinality(1..n) = n  BY <1>5, FS_Interval
  <2>. HIDE DEF n
  <2>. QED  BY <1>9, <2>1, FS_Injection DEF n
<1>11. {o[x] : x \in D} = 1..n
  <2>1. \A k \in 1..n : \E x \in D : o[x] = k  BY <1>10 DEF Surjection
  <2>2. \A k \in {o[x] : x \in D} : k \in 1..n  BY <1>4
  <2>3. \A k \in 1..n : k \in {o[x] : x \in D}  BY <2>1
  <2>. HIDE DEF n
  <2>. QED  BY <2>2, <2>3
<1>12. \A x \in D : o[x] \in Nat /\ o[x] > 0  BY <1>4, <1>5
<1>13. {o[x] : x \in D} = {Orni(D, R, x) : x \in D}  BY <1>0
<1>. QED  BY <1>0, <1>7, <1>11, <1>12, <1>13

-----------------------------------------------------------------------------
\* Places (core/portlash_radari/tartib.py)

LEMMA KarraL ==
  ASSUME NEW x \in Int, NEW y \in Int, NEW k \in Nat \ {0}
  PROVE  (x * k > y * k <=> x > y) /\ (x * k >= y * k <=> x >= y)
<1>1. CASE x > y
  <2>1. PICK e \in Nat \ {0} : x = y + e  
    <3>1. x - y \in Nat \ {0} /\ x = y + (x - y)  BY <1>1
    <3>. QED  BY <3>1
  <2>2. x * k = y * k + e * k /\ e * k > 0 /\ y * k \in Int /\ e * k \in Int  BY <2>1
  <2>. QED  BY <1>1, <2>2
<1>2. CASE x <= y
  <2>1. PICK e \in Nat : y = x + e
    <3>1. y - x \in Nat /\ y = x + (y - x)  BY <1>2
    <3>. QED  BY <3>1
  <2>2. y * k = x * k + e * k /\ e * k >= 0 /\ x * k \in Int /\ e * k \in Int  BY <2>1
  <2>3. e > 0 => e * k > 0  OBVIOUS
  <2>4. x * k <= y * k  BY <2>2
  <2>5. x < y => x * k < y * k  BY <2>1, <2>2, <2>3
  <2>6. x * k \in Int /\ y * k \in Int  OBVIOUS
  <2>. QED  BY <1>2, <2>4, <2>5, <2>6
<1>. QED  BY <1>1, <1>2

\* Ratios are compared like fractions.
LEMMA KasrL ==
  ASSUME NEW a \in Int, NEW c \in Int, NEW e \in Int,
         NEW b \in Nat \ {0}, NEW d \in Nat \ {0}, NEW f \in Nat \ {0}
  PROVE  /\ a * d >= c * b /\ c * f >= e * d => a * f >= e * b
         /\ a * d > c * b /\ c * f >= e * d => a * f > e * b
         /\ a * d >= c * b /\ c * f > e * d => a * f > e * b
<1>1. PICK x \in Int : x = a * d  OBVIOUS
<1>2. PICK y \in Int : y = c * b  OBVIOUS
<1>3. PICK z \in Int : z = c * f  OBVIOUS
<1>4. PICK w \in Int : w = e * d  OBVIOUS
<1>5. PICK u \in Int : u = a * f  OBVIOUS
<1>6. PICK v \in Int : v = e * b  OBVIOUS
<1>7. x * f = u * d /\ y * f = z * b /\ w * b = v * d
  BY <1>1, <1>2, <1>3, <1>4, <1>5, <1>6
<1>8. (x * f > y * f <=> x > y) /\ (x * f >= y * f <=> x >= y)  BY KarraL
<1>9. (z * b > w * b <=> z > w) /\ (z * b >= w * b <=> z >= w)  BY KarraL
<1>10. (u * d > v * d <=> u > v) /\ (u * d >= v * d <=> u >= v)  BY KarraL
<1>11. {x * f, y * f, z * b, w * b, u * d, v * d} \subseteq Int  OBVIOUS
<1>12. PICK p \in Int : p = x * f  OBVIOUS
<1>13. PICK q \in Int : q = y * f  OBVIOUS
<1>14. PICK r \in Int : r = w * b  OBVIOUS
<1>15. (p > q <=> x > y) /\ (p >= q <=> x >= y)  BY <1>8, <1>12, <1>13
<1>16. (q > r <=> z > w) /\ (q >= r <=> z >= w)  BY <1>7, <1>9, <1>13, <1>14
<1>17. (p > r <=> u > v) /\ (p >= r <=> u >= v)  BY <1>7, <1>10, <1>12, <1>14
<1>18. /\ x >= y /\ z >= w => u >= v
       /\ x > y /\ z >= w => u > v
       /\ x >= y /\ z > w => u > v
  BY <1>15, <1>16, <1>17
<1>. QED  BY <1>1, <1>2, <1>3, <1>4, <1>5, <1>6, <1>18

Kasr == Int \X (Nat \ {0})
Kamaymas(p, q) == ~Katta(q, p)

LEMMA KattaL ==
  ASSUME NEW p \in Kasr, NEW q \in Kasr, NEW r \in Kasr
  PROVE  /\ Kamaymas(p, q) /\ Kamaymas(q, r) => Kamaymas(p, r)
         /\ Katta(p, q) /\ Kamaymas(q, r) => Katta(p, r)
         /\ Kamaymas(p, q) /\ Katta(q, r) => Katta(p, r)
         /\ Katta(p, q) => Kamaymas(p, q)
         /\ ~Katta(p, p)
<1>1. /\ p[1] \in Int /\ q[1] \in Int /\ r[1] \in Int
      /\ p[2] \in Nat \ {0} /\ q[2] \in Nat \ {0} /\ r[2] \in Nat \ {0}
  BY DEF Kasr
<1>2. /\ p[1] * q[2] >= q[1] * p[2] /\ q[1] * r[2] >= r[1] * q[2] => p[1] * r[2] >= r[1] * p[2]
      /\ p[1] * q[2] > q[1] * p[2] /\ q[1] * r[2] >= r[1] * q[2] => p[1] * r[2] > r[1] * p[2]
      /\ p[1] * q[2] >= q[1] * p[2] /\ q[1] * r[2] > r[1] * q[2] => p[1] * r[2] > r[1] * p[2]
  <2>1. PICK a \in Int, b \in Nat \ {0} : a = p[1] /\ b = p[2]  BY <1>1
  <2>2. PICK c \in Int, d \in Nat \ {0} : c = q[1] /\ d = q[2]  BY <1>1
  <2>3. PICK e \in Int, f \in Nat \ {0} : e = r[1] /\ f = r[2]  BY <1>1
  <2>4. /\ a * d >= c * b /\ c * f >= e * d => a * f >= e * b
        /\ a * d > c * b /\ c * f >= e * d => a * f > e * b
        /\ a * d >= c * b /\ c * f > e * d => a * f > e * b
    BY KasrL
  <2>. QED  BY <2>1, <2>2, <2>3, <2>4
<1>3. \A x, y \in Kasr : x[1] * y[2] \in Int  BY DEF Kasr
<1>4. \A x, y \in Kasr : (Kamaymas(x, y) <=> x[1] * y[2] >= y[1] * x[2])
                         /\ (Katta(x, y) <=> x[1] * y[2] > y[1] * x[2])
  <2>. SUFFICES ASSUME NEW x \in Kasr, NEW y \in Kasr
                PROVE (Kamaymas(x, y) <=> x[1] * y[2] >= y[1] * x[2])
                      /\ (Katta(x, y) <=> x[1] * y[2] > y[1] * x[2])
    OBVIOUS
  <2>1. x[1] * y[2] \in Int /\ y[1] * x[2] \in Int  BY <1>3
  <2>2. PICK m \in Int : m = x[1] * y[2]  BY <2>1
  <2>3. PICK k \in Int : k = y[1] * x[2]  BY <2>1
  <2>4. ~(k > m) <=> m >= k  OBVIOUS
  <2>5. Katta(x, y) <=> m > k  BY <2>2, <2>3 DEF Katta
  <2>6. Katta(y, x) <=> k > m  BY <2>2, <2>3 DEF Katta
  <2>. QED  BY <2>2, <2>3, <2>4, <2>5, <2>6 DEF Kamaymas
<1>5. /\ Kamaymas(p, q) /\ Kamaymas(q, r) => Kamaymas(p, r)
      /\ Katta(p, q) /\ Kamaymas(q, r) => Katta(p, r)
      /\ Kamaymas(p, q) /\ Katta(q, r) => Katta(p, r)
  BY <1>2, <1>4
<1>6. \A m, k \in Int : m > k => m >= k /\ ~(m > m)  OBVIOUS
<1>7. Katta(p, q) => Kamaymas(p, q)
  BY <1>3, <1>4, <1>6
<1>8. ~Katta(p, p)
  <2>1. PICK m \in Int : m = p[1] * p[2]  BY <1>3
  <2>2. ~(m > m)  OBVIOUS
  <2>. QED  BY <2>1, <2>2 DEF Katta
<1>. QED  BY <1>5, <1>7, <1>8

\* TartibKirishi
KirishTuri == [symbol : Nat, tasdiq : Nat, tasdiqlangan : BOOLEAN, yoqilgi : Nat,
               nisbat : {NOMALUM} \cup {<<r>> : r \in Kasr}]

\* The ratio of two coins: unknown comes last.
NKatta(a, b) == \/ a.nisbat # NOMALUM /\ b.nisbat = NOMALUM
                \/ /\ a.nisbat # NOMALUM /\ b.nisbat # NOMALUM
                   /\ Katta(a.nisbat[1], b.nisbat[1])
NTeng(a, b) == ~NKatta(a, b) /\ ~NKatta(b, a)

LEMMA NKattaL ==
  ASSUME NEW a \in KirishTuri, NEW b \in KirishTuri, NEW c \in KirishTuri
  PROVE  /\ NKatta(a, b) /\ NKatta(b, c) => NKatta(a, c)
         /\ NKatta(a, b) /\ NTeng(b, c) => NKatta(a, c)
         /\ NTeng(a, b) /\ NKatta(b, c) => NKatta(a, c)
         /\ NTeng(a, b) /\ NTeng(b, c) => NTeng(a, c)
         /\ ~NKatta(a, a)
<1>. DEFINE Bor(x) == x.nisbat # NOMALUM
<1>1. \A x \in KirishTuri : Bor(x) => x.nisbat[1] \in Kasr
  BY DEF KirishTuri
<1>2. \A x, y, z \in KirishTuri : Bor(x) /\ Bor(y) /\ Bor(z) =>
         /\ Kamaymas(x.nisbat[1], y.nisbat[1]) /\ Kamaymas(y.nisbat[1], z.nisbat[1]) => Kamaymas(x.nisbat[1], z.nisbat[1])
         /\ Katta(x.nisbat[1], y.nisbat[1]) /\ Kamaymas(y.nisbat[1], z.nisbat[1]) => Katta(x.nisbat[1], z.nisbat[1])
         /\ Kamaymas(x.nisbat[1], y.nisbat[1]) /\ Katta(y.nisbat[1], z.nisbat[1]) => Katta(x.nisbat[1], z.nisbat[1])
         /\ Katta(x.nisbat[1], y.nisbat[1]) => Kamaymas(x.nisbat[1], y.nisbat[1])
         /\ ~Katta(x.nisbat[1], x.nisbat[1])
  BY <1>1, KattaL
<1>3. \A x, y \in KirishTuri :
         /\ NKatta(x, y) <=> Bor(x) /\ (Bor(y) => Katta(x.nisbat[1], y.nisbat[1]))
         /\ NTeng(x, y) <=> \/ ~Bor(x) /\ ~Bor(y)
                            \/ /\ Bor(x) /\ Bor(y)
                               /\ Kamaymas(x.nisbat[1], y.nisbat[1]) /\ Kamaymas(y.nisbat[1], x.nisbat[1])
  BY DEF NKatta, NTeng, Kamaymas
<1>. HIDE DEF Bor
<1>4. NKatta(a, b) /\ NKatta(b, c) => NKatta(a, c)  BY <1>2, <1>3
<1>5. NKatta(a, b) /\ NTeng(b, c) => NKatta(a, c)  BY <1>2, <1>3
<1>6. NTeng(a, b) /\ NKatta(b, c) => NKatta(a, c)  BY <1>2, <1>3
<1>7. NTeng(a, b) /\ NTeng(b, c) => NTeng(a, c)  BY <1>2, <1>3
<1>8. ~NKatta(a, a)  BY <1>2, <1>3
<1>. QED  BY <1>4, <1>5, <1>6, <1>7, <1>8

LEMMA OldinL ==
  ASSUME NEW a \in KirishTuri, NEW b \in KirishTuri
  PROVE  Oldin(a, b) <=>
           \/ a.tasdiq > b.tasdiq
           \/ /\ a.tasdiq = b.tasdiq
              /\ \/ a.tasdiqlangan /\ ~b.tasdiqlangan
                 \/ /\ a.tasdiqlangan = b.tasdiqlangan
                    /\ \/ a.yoqilgi > b.yoqilgi
                       \/ /\ a.yoqilgi = b.yoqilgi
                          /\ NKatta(a, b) \/ (NTeng(a, b) /\ a.symbol < b.symbol)
<1>1. a.nisbat # NOMALUM /\ b.nisbat # NOMALUM =>
         (Katta(a.nisbat[1], b.nisbat[1]) => ~Katta(b.nisbat[1], a.nisbat[1]))
  <2>. SUFFICES ASSUME a.nisbat # NOMALUM, b.nisbat # NOMALUM
                PROVE Katta(a.nisbat[1], b.nisbat[1]) => ~Katta(b.nisbat[1], a.nisbat[1])
    OBVIOUS
  <2>1. a.nisbat[1] \in Kasr /\ b.nisbat[1] \in Kasr  BY DEF KirishTuri
  <2>. QED  BY <2>1, KattaL DEF Kamaymas
<1>. QED  BY <1>1 DEF Oldin, NKatta, NTeng

\* The key orders the coins strictly, and any two of different names.
LEMMA OldinTartibL ==
  ASSUME NEW a \in KirishTuri, NEW b \in KirishTuri, NEW c \in KirishTuri
  PROVE  /\ Oldin(a, b) /\ Oldin(b, c) => Oldin(a, c)
         /\ ~Oldin(a, a)
         /\ a.symbol # b.symbol => Oldin(a, b) \/ Oldin(b, a)
<1>1. \A x \in {a, b, c} : /\ x.tasdiq \in Nat /\ x.yoqilgi \in Nat /\ x.symbol \in Nat
                           /\ x.tasdiqlangan \in BOOLEAN
  BY DEF KirishTuri
<1>2. /\ NKatta(a, b) /\ NKatta(b, c) => NKatta(a, c)
      /\ NKatta(a, b) /\ NTeng(b, c) => NKatta(a, c)
      /\ NTeng(a, b) /\ NKatta(b, c) => NKatta(a, c)
      /\ NTeng(a, b) /\ NTeng(b, c) => NTeng(a, c)
      /\ ~NKatta(a, a)
  BY NKattaL
<1>3. NTeng(a, b) <=> NTeng(b, a)  BY DEF NTeng
<1>4. NTeng(a, b) \/ NKatta(a, b) \/ NKatta(b, a)  BY DEF NTeng
<1>5. Oldin(a, b) /\ Oldin(b, c) => Oldin(a, c)  BY <1>1, <1>2, OldinL
<1>6. ~Oldin(a, a)  BY <1>1, <1>2, OldinL
<1>7. a.symbol # b.symbol => Oldin(a, b) \/ Oldin(b, a)  BY <1>1, <1>3, <1>4, OldinL
<1>. QED  BY <1>5, <1>6, <1>7

\* orinlar: places 1, 2, ... without a gap, in the order of the key.
LEMMA OrinlarL ==
  ASSUME NEW K \in SUBSET KirishTuri, IsFiniteSet(K),
         \A k, m \in K : k.symbol = m.symbol => k = m
  PROVE  /\ DOMAIN orinlar(K) = {k.symbol : k \in K}
         /\ \A k \in K : orinlar(K)[k.symbol] \in Nat /\ orinlar(K)[k.symbol] > 0
         /\ {orinlar(K)[s] : s \in {k.symbol : k \in K}} = 1..Cardinality(K)
         /\ \A k, m \in K : orinlar(K)[k.symbol] < orinlar(K)[m.symbol] => Oldin(k, m)
<1>. DEFINE kirish(s) == CHOOSE k \in K : k.symbol = s
            R == {p \in K \X K : Oldin(p[1], p[2])}
            S == {k.symbol : k \in K}
            o(k) == Orni(K, R, k)
<1>1. orinlar(K) = [s \in S |-> 1 + Cardinality({k \in K : Oldin(k, kirish(s))})]
  BY DEF orinlar
<1>2. \A k \in K : kirish(k.symbol) = k  OBVIOUS
<1>3. \A k, m \in K : <<k, m>> \in R <=> Oldin(k, m)  OBVIOUS
<1>. HIDE DEF kirish, R
<1>4. \A k \in K : orinlar(K)[k.symbol] = o(k)
  <2>. SUFFICES ASSUME NEW k \in K  PROVE orinlar(K)[k.symbol] = o(k)
    OBVIOUS
  <2>1. {m \in K : Oldin(m, kirish(k.symbol))} = {m \in K : <<m, k>> \in R}  BY <1>2, <1>3
  <2>2. k.symbol \in S  OBVIOUS
  <2>. QED  BY <1>1, <2>1, <2>2 DEF Orni
<1>5. /\ \A x, y, z \in K : <<x, y>> \in R /\ <<y, z>> \in R => <<x, z>> \in R
      /\ \A x \in K : <<x, x>> \notin R
      /\ \A x, y \in K : x = y \/ <<x, y>> \in R \/ <<y, x>> \in R
  <2>1. \A x \in K : x \in KirishTuri  OBVIOUS
  <2>2. \A x, y, z \in K : Oldin(x, y) /\ Oldin(y, z) => Oldin(x, z)  BY <2>1, OldinTartibL
  <2>3. \A x \in K : ~Oldin(x, x)  BY <2>1, OldinTartibL
  <2>4. \A x, y \in K : x = y \/ Oldin(x, y) \/ Oldin(y, x)  BY <2>1, OldinTartibL
  <2>. QED  BY <1>3, <2>2, <2>3, <2>4
<1>6. /\ {o(k) : k \in K} = 1..Cardinality(K)
      /\ \A k \in K : o(k) \in Nat /\ o(k) > 0
      /\ \A k, m \in K : o(k) < o(m) => <<k, m>> \in R
  BY <1>5, OrinL
<1>. HIDE DEF o
<1>7. {orinlar(K)[s] : s \in S} = {o(k) : k \in K}  BY <1>4
<1>8. DOMAIN orinlar(K) = S  BY <1>1
<1>. QED  BY <1>3, <1>4, <1>6, <1>7, <1>8

-----------------------------------------------------------------------------
\* What is read of an answer (core/portlash_radari/manba.py)

ButunTuri == {NOMALUM} \cup {<<x>> : x \in Int}
TickerTuri == [narx : ButunTuri, ozgarish : ButunTuri, hajm24 : ButunTuri]

LEMMA XomL ==
  ASSUME NEW x \in Xom
  PROVE  /\ Son(x) \in ButunTuri /\ x[2] \in Int
         /\ Musbat(x) # NOMALUM => x[1] = "son" /\ x[2] > 0
<1>1. x[1] \in {"son", "bool", "buzuq"} /\ x[2] \in Int  BY DEF Xom
<1>2. Son(x) \in ButunTuri
  <2>1. <<x[2]>> \in ButunTuri /\ NOMALUM \in ButunTuri  BY <1>1 DEF ButunTuri
  <2>. QED  BY <2>1 DEF Son
<1>3. Musbat(x) # NOMALUM => x[1] = "son" /\ x[2] > 0  BY <1>1 DEF Son, Musbat, NOMALUM
<1>. QED  BY <1>1, <1>2, <1>3

\* An answer has the rows, or none.
LEMMA JavobsizL ==
  ASSUME NEW t, NEW a \in Javoblari(t), a.kod # 200
  PROVE  Qatorlari_(a) = <<>>
<1>1. a # [kod |-> 200, royxat |-> TRUE, tana |-> t]  OBVIOUS
<1>2. \E k \in {TARMOQ, 451, 200} : a = [Bosh EXCEPT !.kod = k]  BY <1>1 DEF Javoblari
<1>3. a.royxat = FALSE  BY <1>2 DEF Bosh
<1>. QED  BY <1>3 DEF Qatorlari_

LEMMA JavobL ==
  ASSUME NEW t, NEW a \in Javoblari(t)
  PROVE  \/ Qatorlari_(a) = t
         \/ Qatorlari_(a) = <<>>
<1>1. CASE a = [kod |-> 200, royxat |-> TRUE, tana |-> t]
  BY <1>1 DEF Qatorlari_
<1>2. CASE \E k \in {TARMOQ, 451, 200} : a = [Bosh EXCEPT !.kod = k]
  <2>1. a.royxat = FALSE  BY <1>2 DEF Bosh
  <2>. QED  BY <2>1 DEF Qatorlari_
<1>3. a = [kod |-> 200, royxat |-> TRUE, tana |-> t]
      \/ \E k \in {TARMOQ, 451, 200} : a = [Bosh EXCEPT !.kod = k]
  BY DEF Javoblari
<1>. QED  BY <1>1, <1>2, <1>3

\* A dictionary's value is that of one of the rows that pass.
LugatRost(q, v) ==
    \A s \in DOMAIN Lugat(q, v) : \E i \in DOMAIN v : q[i].symbol = s /\ Lugat(q, v)[s] = v[i]

LEMMA LugatL ==
  ASSUME NEW T, NEW q \in Seq(T), NEW v, DOMAIN v \subseteq DOMAIN q
  PROVE  /\ DOMAIN Lugat(q, v) = {q[i].symbol : i \in DOMAIN v}
         /\ LugatRost(q, v)
<1>. DEFINE oxirgi(s) == CHOOSE i \in DOMAIN v :
                            q[i].symbol = s /\ \A k \in DOMAIN v : q[k].symbol = s => k <= i
<1>1. Lugat(q, v) = [s \in {q[i].symbol : i \in DOMAIN v} |-> v[oxirgi(s)]]
  BY DEF Lugat
<1>2. \A s \in {q[i].symbol : i \in DOMAIN v} : oxirgi(s) \in DOMAIN v /\ q[oxirgi(s)].symbol = s
  <2>. SUFFICES ASSUME NEW s \in {q[i].symbol : i \in DOMAIN v}
                PROVE oxirgi(s) \in DOMAIN v /\ q[oxirgi(s)].symbol = s
    OBVIOUS
  <2>. DEFINE D == {i \in DOMAIN v : q[i].symbol = s}
  <2>1. DOMAIN q = 1..Len(q) /\ Len(q) \in Nat  OBVIOUS
  <2>2. D \in SUBSET Nat /\ \A i \in D : i <= Len(q)  BY <2>1
  <2>3. D # {}  OBVIOUS
  <2>4. IsFiniteSet(D)
    <3>. HIDE DEF D
    <3>. QED  BY <2>1, <2>2, FS_BoundedSetOfNaturals
  <2>5. \E i \in D : \A k \in D : k <= i
    <3>. HIDE DEF D
    <3>. QED  BY <2>2, <2>3, <2>4, EngKattaL
  <2>. QED  BY <2>5
<1>. HIDE DEF oxirgi
<1>. QED  BY <1>1, <1>2 DEF LugatRost

LEMMA JuftlikL ==
  ASSUME BirjaTuri, NEW a \in Javoblari(birja.juft)
  PROVE  DOMAIN juftliklarni_ajrat(a) \subseteq Symbollar
<1>. DEFINE Q == [symbol : Symbollar, nomli : BOOLEAN, perpetual : BOOLEAN, usdt : BOOLEAN,
                  savdoda : BOOLEAN, asos : STRING, asosiy : Nom, yosh : Xom]
            q == Qatorlari_(a)
            v == [i \in {i \in DOMAIN q : JuftlikYaroqli(q[i])} |-> Juftlik(q[i])]
<1>1. q \in Seq(Q)
  <2>1. birja.juft \in Seq(Q)  BY DEF BirjaTuri
  <2>2. q = birja.juft \/ q = <<>>  BY JavobL
  <2>3. <<>> \in Seq(Q)  OBVIOUS
  <2>. HIDE DEF Q, q
  <2>. QED  BY <2>1, <2>2, <2>3
<1>2. \A x \in Q : x.symbol \in Symbollar  OBVIOUS
<1>3. DOMAIN v \subseteq DOMAIN q  OBVIOUS
<1>4. juftliklarni_ajrat(a) = Lugat(q, v)  BY DEF juftliklarni_ajrat
<1>. HIDE DEF Q, q, v
<1>5. DOMAIN Lugat(q, v) = {q[i].symbol : i \in DOMAIN v}  BY <1>1, <1>3, LugatL
<1>6. \A i \in DOMAIN q : q[i] \in Q  BY <1>1
<1>. QED  BY <1>2, <1>3, <1>4, <1>5, <1>6

LEMMA TickerL ==
  ASSUME BirjaTuri, NEW a \in Javoblari(birja.ticker)
  PROVE  /\ DOMAIN tickerlarni_ajrat(a) \subseteq Symbollar
         /\ \A s \in DOMAIN tickerlarni_ajrat(a) : tickerlarni_ajrat(a)[s] \in TickerTuri
<1>. DEFINE Q == [symbol : Symbollar, nomli : BOOLEAN, narx : Xom, ozgarish : Xom, hajm24 : Xom]
            q == Qatorlari_(a)
            v == [i \in {i \in DOMAIN q : Nomli(q[i])} |-> Ticker(q[i])]
<1>1. q \in Seq(Q)
  <2>1. birja.ticker \in Seq(Q)  BY DEF BirjaTuri
  <2>2. q = birja.ticker \/ q = <<>>  BY JavobL
  <2>3. <<>> \in Seq(Q)  OBVIOUS
  <2>. HIDE DEF Q, q
  <2>. QED  BY <2>1, <2>2, <2>3
<1>2. \A x \in Q : x.symbol \in Symbollar /\ Ticker(x) \in TickerTuri
  BY XomL DEF Ticker, TickerTuri
<1>3. DOMAIN v \subseteq DOMAIN q /\ \A i \in DOMAIN v : v[i] = Ticker(q[i])  OBVIOUS
<1>4. tickerlarni_ajrat(a) = Lugat(q, v)  BY DEF tickerlarni_ajrat
<1>. HIDE DEF Q, q, v
<1>5. /\ DOMAIN Lugat(q, v) = {q[i].symbol : i \in DOMAIN v}
      /\ \A s \in DOMAIN Lugat(q, v) : \E i \in DOMAIN v : q[i].symbol = s /\ Lugat(q, v)[s] = v[i]
  <2>1. PICK p \in Seq(Q) : p = q  BY <1>1
  <2>2. PICK w : w = v  OBVIOUS
  <2>3. DOMAIN w \subseteq DOMAIN p  BY <1>3, <2>1, <2>2
  <2>4. DOMAIN Lugat(p, w) = {p[i].symbol : i \in DOMAIN w}  BY <2>3, LugatL
  <2>5. LugatRost(p, w)  BY <2>3, LugatL
  <2>. QED  BY <2>1, <2>2, <2>4, <2>5 DEF LugatRost
<1>6. \A i \in DOMAIN q : q[i] \in Q  BY <1>1
<1>. QED  BY <1>2, <1>3, <1>4, <1>5, <1>6

LEMMA StavkaL ==
  ASSUME BirjaTuri, NEW a \in Javoblari(birja.premium)
  PROVE  /\ \A s \in DOMAIN fundingni_ajrat(a) : fundingni_ajrat(a)[s] \in Int
         /\ a.kod # 200 => DOMAIN fundingni_ajrat(a) = {}
<1>. DEFINE Q == [symbol : Symbollar, nomli : BOOLEAN, stavka : Xom]
            q == Qatorlari_(a)
            v == [i \in {i \in DOMAIN q : StavkaBor(q[i])} |-> Stavka(q[i])]
<1>1. q \in Seq(Q)
  <2>1. birja.premium \in Seq(Q)  BY DEF BirjaTuri
  <2>2. q = birja.premium \/ q = <<>>  BY JavobL
  <2>3. <<>> \in Seq(Q)  OBVIOUS
  <2>. HIDE DEF Q, q
  <2>. QED  BY <2>1, <2>2, <2>3
<1>2. \A x \in Q : Stavka(x) \in Int  BY XomL DEF Stavka
<1>3. DOMAIN v \subseteq DOMAIN q /\ \A i \in DOMAIN v : v[i] = Stavka(q[i])  OBVIOUS
<1>4. fundingni_ajrat(a) = Lugat(q, v)  BY DEF fundingni_ajrat
<1>5. a.kod # 200 => q = <<>>  BY JavobsizL
<1>. HIDE DEF Q, q, v
<1>6. /\ DOMAIN Lugat(q, v) = {q[i].symbol : i \in DOMAIN v}
      /\ \A s \in DOMAIN Lugat(q, v) : \E i \in DOMAIN v : q[i].symbol = s /\ Lugat(q, v)[s] = v[i]
  <2>1. PICK p \in Seq(Q) : p = q  BY <1>1
  <2>2. PICK w : w = v  OBVIOUS
  <2>3. DOMAIN w \subseteq DOMAIN p  BY <1>3, <2>1, <2>2
  <2>4. DOMAIN Lugat(p, w) = {p[i].symbol : i \in DOMAIN w}  BY <2>3, LugatL
  <2>5. LugatRost(p, w)  BY <2>3, LugatL
  <2>. QED  BY <2>1, <2>2, <2>4, <2>5 DEF LugatRost
<1>7. \A i \in DOMAIN q : q[i] \in Q  BY <1>1
<1>8. q = <<>> => DOMAIN v = {}  BY <1>3
<1>9. ASSUME NEW s \in DOMAIN Lugat(q, v)  PROVE Lugat(q, v)[s] \in Int
  <2>1. PICK i \in DOMAIN v : Lugat(q, v)[s] = v[i]  BY <1>6
  <2>2. q[i] \in Q /\ v[i] = Stavka(q[i])  BY <1>3, <1>7
  <2>. QED  BY <1>2, <2>1, <2>2
<1>. QED  BY <1>4, <1>5, <1>6, <1>8, <1>9

LEMMA OraliqL ==
  ASSUME BirjaTuri, NEW a \in Javoblari(birja.oraliq)
  PROVE  \A s \in DOMAIN oraliqlarni_ajrat(a) : oraliqlarni_ajrat(a)[s] \in Int
<1>. DEFINE Q == [symbol : Symbollar, nomli : BOOLEAN, oraliq : Xom]
            q == Qatorlari_(a)
            v == [i \in {i \in DOMAIN q : OraliqBor(q[i])} |-> Oraliq(q[i])]
<1>1. q \in Seq(Q)
  <2>1. birja.oraliq \in Seq(Q)  BY DEF BirjaTuri
  <2>2. q = birja.oraliq \/ q = <<>>  BY JavobL
  <2>3. <<>> \in Seq(Q)  OBVIOUS
  <2>. HIDE DEF Q, q
  <2>. QED  BY <2>1, <2>2, <2>3
<1>2. \A x \in Q : Oraliq(x) \in Int  BY XomL DEF Oraliq
<1>3. DOMAIN v \subseteq DOMAIN q /\ \A i \in DOMAIN v : v[i] = Oraliq(q[i])  OBVIOUS
<1>4. oraliqlarni_ajrat(a) = Lugat(q, v)  BY DEF oraliqlarni_ajrat
<1>. HIDE DEF Q, q, v
<1>5. /\ DOMAIN Lugat(q, v) = {q[i].symbol : i \in DOMAIN v}
      /\ \A s \in DOMAIN Lugat(q, v) : \E i \in DOMAIN v : q[i].symbol = s /\ Lugat(q, v)[s] = v[i]
  <2>1. PICK p \in Seq(Q) : p = q  BY <1>1
  <2>2. PICK w : w = v  OBVIOUS
  <2>3. DOMAIN w \subseteq DOMAIN p  BY <1>3, <2>1, <2>2
  <2>4. DOMAIN Lugat(p, w) = {p[i].symbol : i \in DOMAIN w}  BY <2>3, LugatL
  <2>5. LugatRost(p, w)  BY <2>3, LugatL
  <2>. QED  BY <2>1, <2>2, <2>4, <2>5 DEF LugatRost
<1>6. \A i \in DOMAIN q : q[i] \in Q  BY <1>1
<1>9. ASSUME NEW s \in DOMAIN Lugat(q, v)  PROVE Lugat(q, v)[s] \in Int
  <2>1. PICK i \in DOMAIN v : Lugat(q, v)[s] = v[i]  BY <1>5
  <2>2. q[i] \in Q /\ v[i] = Oraliq(q[i])  BY <1>3, <1>6
  <2>. QED  BY <1>2, <2>1, <2>2
<1>. QED  BY <1>4, <1>9

\* CoinGecko's rows; what is known of a name is what one of them says.
CgQatorlari ==
    Range(birja.cg) \cup UNION {Range(birja.sahifalar[i]) : i \in DOMAIN birja.sahifalar}
Rivoyat(ta) == \A b \in DOMAIN ta : \E q \in CgQatorlari : q.belgi = b /\ ta[b] = Taminot(q)

LEMMA TaminotL ==
  ASSUME NEW a, Qatorlari_(a) \in Seq(CgQatori), Range(Qatorlari_(a)) \subseteq CgQatorlari,
         NEW kerak
  PROVE  Rivoyat(taminotni_ajrat(a, kerak))
<1>. DEFINE q == Qatorlari_(a)
            D == {i \in DOMAIN q : q[i].belgi \in kerak}
            cap(i) == IF Musbat(q[i].cap) = NOMALUM THEN 0 ELSE q[i].cap[2]
            E(b) == {i \in D : q[i].belgi = b}
            tanlangan(b) == CHOOSE i \in D : q[i].belgi = b /\ \A k \in D : q[k].belgi = b =>
                                cap(k) < cap(i) \/ (cap(k) = cap(i) /\ i <= k)
            ta == taminotni_ajrat(a, kerak)
<1>1. ta = [b \in {q[i].belgi : i \in D} |-> Taminot(q[tanlangan(b)])]
  BY DEF taminotni_ajrat
<1>2. DOMAIN q = 1..Len(q) /\ Len(q) \in Nat /\ \A i \in DOMAIN q : q[i] \in CgQatori /\ q[i] \in CgQatorlari
  BY DEF Range
<1>3. \A i \in DOMAIN q : cap(i) \in Int
  <2>1. \A x \in CgQatori : x.cap \in Xom  BY DEF CgQatori
  <2>. QED  BY <1>2, <2>1, XomL
<1>4. \A b \in {q[i].belgi : i \in D} : tanlangan(b) \in D /\ q[tanlangan(b)].belgi = b
  <2>. SUFFICES ASSUME NEW b \in {q[i].belgi : i \in D}
                PROVE tanlangan(b) \in D /\ q[tanlangan(b)].belgi = b
    OBVIOUS
  <2>. DEFINE R == {p \in E(b) \X E(b) : cap(p[2]) > cap(p[1]) \/ (cap(p[2]) = cap(p[1]) /\ p[2] < p[1])}
  <2>1. E(b) # {}  OBVIOUS
  <2>2. E(b) \in SUBSET Nat /\ \A i \in E(b) : i <= Len(q)  BY <1>2
  <2>3. \A i, k \in E(b) : <<i, k>> \in R <=> cap(k) > cap(i) \/ (cap(k) = cap(i) /\ k < i)
    OBVIOUS
  <2>4. \A i \in E(b) : i \in Nat /\ cap(i) \in Int  BY <1>2, <1>3
  <2>. HIDE DEF cap, R
  <2>5. IsFiniteSet(E(b))
    <3>. DEFINE B == E(b)
    <3>1. B \in SUBSET Nat /\ \A i \in B : i <= Len(q)  BY <2>2
    <3>. HIDE DEF B
    <3>2. IsFiniteSet(B)  BY <1>2, <3>1, FS_BoundedSetOfNaturals
    <3>. QED  BY <3>2 DEF B
  <2>6. \E i \in E(b) : \A k \in E(b) : <<i, k>> \notin R
    <3>1. \A x, y, z \in E(b) : <<x, y>> \in R /\ <<y, z>> \in R => <<x, z>> \in R
      BY <2>3, <2>4
    <3>2. \A x \in E(b) : <<x, x>> \notin R  BY <2>3, <2>4
    <3>. HIDE DEF E
    <3>. QED  BY <2>1, <2>5, <3>1, <3>2, OxirgiL
  <2>7. PICK i \in E(b) : \A k \in E(b) : cap(k) < cap(i) \/ (cap(k) = cap(i) /\ i <= k)
    <3>1. PICK i \in E(b) : \A k \in E(b) : <<i, k>> \notin R  BY <2>6
    <3>2. ASSUME NEW k \in E(b)  PROVE cap(k) < cap(i) \/ (cap(k) = cap(i) /\ i <= k)
      <4>1. ~(cap(k) > cap(i)) /\ ~(cap(k) = cap(i) /\ k < i)  BY <2>3, <3>1
      <4>2. cap(k) \in Int /\ cap(i) \in Int /\ k \in Nat /\ i \in Nat  BY <2>4
      <4>. HIDE DEF E
      <4>. QED  BY <4>1, <4>2
    <3>. QED  BY <3>1, <3>2
  <2>. QED  BY <2>7
<1>. HIDE DEF tanlangan, D
<1>5. ASSUME NEW b \in DOMAIN ta
      PROVE \E x \in CgQatorlari : x.belgi = b /\ ta[b] = Taminot(x)
  <2>1. b \in {q[i].belgi : i \in D} /\ ta[b] = Taminot(q[tanlangan(b)])  BY <1>1, <1>5
  <2>2. tanlangan(b) \in D /\ q[tanlangan(b)].belgi = b  BY <1>4, <2>1
  <2>3. q[tanlangan(b)] \in CgQatorlari  BY <1>2, <2>2 DEF D
  <2>. QED  BY <2>1, <2>2, <2>3
<1>. QED  BY <1>5 DEF Rivoyat

LEMMA BirgaL ==
  ASSUME NEW f, NEW g, Rivoyat(f), Rivoyat(g)
  PROVE  Rivoyat(Birga(f, g))
  BY DEF Rivoyat, Birga

-----------------------------------------------------------------------------
\* The session: its inductive invariant

MAYDON == {"pc", "turi", "juft", "ticker", "stavka", "oraliq", "elak", "pool", "nomzodlar",
           "namuna", "bolaklar", "kerak", "sahifa", "ta", "oi", "ls", "oiYoq", "unlock", "izoh"}
OLDIN == {"juftliklar", "ticker", "stavka", "oraliq", "elak"}
ORADA == {"coingecko", "sahifa", "saralash"}
KEYIN == {"oi", "ls", "unlock", "yozish", "tugadi"}

SesShakli ==
    /\ DOMAIN ses = MAYDON /\ ses.turi \in RASMIY_TURLAR \cup {QOLDA}
    /\ ses.pc \in OLDIN \cup ORADA \cup KEYIN \cup {"xato"}
    /\ ses.sahifa \in 1..ZAXIRA_SAHIFALAR /\ DOMAIN jurnal = MANBALAR

\* What the exchange's dictionaries hold.
SesBozori ==
    /\ DOMAIN ses.juft \subseteq Symbollar
    /\ DOMAIN ses.ticker \subseteq Symbollar
    /\ \A s \in DOMAIN ses.ticker : ses.ticker[s] \in TickerTuri
    /\ \A s \in DOMAIN ses.stavka : ses.stavka[s] \in Int
    /\ \A s \in DOMAIN ses.oraliq : ses.oraliq[s] \in Int
    /\ ses.pc \notin {"juftliklar", "xato"} => DOMAIN ses.juft # {}
    /\ ses.pc \notin {"juftliklar", "ticker", "xato"} => DOMAIN ses.ticker # {}

\* After the sieve: pool and sample have a price, A's candidates are in, the sample
\* is drawn from the rest.
SesElagi ==
    ses.pc \in ORADA \cup KEYIN =>
        /\ ses.elak \subseteq DOMAIN ses.juft \cap DOMAIN ses.ticker
        /\ QaytaQaraladi \subseteq ses.elak
        /\ Range(ses.nomzodlar) \subseteq DOMAIN ses.juft \cap DOMAIN ses.ticker
        /\ Range(ses.nomzodlar) \cap ses.elak = {}
        /\ Range(ses.nomzodlar) \cap OldingiOrinli = {}
        /\ ses.pool \subseteq ses.elak

\* What leaves the pool leaves it for its capitalisation, unless it was too large.
SesSarasi ==
    /\ ses.pc \in ORADA => (Cardinality(ses.elak) <= MAX_POOL => ses.pool = ses.elak)
    /\ ses.pc \in KEYIN =>
          /\ Cardinality(ses.elak) <= MAX_POOL => ses.pool = {s \in ses.elak : KapdanOtadi(s)}
          /\ ses.namuna \subseteq Range(ses.nomzodlar)

\* The journal and what it stands for.
SesJurnali ==
    /\ ses.pc \in {"oraliq", "elak"} \cup ORADA \cup KEYIN =>
          (jurnal["funding"].holat = "xato" => DOMAIN ses.stavka = {})
    /\ ses.pc \in OLDIN \cup {"coingecko"} => jurnal["coingecko"].holat # "xato"
    /\ ses.pc \in {"saralash"} \cup KEYIN => (jurnal["coingecko"].holat = "xato" => ses.ta = Bosha)
    /\ ses.pc \in OLDIN \cup ORADA \cup {"oi"} => jurnal["oi"].holat # "xato"
    /\ ses.pc \in KEYIN \ {"oi"} =>
          /\ ses.oiYoq \subseteq Chuqur
          /\ \A s \in ses.oiYoq : Len(ses.oi[s]) = 0
          /\ (jurnal["oi"].holat = "xato") <=> (2 * Cardinality(ses.oiYoq) > Cardinality(Chuqur))

SesInv ==
    /\ BirjaTuri /\ BazaTuri /\ SesShakli /\ SesBozori /\ SesElagi /\ SesSarasi /\ Rivoyat(ses.ta)
    /\ SesJurnali /\ (Tugadi => qator = Qatorlari)

\* What the invariant after a step is made of.
LEMMA SesInvKeyinL ==
  ASSUME BirjaTuri', BazaTuri', SesShakli', SesBozori', SesElagi', SesSarasi', Rivoyat(ses.ta)',
         SesJurnali', Tugadi' => qator' = Qatorlari'
  PROVE  SesInv'
  BY DEF SesInv

\* The sets of places of the session: a place is in one of them.
LEMMA JoyL ==
  /\ \A x \in OLDIN : x \notin ORADA \cup KEYIN \cup {"xato"}
  /\ \A x \in ORADA : x \notin OLDIN \cup KEYIN \cup {"xato"}
  /\ \A x \in KEYIN : x \notin OLDIN \cup ORADA \cup {"xato"}
  /\ "xato" \notin OLDIN \cup ORADA \cup KEYIN
  BY DEF OLDIN, ORADA, KEYIN

LEMMA YozL ==
  ASSUME NEW j, DOMAIN j = MANBALAR, NEW nom \in MANBALAR, NEW kod
  PROVE  /\ DOMAIN yoz(j, nom, kod) = MANBALAR
         /\ yoz(j, nom, kod)[nom].holat = IF kod = 200 THEN "ok" ELSE "xato"
         /\ \A m \in MANBALAR \ {nom} : yoz(j, nom, kod)[m] = j[m]
<1>. DEFINE v == [holat |-> IF kod = 200 THEN "ok" ELSE "xato", kod |-> kod, otdi |-> 0, jami |-> 0]
<1>1. yoz(j, nom, kod) = [j EXCEPT ![nom] = v]  BY DEF yoz
<1>2. v.holat = IF kod = 200 THEN "ok" ELSE "xato"  OBVIOUS
<1>. HIDE DEF v
<1>. QED  BY <1>1, <1>2

LEMMA ManbaL == {"juftliklar", "ticker", "funding", "funding_oraliq", "coingecko", "oi",
                 "long_short", "unlock"} = MANBALAR
  BY DEF MANBALAR

\* The database and the exchange stay as they are.
LEMMA TuriQoladiL ==
  ASSUME BirjaTuri, BazaTuri, birja' = birja, baza' = baza
  PROVE  BirjaTuri' /\ BazaTuri' /\ CgQatorlari' = CgQatorlari
<1>1. BirjaTuri'  BY DEF BirjaTuri, CgQatori, Xom, Nom
<1>2. BazaTuri'  BY DEF BazaTuri, Bosha
<1>3. CgQatorlari' = CgQatorlari  BY DEF CgQatorlari
<1>. QED  BY <1>1, <1>2, <1>3

LEMMA RivoyatQoladiL ==
  ASSUME NEW ta, Rivoyat(ta), birja' = birja, ses'.ta = ta
  PROVE  Rivoyat(ses.ta)'
<1>1. CgQatorlari' = CgQatorlari  BY DEF CgQatorlari
<1>. QED  BY <1>1 DEF Rivoyat

\* CoinGecko's row of a coin is read from the same dictionaries.
LEMMA KapQoladiL ==
  ASSUME ses'.ta = ses.ta, ses'.juft = ses.juft, ses'.ticker = ses.ticker
  PROVE  \A s : KapdanOtadi(s)' <=> KapdanOtadi(s)
<1>. SUFFICES ASSUME NEW s  PROVE KapdanOtadi(s)' <=> KapdanOtadi(s)
  OBVIOUS
<1>1. TaminotOl(s)' = TaminotOl(s)  BY DEF TaminotOl
<1>. QED  BY <1>1 DEF KapdanOtadi


LEMMA ElakQoladiL ==
  ASSUME SesElagi, ses.pc \in ORADA \cup KEYIN, baza' = baza, ses'.pc \in ORADA \cup KEYIN \cup {"xato"},
         ses'.juft = ses.juft, ses'.ticker = ses.ticker, ses'.turi = ses.turi,
         ses'.elak = ses.elak, ses'.nomzodlar = ses.nomzodlar, ses'.pool \subseteq ses.pool
  PROVE  SesElagi'
<1>1. QaytaQaraladi' = QaytaQaraladi  BY DEF QaytaQaraladi, ANomzodlar
<1>2. OldingiOrinli' = OldingiOrinli  BY DEF OldingiOrinli
<1>3. Range(ses.nomzodlar)' = Range(ses.nomzodlar)  OBVIOUS
<1>. QED  BY <1>1, <1>2, <1>3 DEF SesElagi

\* A session that fails.
LEMMA XatoL ==
  ASSUME SesInv, NEW z, ses' = Yiqilish(z), birja' = birja, baza' = baza, DOMAIN jurnal' = MANBALAR
  PROVE  SesInv'
<1>1. BirjaTuri' /\ BazaTuri'  BY TuriQoladiL DEF SesInv
<1>2. DOMAIN ses = MAYDON /\ {"pc", "izoh"} \subseteq MAYDON  BY DEF SesInv, SesShakli, MAYDON
<1>3. ses'.pc = "xato" /\ DOMAIN ses' = MAYDON /\ \A f \in MAYDON \ {"pc", "izoh"} : ses'[f] = ses[f]
  BY <1>2 DEF Yiqilish
<1>4. /\ ses'.juft = ses.juft /\ ses'.ticker = ses.ticker /\ ses'.stavka = ses.stavka
      /\ ses'.oraliq = ses.oraliq /\ ses'.ta = ses.ta /\ ses'.turi = ses.turi
      /\ ses'.sahifa = ses.sahifa
  BY <1>3 DEF MAYDON
<1>5. SesShakli'  BY <1>3, <1>4 DEF SesInv, SesShakli
<1>6. SesBozori'  BY <1>3, <1>4 DEF SesInv, SesBozori
<1>7. SesElagi' /\ SesSarasi'  BY <1>3, JoyL DEF SesElagi, SesSarasi
<1>8. Rivoyat(ses.ta)'  BY <1>4, RivoyatQoladiL DEF SesInv
<1>9. SesJurnali'
  <2>1. "xato" \notin {"oraliq", "elak", "coingecko", "saralash", "oi"}  OBVIOUS
  <2>. QED  BY <1>3, <2>1, JoyL DEF SesJurnali
<1>10. ~Tugadi'  BY <1>3 DEF Tugadi
<1>. QED  BY <1>1, <1>5, <1>6, <1>7, <1>8, <1>9, <1>10 DEF SesInv

\* A step between the first requests.
LEMMA OldinQadamL ==
  ASSUME SesInv, ses.pc \in OLDIN, ses'.pc \in OLDIN, birja' = birja, baza' = baza,
         DOMAIN ses' = MAYDON, ses'.turi = ses.turi, ses'.ta = ses.ta, ses'.sahifa = ses.sahifa,
         SesBozori', DOMAIN jurnal' = MANBALAR,
         NEW m \in MANBALAR \ {"oi", "coingecko"}, \A n \in MANBALAR \ {m} : jurnal'[n] = jurnal[n],
         ses'.pc \in {"oraliq", "elak"} =>
            (jurnal'["funding"].holat = "xato" => DOMAIN ses'.stavka = {})
  PROVE  SesInv'
<1>1. BirjaTuri' /\ BazaTuri'  BY TuriQoladiL DEF SesInv
<1>2. SesShakli'  BY DEF SesInv, SesShakli
<1>3. SesElagi' /\ SesSarasi'  BY JoyL DEF SesElagi, SesSarasi
<1>4. Rivoyat(ses.ta)'  BY RivoyatQoladiL DEF SesInv
<1>5. SesJurnali'
  <2>1. jurnal'["oi"] = jurnal["oi"] /\ jurnal'["coingecko"] = jurnal["coingecko"]
    BY DEF MANBALAR
  <2>2. jurnal["oi"].holat # "xato" /\ jurnal["coingecko"].holat # "xato"
    BY DEF SesInv, SesJurnali
  <2>3. ses'.pc \notin {"saralash"} \cup KEYIN /\ ses'.pc \notin ORADA \cup KEYIN  BY JoyL DEF ORADA
  <2>4. "oi" \in KEYIN  BY DEF KEYIN
  <2>. QED  BY <2>1, <2>2, <2>3, <2>4 DEF SesJurnali
<1>6. ~Tugadi'
  <2>1. "tugadi" \in KEYIN  BY DEF KEYIN
  <2>. QED  BY <2>1, JoyL DEF Tugadi
<1>. QED  BY SesBozori', <1>1, <1>2, <1>3, <1>4, <1>5, <1>6 DEF SesInv

LEMMA LugatBoshL ==
  ASSUME NEW q, NEW v, Lugat(q, v) # Bosha
  PROVE  DOMAIN Lugat(q, v) # {}
<1>. SUFFICES ASSUME DOMAIN Lugat(q, v) = {}  PROVE FALSE
  OBVIOUS
<1>1. {q[i].symbol : i \in DOMAIN v} = {}  BY DEF Lugat
<1>2. Lugat(q, v) = [s \in {} |-> s]  BY <1>1 DEF Lugat
<1>. QED  BY <1>2 DEF Bosha

LEMMA JuftliklarOlinadiL ==
  ASSUME SesInv, JuftliklarOlinadi
  PROVE  SesInv'
<1>1. PICK a \in Javoblari(birja.juft) :
        /\ jurnal' = yoz(jurnal, "juftliklar", a.kod)
        /\ ses' = IF juftliklarni_ajrat(a) = Bosha THEN ManbaXatosi(jurnal')
                  ELSE [ses EXCEPT !.pc = "ticker", !.juft = juftliklarni_ajrat(a)]
  BY DEF JuftliklarOlinadi
<1>. DEFINE j == juftliklarni_ajrat(a)
<1>2. ses.pc = "juftliklar" /\ birja' = birja /\ baza' = baza  BY DEF JuftliklarOlinadi
<1>3. /\ DOMAIN jurnal' = MANBALAR
      /\ \A n \in MANBALAR \ {"juftliklar"} : jurnal'[n] = jurnal[n]
  BY <1>1, YozL, ManbaL DEF SesInv, SesShakli
<1>4. CASE j = Bosha
  <2>1. \E z : ses' = Yiqilish(z)  BY <1>1, <1>4 DEF ManbaXatosi
  <2>. QED  BY <1>2, <1>3, <2>1, XatoL
<1>5. CASE j # Bosha
  <2>1. DOMAIN j \subseteq Symbollar  BY JuftlikL DEF SesInv
  <2>2. DOMAIN j # {}  BY <1>5, LugatBoshL DEF juftliklarni_ajrat
  <2>3. ses' = [ses EXCEPT !.pc = "ticker", !.juft = j]  BY <1>1, <1>5
  <2>. HIDE DEF j
  <2>4. DOMAIN ses = MAYDON /\ {"pc", "juft"} \subseteq MAYDON  BY DEF SesInv, SesShakli, MAYDON
  <2>5. /\ DOMAIN ses' = MAYDON /\ ses'.pc = "ticker" /\ ses'.juft = j
        /\ \A f \in MAYDON \ {"pc", "juft"} : ses'[f] = ses[f]
    BY <2>3, <2>4
  <2>6. /\ ses'.ticker = ses.ticker /\ ses'.stavka = ses.stavka /\ ses'.oraliq = ses.oraliq
        /\ ses'.ta = ses.ta /\ ses'.turi = ses.turi /\ ses'.sahifa = ses.sahifa
    BY <2>5 DEF MAYDON
  <2>7. SesBozori'  BY <2>1, <2>2, <2>5, <2>6 DEF SesInv, SesBozori
  <2>8. "juftliklar" \in MANBALAR \ {"oi", "coingecko"}  BY ManbaL
  <2>9. ses.pc \in OLDIN /\ ses'.pc \in OLDIN /\ ses'.pc \notin {"oraliq", "elak"}
    BY <1>2, <2>5 DEF OLDIN
  <2>. QED  BY <1>2, <1>3, <2>5, <2>6, <2>7, <2>8, <2>9, OldinQadamL
<1>. QED  BY <1>4, <1>5

LEMMA TickerlarOlinadiL ==
  ASSUME SesInv, TickerlarOlinadi
  PROVE  SesInv'
<1>1. PICK a \in Javoblari(birja.ticker) :
        /\ jurnal' = yoz(jurnal, "ticker", a.kod)
        /\ ses' = IF tickerlarni_ajrat(a) = Bosha THEN ManbaXatosi(jurnal')
                  ELSE [ses EXCEPT !.pc = "stavka", !.ticker = tickerlarni_ajrat(a)]
  BY DEF TickerlarOlinadi
<1>. DEFINE t == tickerlarni_ajrat(a)
<1>2. ses.pc = "ticker" /\ birja' = birja /\ baza' = baza  BY DEF TickerlarOlinadi
<1>3. /\ DOMAIN jurnal' = MANBALAR
      /\ \A n \in MANBALAR \ {"ticker"} : jurnal'[n] = jurnal[n]
  BY <1>1, YozL, ManbaL DEF SesInv, SesShakli
<1>4. CASE t = Bosha
  <2>1. \E z : ses' = Yiqilish(z)  BY <1>1, <1>4 DEF ManbaXatosi
  <2>. QED  BY <1>2, <1>3, <2>1, XatoL
<1>5. CASE t # Bosha
  <2>1. DOMAIN t \subseteq Symbollar /\ \A s \in DOMAIN t : t[s] \in TickerTuri  BY TickerL DEF SesInv
  <2>2. DOMAIN t # {}  BY <1>5, LugatBoshL DEF tickerlarni_ajrat
  <2>3. ses' = [ses EXCEPT !.pc = "stavka", !.ticker = t]  BY <1>1, <1>5
  <2>. HIDE DEF t
  <2>4. DOMAIN ses = MAYDON /\ {"pc", "ticker"} \subseteq MAYDON  BY DEF SesInv, SesShakli, MAYDON
  <2>5. /\ DOMAIN ses' = MAYDON /\ ses'.pc = "stavka" /\ ses'.ticker = t
        /\ \A f \in MAYDON \ {"pc", "ticker"} : ses'[f] = ses[f]
    BY <2>3, <2>4
  <2>6. /\ ses'.juft = ses.juft /\ ses'.stavka = ses.stavka /\ ses'.oraliq = ses.oraliq
        /\ ses'.ta = ses.ta /\ ses'.turi = ses.turi /\ ses'.sahifa = ses.sahifa
    BY <2>5 DEF MAYDON
  <2>7. SesBozori'  BY <1>2, <2>1, <2>2, <2>5, <2>6 DEF SesInv, SesBozori
  <2>8. "ticker" \in MANBALAR \ {"oi", "coingecko"}  BY ManbaL
  <2>9. ses.pc \in OLDIN /\ ses'.pc \in OLDIN /\ ses'.pc \notin {"oraliq", "elak"}
    BY <1>2, <2>5 DEF OLDIN
  <2>. QED  BY <1>2, <1>3, <2>5, <2>6, <2>7, <2>8, <2>9, OldinQadamL
<1>. QED  BY <1>4, <1>5

LEMMA StavkalarOlinadiL ==
  ASSUME SesInv, StavkalarOlinadi
  PROVE  SesInv'
<1>1. PICK a \in Javoblari(birja.premium) :
        /\ jurnal' = yoz(jurnal, "funding", a.kod)
        /\ ses' = [ses EXCEPT !.pc = "oraliq", !.stavka = fundingni_ajrat(a)]
  BY DEF StavkalarOlinadi
<1>. DEFINE t == fundingni_ajrat(a)
<1>2. ses.pc = "stavka" /\ birja' = birja /\ baza' = baza  BY DEF StavkalarOlinadi
<1>3. /\ DOMAIN jurnal' = MANBALAR
      /\ \A n \in MANBALAR \ {"funding"} : jurnal'[n] = jurnal[n]
      /\ jurnal'["funding"].holat = IF a.kod = 200 THEN "ok" ELSE "xato"
  BY <1>1, YozL, ManbaL DEF SesInv, SesShakli
<1>4. (\A s \in DOMAIN t : t[s] \in Int) /\ (a.kod # 200 => DOMAIN t = {})  BY StavkaL DEF SesInv
<1>5. ses' = [ses EXCEPT !.pc = "oraliq", !.stavka = t]  BY <1>1
<1>. HIDE DEF t
<1>6. DOMAIN ses = MAYDON /\ {"pc", "stavka"} \subseteq MAYDON  BY DEF SesInv, SesShakli, MAYDON
<1>7. /\ DOMAIN ses' = MAYDON /\ ses'.pc = "oraliq" /\ ses'.stavka = t
      /\ \A f \in MAYDON \ {"pc", "stavka"} : ses'[f] = ses[f]
  BY <1>5, <1>6
<1>8. /\ ses'.juft = ses.juft /\ ses'.ticker = ses.ticker /\ ses'.oraliq = ses.oraliq
      /\ ses'.ta = ses.ta /\ ses'.turi = ses.turi /\ ses'.sahifa = ses.sahifa
  BY <1>7 DEF MAYDON
<1>9. SesBozori'  BY <1>2, <1>4, <1>7, <1>8 DEF SesInv, SesBozori
<1>10. "funding" \in MANBALAR \ {"oi", "coingecko"}  BY ManbaL
<1>11. ses.pc \in OLDIN /\ ses'.pc \in OLDIN  BY <1>2, <1>7 DEF OLDIN
<1>12. jurnal'["funding"].holat = "xato" => DOMAIN ses'.stavka = {}  BY <1>3, <1>4, <1>7
<1>. QED  BY <1>2, <1>3, <1>7, <1>8, <1>9, <1>10, <1>11, <1>12, OldinQadamL

LEMMA OraliqlarOlinadiL ==
  ASSUME SesInv, OraliqlarOlinadi
  PROVE  SesInv'
<1>1. PICK a \in Javoblari(birja.oraliq) :
        /\ jurnal' = yoz(jurnal, "funding_oraliq", a.kod)
        /\ ses' = [ses EXCEPT !.pc = "elak", !.oraliq = oraliqlarni_ajrat(a)]
  BY DEF OraliqlarOlinadi
<1>. DEFINE t == oraliqlarni_ajrat(a)
<1>2. ses.pc = "oraliq" /\ birja' = birja /\ baza' = baza  BY DEF OraliqlarOlinadi
<1>3. /\ DOMAIN jurnal' = MANBALAR
      /\ \A n \in MANBALAR \ {"funding_oraliq"} : jurnal'[n] = jurnal[n]
  BY <1>1, YozL, ManbaL DEF SesInv, SesShakli
<1>4. \A s \in DOMAIN t : t[s] \in Int  BY OraliqL DEF SesInv
<1>5. ses' = [ses EXCEPT !.pc = "elak", !.oraliq = t]  BY <1>1
<1>. HIDE DEF t
<1>6. DOMAIN ses = MAYDON /\ {"pc", "oraliq"} \subseteq MAYDON  BY DEF SesInv, SesShakli, MAYDON
<1>7. /\ DOMAIN ses' = MAYDON /\ ses'.pc = "elak" /\ ses'.oraliq = t
      /\ \A f \in MAYDON \ {"pc", "oraliq"} : ses'[f] = ses[f]
  BY <1>5, <1>6
<1>8. /\ ses'.juft = ses.juft /\ ses'.ticker = ses.ticker /\ ses'.stavka = ses.stavka
      /\ ses'.ta = ses.ta /\ ses'.turi = ses.turi /\ ses'.sahifa = ses.sahifa
  BY <1>7 DEF MAYDON
<1>9. SesBozori'  BY <1>2, <1>4, <1>7, <1>8 DEF SesInv, SesBozori
<1>10. "funding_oraliq" \in MANBALAR \ {"oi", "coingecko"}  BY ManbaL
<1>11. ses.pc \in OLDIN /\ ses'.pc \in OLDIN  BY <1>2, <1>7 DEF OLDIN
<1>12. jurnal'["funding"].holat = "xato" => DOMAIN ses'.stavka = {}
  <2>1. jurnal'["funding"] = jurnal["funding"]  BY <1>3, ManbaL
  <2>2. jurnal["funding"].holat = "xato" => DOMAIN ses.stavka = {}
    BY <1>2 DEF SesInv, SesJurnali
  <2>. QED  BY <1>8, <2>1, <2>2
<1>. QED  BY <1>2, <1>3, <1>7, <1>8, <1>9, <1>10, <1>11, <1>12, OldinQadamL

LEMMA ElanadiL ==
  ASSUME SesInv, Elanadi
  PROVE  SesInv'
<1>. DEFINE keng == Elakdan \cup QaytaQaraladi
            pool == Kesilgan(keng)
            D == DOMAIN ses.juft \cap DOMAIN ses.ticker
<1>0. PICK q \in namuna_tanla((Darvoza \ keng) \ OldingiOrinli, 2 * Ch.namuna_soni) :
        ses' = [ses EXCEPT !.pc = IF Belgilar(pool \cup Range(q)) = {} THEN "saralash" ELSE "coingecko",
                           !.elak = keng, !.pool = pool, !.nomzodlar = q,
                           !.bolaklar = Bolaklar(Belgilar(pool \cup Range(q))),
                           !.kerak = Belgilar(pool \cup Range(q))]
  BY DEF Elanadi
<1>1. PICK kerak, z : ses' = [ses EXCEPT !.pc = IF kerak = {} THEN "saralash" ELSE "coingecko",
                                         !.elak = keng, !.pool = pool, !.nomzodlar = q,
                                         !.bolaklar = z, !.kerak = kerak]
  BY <1>0
<1>2. ses.pc = "elak" /\ birja' = birja /\ baza' = baza /\ jurnal' = jurnal  BY DEF Elanadi
<1>3. keng \subseteq D /\ Darvoza \subseteq D  BY DEF Elakdan, Darvoza, QaytaQaraladi
<1>4. pool \subseteq keng /\ (Cardinality(keng) <= MAX_POOL => pool = keng)  BY DEF Kesilgan
<1>5. Range(q) \subseteq D \ keng /\ Range(q) \cap OldingiOrinli = {}
  <2>1. \A x \in Range(q) : x \in (Darvoza \ keng) \ OldingiOrinli  BY DEF namuna_tanla, Range
  <2>. QED  BY <1>3, <2>1
<1>6. QaytaQaraladi \subseteq keng  OBVIOUS
<1>. HIDE DEF keng, pool
<1>. DEFINE F == {"pc", "elak", "pool", "nomzodlar", "bolaklar", "kerak"}
<1>7. DOMAIN ses = MAYDON /\ F \subseteq MAYDON  BY DEF SesInv, SesShakli, MAYDON
<1>8. /\ DOMAIN ses' = MAYDON /\ ses'.pc \in {"saralash", "coingecko"}
      /\ ses'.elak = keng /\ ses'.pool = pool /\ ses'.nomzodlar = q
      /\ \A f \in MAYDON \ F : ses'[f] = ses[f]
  BY <1>1, <1>7
<1>9. /\ ses'.juft = ses.juft /\ ses'.ticker = ses.ticker /\ ses'.stavka = ses.stavka
      /\ ses'.oraliq = ses.oraliq /\ ses'.ta = ses.ta /\ ses'.turi = ses.turi /\ ses'.sahifa = ses.sahifa
  BY <1>8 DEF MAYDON
<1>. HIDE DEF F
<1>10. ses.pc \in OLDIN /\ ses'.pc \in ORADA  BY <1>2, <1>8 DEF OLDIN, ORADA
<1>11. BirjaTuri' /\ BazaTuri'  BY <1>2, TuriQoladiL DEF SesInv
<1>12. SesShakli'  BY <1>2, <1>8, <1>9, <1>10 DEF SesInv, SesShakli
<1>13. SesBozori'  BY <1>2, <1>9 DEF SesInv, SesBozori
<1>14. SesElagi'
  <2>1. QaytaQaraladi' = QaytaQaraladi  BY <1>2, <1>9 DEF QaytaQaraladi, ANomzodlar
  <2>2. OldingiOrinli' = OldingiOrinli  BY <1>2, <1>9 DEF OldingiOrinli
  <2>3. /\ ses'.elak \subseteq DOMAIN ses'.juft \cap DOMAIN ses'.ticker
        /\ ses'.pool \subseteq ses'.elak /\ QaytaQaraladi \subseteq ses'.elak
        /\ Range(ses'.nomzodlar) \subseteq DOMAIN ses'.juft \cap DOMAIN ses'.ticker
        /\ Range(ses'.nomzodlar) \cap ses'.elak = {}
        /\ Range(ses'.nomzodlar) \cap OldingiOrinli = {}
    BY <1>3, <1>4, <1>5, <1>6, <1>8, <1>9
  <2>. QED  BY <2>1, <2>2, <2>3 DEF SesElagi
<1>15. SesSarasi'
  <2>1. Cardinality(ses'.elak) <= MAX_POOL => ses'.pool = ses'.elak  BY <1>4, <1>8
  <2>. QED  BY <1>10, <2>1, JoyL DEF SesSarasi
<1>16. Rivoyat(ses.ta)'  BY <1>2, <1>9, RivoyatQoladiL DEF SesInv
<1>17. SesJurnali'
  <2>1. jurnal["oi"].holat # "xato" /\ jurnal["coingecko"].holat # "xato"
    BY <1>10 DEF SesInv, SesJurnali
  <2>2. jurnal["funding"].holat = "xato" => DOMAIN ses.stavka = {}
    BY <1>2 DEF SesInv, SesJurnali
  <2>3. ses'.pc \notin KEYIN  BY <1>10, JoyL
  <2>4. ses'.pc = "saralash" => jurnal["coingecko"].holat # "xato"  BY <2>1
  <2>5. jurnal' = jurnal /\ ses'.stavka = ses.stavka /\ ses'.ta = ses.ta  BY <1>2, <1>9
  <2>. QED  BY <2>1, <2>2, <2>3, <2>4, <2>5 DEF SesJurnali
<1>18. ~Tugadi'
  <2>1. "tugadi" \in KEYIN  BY DEF KEYIN
  <2>. QED  BY <1>10, <2>1, JoyL DEF Tugadi
<1>. QED  BY <1>11, <1>12, <1>13, <1>14, <1>15, <1>16, <1>17, <1>18 DEF SesInv

\* A request to CoinGecko: what it adds is what a row says.
LEMMA OradaQadamL ==
  ASSUME SesInv, ses.pc \in {"coingecko", "sahifa"}, ses'.pc \in ORADA, birja' = birja, baza' = baza,
         DOMAIN ses' = MAYDON, \A f \in MAYDON \ {"pc", "ta", "bolaklar", "sahifa"} : ses'[f] = ses[f],
         ses'.sahifa \in 1..ZAXIRA_SAHIFALAR, Rivoyat(ses'.ta), DOMAIN jurnal' = MANBALAR,
         \A n \in MANBALAR \ {"coingecko"} : jurnal'[n] = jurnal[n],
         ses'.pc = "coingecko" => jurnal'["coingecko"].holat # "xato",
         ses'.pc = "saralash" => (jurnal'["coingecko"].holat = "xato" => ses'.ta = Bosha)
  PROVE  SesInv'
<1>1. /\ ses'.juft = ses.juft /\ ses'.ticker = ses.ticker /\ ses'.stavka = ses.stavka
      /\ ses'.oraliq = ses.oraliq /\ ses'.turi = ses.turi /\ ses'.elak = ses.elak
      /\ ses'.nomzodlar = ses.nomzodlar /\ ses'.pool = ses.pool
  BY DEF MAYDON
<1>2. ses.pc \in ORADA  BY DEF ORADA
<1>3. BirjaTuri' /\ BazaTuri' /\ CgQatorlari' = CgQatorlari  BY TuriQoladiL DEF SesInv
<1>4. SesShakli'  BY <1>1 DEF SesInv, SesShakli
<1>5. SesBozori'
  <2>1. "juftliklar" \in OLDIN /\ "ticker" \in OLDIN  BY DEF OLDIN
  <2>. QED  BY <1>1, <1>2, <2>1, JoyL DEF SesInv, SesBozori
<1>6. SesElagi'  BY <1>1, <1>2, ElakQoladiL DEF SesInv
<1>7. SesSarasi'  BY <1>1, <1>2, JoyL DEF SesInv, SesSarasi
<1>8. Rivoyat(ses.ta)'  BY <1>3 DEF Rivoyat
<1>9. SesJurnali'
  <2>1. jurnal'["oi"] = jurnal["oi"] /\ jurnal'["funding"] = jurnal["funding"]  BY DEF MANBALAR
  <2>2. jurnal["oi"].holat # "xato"  BY <1>2 DEF SesInv, SesJurnali
  <2>3. jurnal["funding"].holat = "xato" => DOMAIN ses.stavka = {}
    BY <1>2 DEF SesInv, SesJurnali
  <2>. QED  BY <1>1, <2>1, <2>2, <2>3, JoyL DEF SesJurnali
<1>10. ~Tugadi'
  <2>1. "tugadi" \in KEYIN  BY DEF KEYIN
  <2>. QED  BY <2>1, JoyL DEF Tugadi
<1>. QED  BY <1>3, <1>4, <1>5, <1>6, <1>7, <1>8, <1>9, <1>10 DEF SesInv

LEMMA CgJavobL ==
  ASSUME BirjaTuri, NEW t, t \in Seq(CgQatori), Range(t) \subseteq CgQatorlari,
         NEW a \in Javoblari(t), NEW kerak
  PROVE  Rivoyat(taminotni_ajrat(a, kerak))
<1>1. Qatorlari_(a) = t \/ Qatorlari_(a) = <<>>  BY JavobL
<1>2. <<>> \in Seq(CgQatori) /\ Range(<<>>) \subseteq CgQatorlari  BY DEF Range
<1>. QED  BY <1>1, <1>2, TaminotL

LEMMA BolakOlinadiL ==
  ASSUME SesInv, BolakOlinadi
  PROVE  SesInv'
<1>0. PICK a \in Javoblari(birja.cg) : \E b :
        IF Otdi(a)
        THEN /\ ses' = [ses EXCEPT !.ta = Birga(taminotni_ajrat(a, b), ses.ta), !.bolaklar = Tail(@),
                                   !.pc = IF Len(ses.bolaklar) = 1 THEN "saralash" ELSE @]
             /\ jurnal' = IF Len(ses.bolaklar) = 1 THEN yoz(jurnal, "coingecko", 200) ELSE jurnal
        ELSE /\ ses' = [ses EXCEPT !.pc = "sahifa", !.bolaklar = <<>>]
             /\ jurnal' = yoz(jurnal, "coingecko", a.kod)
  BY DEF BolakOlinadi
<1>1. PICK b :
        IF Otdi(a)
        THEN /\ ses' = [ses EXCEPT !.ta = Birga(taminotni_ajrat(a, b), ses.ta), !.bolaklar = Tail(@),
                                   !.pc = IF Len(ses.bolaklar) = 1 THEN "saralash" ELSE @]
             /\ jurnal' = IF Len(ses.bolaklar) = 1 THEN yoz(jurnal, "coingecko", 200) ELSE jurnal
        ELSE /\ ses' = [ses EXCEPT !.pc = "sahifa", !.bolaklar = <<>>]
             /\ jurnal' = yoz(jurnal, "coingecko", a.kod)
  BY <1>0
<1>2. ses.pc = "coingecko" /\ birja' = birja /\ baza' = baza  BY DEF BolakOlinadi
<1>. DEFINE ta == Birga(taminotni_ajrat(a, b), ses.ta)
<1>3. Rivoyat(ta)
  <2>1. birja.cg \in Seq(CgQatori) /\ Range(birja.cg) \subseteq CgQatorlari
    BY DEF SesInv, BirjaTuri, CgQatorlari
  <2>2. Rivoyat(taminotni_ajrat(a, b))  BY <2>1, CgJavobL DEF SesInv
  <2>. QED  BY <2>2, BirgaL DEF SesInv
<1>. HIDE DEF ta
<1>4. /\ DOMAIN ses = MAYDON /\ {"pc", "ta", "bolaklar", "sahifa"} \subseteq MAYDON
      /\ DOMAIN jurnal = MANBALAR /\ ses.sahifa \in 1..ZAXIRA_SAHIFALAR
  BY DEF SesInv, SesShakli, MAYDON
<1>5. jurnal["coingecko"].holat # "xato" /\ "coingecko" \in MANBALAR  
  <2>1. jurnal["coingecko"].holat # "xato"  BY <1>2 DEF SesInv, SesJurnali
  <2>. QED  BY <2>1, ManbaL
<1>6. CASE Otdi(a)
  <2>1. PICK z, p : ses' = [ses EXCEPT !.ta = ta, !.bolaklar = z, !.pc = p]
                    /\ p \in {"coingecko", "saralash"}
    BY <1>1, <1>2, <1>6 DEF ta
  <2>2. /\ DOMAIN ses' = MAYDON /\ ses'.pc \in {"coingecko", "saralash"} /\ ses'.ta = ta
        /\ \A f \in MAYDON \ {"pc", "ta", "bolaklar", "sahifa"} : ses'[f] = ses[f]
        /\ ses'.sahifa = ses.sahifa
    BY <1>4, <2>1
  <2>3. jurnal' = jurnal \/ jurnal' = yoz(jurnal, "coingecko", 200)  BY <1>1, <1>6
  <2>4. /\ DOMAIN jurnal' = MANBALAR /\ jurnal'["coingecko"].holat # "xato"
        /\ \A n \in MANBALAR \ {"coingecko"} : jurnal'[n] = jurnal[n]
    BY <1>4, <1>5, <2>3, YozL
  <2>5. ses.pc \in {"coingecko", "sahifa"} /\ ses'.pc \in ORADA  BY <1>2, <2>2 DEF ORADA
  <2>. QED  BY <1>2, <1>3, <1>4, <2>2, <2>4, <2>5, OradaQadamL
<1>7. CASE ~Otdi(a)
  <2>1. ses' = [ses EXCEPT !.pc = "sahifa", !.bolaklar = <<>>] /\ jurnal' = yoz(jurnal, "coingecko", a.kod)
    BY <1>1, <1>7
  <2>2. /\ DOMAIN ses' = MAYDON /\ ses'.pc = "sahifa" /\ ses'.ta = ses.ta
        /\ \A f \in MAYDON \ {"pc", "ta", "bolaklar", "sahifa"} : ses'[f] = ses[f]
        /\ ses'.sahifa = ses.sahifa
    BY <1>4, <2>1
  <2>3. /\ DOMAIN jurnal' = MANBALAR
        /\ \A n \in MANBALAR \ {"coingecko"} : jurnal'[n] = jurnal[n]
    BY <1>4, <1>5, <2>1, YozL
  <2>4. ses.pc \in {"coingecko", "sahifa"} /\ ses'.pc \in ORADA  BY <1>2, <2>2 DEF ORADA
  <2>5. Rivoyat(ses'.ta)  BY <2>2 DEF SesInv
  <2>. QED  BY <1>2, <1>4, <2>2, <2>3, <2>4, <2>5, OradaQadamL
<1>. QED  BY <1>6, <1>7

LEMMA SahifaOlinadiL ==
  ASSUME SesInv, SahifaOlinadi
  PROVE  SesInv'
<1>1. PICK a \in Javoblari(birja.sahifalar[ses.sahifa]) :
        LET ta == Birga(ses.ta, taminotni_ajrat(a, ses.kerak \ DOMAIN ses.ta))
            oxiri == ~Otdi(a) \/ ses.kerak \subseteq DOMAIN ta \/ ses.sahifa = ZAXIRA_SAHIFALAR
        IN /\ ses' = [ses EXCEPT !.ta = ta, !.sahifa = IF oxiri THEN 1 ELSE @ + 1,
                                 !.pc = IF oxiri THEN "saralash" ELSE @]
           /\ jurnal' = IF oxiri /\ ta # Bosha THEN yoz(jurnal, "coingecko", 200) ELSE jurnal
  BY DEF SahifaOlinadi
<1>2. ses.pc = "sahifa" /\ birja' = birja /\ baza' = baza  BY DEF SahifaOlinadi
<1>. DEFINE ta == Birga(ses.ta, taminotni_ajrat(a, ses.kerak \ DOMAIN ses.ta))
            oxiri == ~Otdi(a) \/ ses.kerak \subseteq DOMAIN ta \/ ses.sahifa = ZAXIRA_SAHIFALAR
<1>3. /\ DOMAIN ses = MAYDON /\ {"pc", "ta", "bolaklar", "sahifa"} \subseteq MAYDON
      /\ DOMAIN jurnal = MANBALAR /\ ses.sahifa \in 1..ZAXIRA_SAHIFALAR /\ "coingecko" \in MANBALAR
  BY ManbaL DEF SesInv, SesShakli, MAYDON
<1>4. Rivoyat(ta)
  <2>. DEFINE t == birja.sahifalar[ses.sahifa]
  <2>1. t \in Seq(CgQatori)  BY <1>3 DEF SesInv, BirjaTuri
  <2>2. DOMAIN birja.sahifalar = 1..ZAXIRA_SAHIFALAR  BY DEF SesInv, BirjaTuri
  <2>3. Range(t) \subseteq CgQatorlari  BY <1>3, <2>2 DEF CgQatorlari
  <2>4. a \in Javoblari(t)  OBVIOUS
  <2>. HIDE DEF t
  <2>5. Rivoyat(taminotni_ajrat(a, ses.kerak \ DOMAIN ses.ta))  BY <2>1, <2>3, <2>4, CgJavobL DEF SesInv
  <2>. QED  BY <2>5, BirgaL DEF SesInv
<1>5. /\ ses' = [ses EXCEPT !.ta = ta, !.sahifa = IF oxiri THEN 1 ELSE @ + 1,
                            !.pc = IF oxiri THEN "saralash" ELSE @]
      /\ jurnal' = IF oxiri /\ ta # Bosha THEN yoz(jurnal, "coingecko", 200) ELSE jurnal
      /\ ses.sahifa = ZAXIRA_SAHIFALAR => oxiri
  BY <1>1
<1>. HIDE DEF ta, oxiri
<1>6. /\ DOMAIN ses' = MAYDON /\ ses'.pc = (IF oxiri THEN "saralash" ELSE "sahifa") /\ ses'.ta = ta
      /\ \A f \in MAYDON \ {"pc", "ta", "bolaklar", "sahifa"} : ses'[f] = ses[f]
      /\ ses'.sahifa = IF oxiri THEN 1 ELSE ses.sahifa + 1
  BY <1>2, <1>3, <1>5
<1>7. ses'.sahifa \in 1..ZAXIRA_SAHIFALAR
  <2>1. ZAXIRA_SAHIFALAR \in Nat \ {0}  BY SessiyaFarazi
  <2>. QED  BY <1>3, <1>5, <1>6, <2>1
<1>8. jurnal' = jurnal \/ jurnal' = yoz(jurnal, "coingecko", 200)  BY <1>5
<1>9. /\ DOMAIN jurnal' = MANBALAR
      /\ \A n \in MANBALAR \ {"coingecko"} : jurnal'[n] = jurnal[n]
      /\ yoz(jurnal, "coingecko", 200)["coingecko"].holat # "xato"
  BY <1>3, <1>8, YozL
<1>10. ses'.pc = "saralash" => (jurnal'["coingecko"].holat = "xato" => ses'.ta = Bosha)
  BY <1>5, <1>6, <1>9
<1>11. ses.pc \in {"coingecko", "sahifa"} /\ ses'.pc \in ORADA /\ ses'.pc # "coingecko"
  BY <1>2, <1>6 DEF ORADA
<1>. QED  BY <1>2, <1>4, <1>6, <1>7, <1>9, <1>10, <1>11, OradaQadamL

\* Finite sets of the session.
LEMMA ChuqurL ==
  ASSUME SesInv, ses.pc \in KEYIN
  PROVE  /\ Chuqur \subseteq DOMAIN ses.juft \cap DOMAIN ses.ticker
         /\ IsFiniteSet(Chuqur) /\ Chuqur \subseteq Symbollar
<1>1. ses.pool \subseteq DOMAIN ses.juft \cap DOMAIN ses.ticker
      /\ Range(ses.nomzodlar) \subseteq DOMAIN ses.juft \cap DOMAIN ses.ticker
  BY DEF SesInv, SesElagi
<1>2. ses.namuna \subseteq Range(ses.nomzodlar)  BY DEF SesInv, SesSarasi
<1>3. DOMAIN ses.juft \subseteq Symbollar  BY DEF SesInv, SesBozori
<1>4. IsFiniteSet(Symbollar)  BY SessiyaFarazi
<1>5. Chuqur \subseteq DOMAIN ses.juft \cap DOMAIN ses.ticker  BY <1>1, <1>2 DEF Chuqur
<1>6. Chuqur \subseteq Symbollar  BY <1>3, <1>5
<1>. QED  BY <1>4, <1>5, <1>6, FS_Subset

LEMMA SaralanadiL ==
  ASSUME SesInv, Saralanadi
  PROVE  SesInv'
<1>. DEFINE pool == {s \in ses.pool : KapdanOtadi(s)}
<1>1. PICK otdi, boshi, namuna :
        /\ otdi = {i \in DOMAIN ses.nomzodlar : KapdanOtadi(ses.nomzodlar[i])}
        /\ boshi = {i \in otdi : Cardinality({k \in otdi : k < i}) < Ch.namuna_soni}
        /\ namuna = {ses.nomzodlar[i] : i \in boshi}
        /\ ses' = [ses EXCEPT !.pc = "oi", !.pool = pool, !.namuna = namuna]
  <2>1. ses' = [ses EXCEPT !.pc = "oi", !.pool = {s \in @ : KapdanOtadi(s)},
                  !.namuna = {ses.nomzodlar[i] : i \in
                     {i \in {i \in DOMAIN ses.nomzodlar : KapdanOtadi(ses.nomzodlar[i])} :
                        Cardinality({k \in {i_1 \in DOMAIN ses.nomzodlar : KapdanOtadi(ses.nomzodlar[i_1])} : k < i}) < Ch.namuna_soni}}]
    BY DEF Saralanadi
  <2>2. {"pool"} \subseteq DOMAIN ses  BY DEF SesInv, SesShakli, MAYDON
  <2>. QED  BY <2>1, <2>2
<1>2. ses.pc = "saralash" /\ birja' = birja /\ baza' = baza /\ jurnal' = jurnal  BY DEF Saralanadi
<1>3. namuna \subseteq Range(ses.nomzodlar)  BY <1>1 DEF Range
<1>4. pool \subseteq ses.pool  OBVIOUS
<1>5. DOMAIN ses = MAYDON /\ {"pc", "pool", "namuna"} \subseteq MAYDON  BY DEF SesInv, SesShakli, MAYDON
<1>. HIDE DEF pool
<1>6. /\ DOMAIN ses' = MAYDON /\ ses'.pc = "oi" /\ ses'.pool = pool /\ ses'.namuna = namuna
      /\ \A f \in MAYDON \ {"pc", "pool", "namuna"} : ses'[f] = ses[f]
  BY <1>1, <1>5
<1>7. /\ ses'.juft = ses.juft /\ ses'.ticker = ses.ticker /\ ses'.stavka = ses.stavka
      /\ ses'.oraliq = ses.oraliq /\ ses'.ta = ses.ta /\ ses'.turi = ses.turi
      /\ ses'.sahifa = ses.sahifa /\ ses'.elak = ses.elak /\ ses'.nomzodlar = ses.nomzodlar
  BY <1>6 DEF MAYDON
<1>8. ses.pc \in ORADA /\ ses'.pc \in KEYIN  BY <1>2, <1>6 DEF ORADA, KEYIN
<1>9. BirjaTuri' /\ BazaTuri'  BY <1>2, TuriQoladiL DEF SesInv
<1>10. SesShakli'  BY <1>2, <1>6, <1>7, <1>8 DEF SesInv, SesShakli
<1>11. SesBozori'  BY <1>2, <1>7 DEF SesInv, SesBozori
<1>12. SesElagi'  BY <1>2, <1>4, <1>6, <1>7, <1>8, ElakQoladiL DEF SesInv
<1>13. SesSarasi'
  <2>1. \A s : KapdanOtadi(s)' <=> KapdanOtadi(s)  BY <1>7, KapQoladiL
  <2>2. Cardinality(ses.elak) <= MAX_POOL => ses.pool = ses.elak  BY <1>8 DEF SesInv, SesSarasi
  <2>3. Cardinality(ses.elak) <= MAX_POOL => pool = {s \in ses.elak : KapdanOtadi(s)}
    BY <2>2 DEF pool
  <2>4. Cardinality(ses'.elak) <= MAX_POOL => ses'.pool = {s \in ses'.elak : KapdanOtadi(s)'}
    BY <1>6, <1>7, <2>1, <2>3
  <2>5. ses'.namuna \subseteq Range(ses'.nomzodlar)  BY <1>3, <1>6, <1>7
  <2>. QED  BY <1>8, <2>4, <2>5, JoyL DEF SesSarasi
<1>14. Rivoyat(ses.ta)'  BY <1>2, <1>7, RivoyatQoladiL DEF SesInv
<1>15. SesJurnali'
  <2>1. jurnal["oi"].holat # "xato"  BY <1>8 DEF SesInv, SesJurnali
  <2>2. jurnal["funding"].holat = "xato" => DOMAIN ses.stavka = {}
    BY <1>8 DEF SesInv, SesJurnali
  <2>3. jurnal["coingecko"].holat = "xato" => ses.ta = Bosha
    BY <1>2 DEF SesInv, SesJurnali
  <2>4. "coingecko" \in ORADA  BY DEF ORADA
  <2>5. ses'.pc = "oi" /\ ses'.pc \notin OLDIN \cup {"coingecko"}  BY <1>6, <1>8, JoyL
  <2>6. jurnal' = jurnal /\ ses'.stavka = ses.stavka /\ ses'.ta = ses.ta  BY <1>2, <1>7
  <2>. QED  BY <2>1, <2>2, <2>3, <2>5, <2>6 DEF SesJurnali
<1>16. ~Tugadi'  BY <1>6 DEF Tugadi
<1>. QED  BY <1>9, <1>10, <1>11, <1>12, <1>13, <1>14, <1>15, <1>16, SesInvKeyinL

\* A step after the sorting leaves what the session has.
LEMMA KeyinQadamL ==
  ASSUME SesInv, ses.pc \in KEYIN, ses'.pc \in KEYIN, birja' = birja, baza' = baza,
         DOMAIN ses' = MAYDON,
         \A f \in MAYDON \ {"pc", "oi", "oiYoq", "ls", "unlock"} : ses'[f] = ses[f],
         DOMAIN jurnal' = MANBALAR,
         jurnal'["funding"] = jurnal["funding"], jurnal'["coingecko"] = jurnal["coingecko"],
         ses'.pc # "oi",
         Chuqur' = Chuqur =>
            /\ ses'.oiYoq \subseteq Chuqur
            /\ \A s \in ses'.oiYoq : Len(ses'.oi[s]) = 0
            /\ (jurnal'["oi"].holat = "xato") <=> (2 * Cardinality(ses'.oiYoq) > Cardinality(Chuqur)),
         Tugadi' => qator' = Qatorlari'
  PROVE  SesInv'
<1>1. /\ ses'.juft = ses.juft /\ ses'.ticker = ses.ticker /\ ses'.stavka = ses.stavka
      /\ ses'.oraliq = ses.oraliq /\ ses'.turi = ses.turi /\ ses'.elak = ses.elak
      /\ ses'.nomzodlar = ses.nomzodlar /\ ses'.pool = ses.pool /\ ses'.namuna = ses.namuna
      /\ ses'.ta = ses.ta /\ ses'.sahifa = ses.sahifa
  BY DEF MAYDON
<1>2. BirjaTuri' /\ BazaTuri'  BY TuriQoladiL DEF SesInv
<1>3. SesShakli'  BY <1>1 DEF SesInv, SesShakli
<1>4. SesBozori'
  <2>1. "juftliklar" \in OLDIN /\ "ticker" \in OLDIN  BY DEF OLDIN
  <2>. QED  BY <1>1, <2>1, JoyL DEF SesInv, SesBozori
<1>5. SesElagi'  BY <1>1, ElakQoladiL DEF SesInv
<1>6. SesSarasi'
  <2>1. \A s : KapdanOtadi(s)' <=> KapdanOtadi(s)  BY <1>1, KapQoladiL
  <2>2. /\ Cardinality(ses.elak) <= MAX_POOL => ses.pool = {s \in ses.elak : KapdanOtadi(s)}
        /\ ses.namuna \subseteq Range(ses.nomzodlar)
    BY DEF SesInv, SesSarasi
  <2>3. Cardinality(ses'.elak) <= MAX_POOL => ses'.pool = {s \in ses'.elak : KapdanOtadi(s)'}
    BY <1>1, <2>1, <2>2
  <2>4. ses'.namuna \subseteq Range(ses'.nomzodlar)  BY <1>1, <2>2
  <2>. QED  BY <2>3, <2>4, JoyL DEF SesSarasi
<1>7. Rivoyat(ses.ta)'  BY <1>1, RivoyatQoladiL DEF SesInv
<1>8. SesJurnali'
  <2>1. Chuqur' = Chuqur  BY <1>1 DEF Chuqur
  <2>2. jurnal["funding"].holat = "xato" => DOMAIN ses.stavka = {}
    BY DEF SesInv, SesJurnali
  <2>3. jurnal["coingecko"].holat = "xato" => ses.ta = Bosha
    BY DEF SesInv, SesJurnali
  <2>4. "coingecko" \in ORADA  BY DEF ORADA
  <2>5. ses'.pc \notin OLDIN \cup {"coingecko"} /\ ses'.pc \notin OLDIN \cup ORADA \cup {"oi"}
    BY <2>4, JoyL
  <2>. QED  BY <1>1, <2>1, <2>2, <2>3, <2>5 DEF SesJurnali
<1>. QED  BY <1>2, <1>3, <1>4, <1>5, <1>6, <1>7, <1>8 DEF SesInv

\* A request that failed brings no points.
LEMMA OiYoqL ==
  ASSUME NEW x
  PROVE  Len(oi_ni_ajrat(CoinJavobi(x, TRUE))) = 0
<1>1. Qatorlari_(CoinJavobi(x, TRUE)) = <<>>  BY DEF CoinJavobi, Qatorlari_, Bosh
<1>. DEFINE q == Qatorlari_(CoinJavobi(x, TRUE))
            bor == {i \in DOMAIN q : Son(q[i].vaqt) # NOMALUM /\ Son(q[i].oi) # NOMALUM}
<1>2. bor = {}
  <2>0. \A p : p = <<>> => DOMAIN p = {}  OBVIOUS
  <2>1. DOMAIN q = {}  BY <1>1, <2>0
  <2>. HIDE DEF q
  <2>. QED  BY <2>1
<1>3. Cardinality({}) = 0  BY FS_EmptySet
<1>4. Cardinality(bor) = 0  BY <1>2, <1>3
<1>5. PICK f : oi_ni_ajrat(CoinJavobi(x, TRUE)) = [n \in 1..Cardinality(bor) |-> f[n]]
  <2>. DEFINE oldin(i, k) == \/ q[i].vaqt[2] < q[k].vaqt[2]
                             \/ q[i].vaqt[2] = q[k].vaqt[2] /\ q[i].oi[2] < q[k].oi[2]
                             \/ q[i].vaqt[2] = q[k].vaqt[2] /\ q[i].oi[2] = q[k].oi[2] /\ i < k
              ninchi(n) == CHOOSE i \in bor : Cardinality({k \in bor : oldin(k, i)}) = n - 1
              h == [n \in 1..Cardinality(bor) |-> q[ninchi(n)].oi[2]]
  <2>1. oi_ni_ajrat(CoinJavobi(x, TRUE)) = h  BY DEF oi_ni_ajrat
  <2>. HIDE DEF ninchi, q, bor
  <2>2. h = [n \in 1..Cardinality(bor) |-> h[n]]
    <3>1. \A n \in 1..Cardinality(bor) : h[n] = q[ninchi(n)].oi[2]  OBVIOUS
    <3>. QED  BY <3>1
  <2>. HIDE DEF h
  <2>3. oi_ni_ajrat(CoinJavobi(x, TRUE)) = [n \in 1..Cardinality(bor) |-> h[n]]  BY <2>1, <2>2
  <2>. WITNESS h
  <2>. QED  BY <2>3
<1>6. oi_ni_ajrat(CoinJavobi(x, TRUE)) = [n \in 1..0 |-> f[n]]
  <2>. HIDE DEF bor
  <2>. QED  BY <1>4, <1>5
<1>7. Len([n \in 1..0 |-> f[n]]) = 0  OBVIOUS
<1>. QED  BY <1>6, <1>7

LEMMA HisoblaL ==
  ASSUME NEW j, DOMAIN j = MANBALAR, NEW nom \in MANBALAR, NEW jami \in Nat, NEW yiqildi \in Nat,
         j[nom].holat # "xato", yiqildi <= jami
  PROVE  /\ DOMAIN hisobla(j, nom, jami, yiqildi) = MANBALAR
         /\ hisobla(j, nom, jami, yiqildi)[nom].holat = "xato" <=> 2 * yiqildi > jami
         /\ \A m \in MANBALAR \ {nom} : hisobla(j, nom, jami, yiqildi)[m] = j[m]
<1>1. CASE jami = 0  BY <1>1 DEF hisobla
<1>2. CASE jami # 0
  <2>. DEFINE v == [holat |-> IF (jami - yiqildi) * 2 >= jami THEN "ok" ELSE "xato",
                    kod |-> IF yiqildi = 0 THEN j[nom].kod ELSE TARMOQ,
                    otdi |-> jami - yiqildi, jami |-> jami]
  <2>1. hisobla(j, nom, jami, yiqildi) = [j EXCEPT ![nom] = v]  BY <1>2 DEF hisobla
  <2>2. v.holat = "xato" <=> ~((jami - yiqildi) * 2 >= jami)  OBVIOUS
  <2>3. ~((jami - yiqildi) * 2 >= jami) <=> 2 * yiqildi > jami  OBVIOUS
  <2>. HIDE DEF v
  <2>. QED  BY <2>1, <2>2, <2>3
<1>. QED  BY <1>1, <1>2

LEMMA OiOlinadiL ==
  ASSUME SesInv, OiOlinadi
  PROVE  SesInv'
<1>1. PICK F \in SUBSET Chuqur :
        /\ jurnal' = Hisoblangan("oi", F)
        /\ ses' = [ses EXCEPT !.pc = "ls", !.oiYoq = F,
                     !.oi = [s \in Chuqur |-> oi_ni_ajrat(CoinJavobi(birja.oi[s], s \in F))]]
  BY DEF OiOlinadi
<1>. DEFINE oi == [s \in Chuqur |-> oi_ni_ajrat(CoinJavobi(birja.oi[s], s \in F))]
<1>2. ses.pc = "oi" /\ birja' = birja /\ baza' = baza  BY DEF OiOlinadi
<1>3. \A s \in F : Len(oi[s]) = 0
  <2>1. \A s \in F : oi[s] = oi_ni_ajrat(CoinJavobi(birja.oi[s], TRUE))  OBVIOUS
  <2>. HIDE DEF oi
  <2>. QED  BY <2>1, OiYoqL
<1>4. ses' = [ses EXCEPT !.pc = "ls", !.oiYoq = F, !.oi = oi]  BY <1>1
<1>. HIDE DEF oi
<1>5. DOMAIN ses = MAYDON /\ {"pc", "oiYoq", "oi"} \subseteq MAYDON /\ DOMAIN jurnal = MANBALAR
  BY DEF SesInv, SesShakli, MAYDON
<1>6. /\ DOMAIN ses' = MAYDON /\ ses'.pc = "ls" /\ ses'.oiYoq = F /\ ses'.oi = oi
      /\ \A f \in MAYDON \ {"pc", "oiYoq", "oi"} : ses'[f] = ses[f]
  BY <1>4, <1>5
<1>7. ses.pc \in KEYIN /\ ses'.pc \in KEYIN  BY <1>2, <1>6 DEF KEYIN
<1>8. jurnal["oi"].holat # "xato"  BY <1>2 DEF SesInv, SesJurnali
<1>9. Cardinality(F) \in Nat /\ Cardinality(Chuqur) \in Nat /\ Cardinality(F) <= Cardinality(Chuqur)
  <2>1. IsFiniteSet(Chuqur)  BY <1>7, ChuqurL
  <2>. QED  BY <2>1, FS_Subset, FS_CardinalityType
<1>10. /\ DOMAIN jurnal' = MANBALAR
       /\ jurnal'["oi"].holat = "xato" <=> 2 * Cardinality(F) > Cardinality(Chuqur)
       /\ jurnal'["funding"] = jurnal["funding"] /\ jurnal'["coingecko"] = jurnal["coingecko"]
  <2>1. "oi" \in MANBALAR /\ {"funding", "coingecko"} \subseteq MANBALAR \ {"oi"}  BY ManbaL
  <2>. DEFINE n == Cardinality(Chuqur)
              y == Cardinality(F)
  <2>2. jurnal' = hisobla(jurnal, "oi", n, y)  BY <1>1 DEF Hisoblangan
  <2>3. n \in Nat /\ y \in Nat /\ y <= n  BY <1>9
  <2>. HIDE DEF n, y
  <2>4. DOMAIN jurnal = MANBALAR  BY <1>5
  <2>5. /\ DOMAIN hisobla(jurnal, "oi", n, y) = MANBALAR
        /\ hisobla(jurnal, "oi", n, y)["oi"].holat = "xato" <=> 2 * y > n
        /\ \A k \in MANBALAR \ {"oi"} : hisobla(jurnal, "oi", n, y)[k] = jurnal[k]
    BY <1>8, <2>1, <2>3, <2>4, HisoblaL
  <2>. QED  BY <2>1, <2>2, <2>5 DEF n, y
<1>11. ~Tugadi' /\ ses'.pc # "oi"  BY <1>6 DEF Tugadi
<1>12. /\ ses'.oiYoq \subseteq Chuqur /\ \A s \in ses'.oiYoq : Len(ses'.oi[s]) = 0
       /\ (jurnal'["oi"].holat = "xato") <=> (2 * Cardinality(ses'.oiYoq) > Cardinality(Chuqur))
  BY <1>3, <1>6, <1>10
<1>. QED  BY <1>2, <1>6, <1>7, <1>10, <1>11, <1>12, KeyinQadamL

LEMMA LongShortOlinadiL ==
  ASSUME SesInv, LongShortOlinadi
  PROVE  SesInv'
<1>0. PICK F \in SUBSET Chuqur :
        \E ls : jurnal' = Hisoblangan("long_short", F) /\ ses' = [ses EXCEPT !.pc = "unlock", !.ls = ls]
  BY DEF LongShortOlinadi
<1>1. PICK ls :
        jurnal' = Hisoblangan("long_short", F) /\ ses' = [ses EXCEPT !.pc = "unlock", !.ls = ls]
  BY <1>0
<1>2. ses.pc = "ls" /\ birja' = birja /\ baza' = baza  BY DEF LongShortOlinadi
<1>3. DOMAIN ses = MAYDON /\ {"pc", "ls", "oiYoq", "oi"} \subseteq MAYDON /\ DOMAIN jurnal = MANBALAR
  BY DEF SesInv, SesShakli, MAYDON
<1>4. /\ DOMAIN ses' = MAYDON /\ ses'.pc = "unlock" /\ ses'.oiYoq = ses.oiYoq /\ ses'.oi = ses.oi
      /\ \A f \in MAYDON \ {"pc", "ls"} : ses'[f] = ses[f]
  BY <1>1, <1>3
<1>5. ses.pc \in KEYIN /\ ses'.pc \in KEYIN  BY <1>2, <1>4 DEF KEYIN
<1>6. /\ DOMAIN jurnal' = MANBALAR /\ jurnal'["oi"] = jurnal["oi"]
      /\ jurnal'["funding"] = jurnal["funding"] /\ jurnal'["coingecko"] = jurnal["coingecko"]
  <2>1. {"oi", "funding", "coingecko"} \subseteq MANBALAR \ {"long_short"}  BY ManbaL
  <2>2. jurnal' = hisobla(jurnal, "long_short", Cardinality(Chuqur), Cardinality(F))
    BY <1>1 DEF Hisoblangan
  <2>3. jurnal' = jurnal \/ \E v : jurnal' = [jurnal EXCEPT !["long_short"] = v]
    BY <2>2 DEF hisobla
  <2>. QED  BY <1>3, <2>1, <2>3
<1>7. /\ ses.oiYoq \subseteq Chuqur /\ \A s \in ses.oiYoq : Len(ses.oi[s]) = 0
      /\ (jurnal["oi"].holat = "xato") <=> (2 * Cardinality(ses.oiYoq) > Cardinality(Chuqur))
  BY <1>2, <1>5 DEF SesInv, SesJurnali
<1>8. ~Tugadi' /\ ses'.pc # "oi"  BY <1>4 DEF Tugadi
<1>. QED  BY <1>2, <1>4, <1>5, <1>6, <1>7, <1>8, KeyinQadamL

LEMMA UnlockOlinadiL ==
  ASSUME SesInv, UnlockOlinadi
  PROVE  SesInv'
<1>. DEFINE k(u) == IF u = Bosha THEN TARMOQ ELSE 200
<1>1. PICK u \in {birja.unlock} \cup (IF nosoz < MaxNosoz THEN {Bosha} ELSE {}) :
        jurnal' = yoz(jurnal, "unlock", k(u)) /\ ses' = [ses EXCEPT !.pc = "yozish", !.unlock = u]
  BY DEF UnlockOlinadi
<1>. HIDE DEF k
<1>2. ses.pc = "unlock" /\ birja' = birja /\ baza' = baza  BY DEF UnlockOlinadi
<1>3. DOMAIN ses = MAYDON /\ {"pc", "unlock", "oiYoq", "oi"} \subseteq MAYDON /\ DOMAIN jurnal = MANBALAR
  BY DEF SesInv, SesShakli, MAYDON
<1>4. /\ DOMAIN ses' = MAYDON /\ ses'.pc = "yozish" /\ ses'.oiYoq = ses.oiYoq /\ ses'.oi = ses.oi
      /\ \A f \in MAYDON \ {"pc", "unlock"} : ses'[f] = ses[f]
  BY <1>1, <1>3
<1>5. ses.pc \in KEYIN /\ ses'.pc \in KEYIN  BY <1>2, <1>4 DEF KEYIN
<1>6. /\ DOMAIN jurnal' = MANBALAR /\ jurnal'["oi"] = jurnal["oi"]
      /\ jurnal'["funding"] = jurnal["funding"] /\ jurnal'["coingecko"] = jurnal["coingecko"]
  <2>1. "unlock" \in MANBALAR /\ {"oi", "funding", "coingecko"} \subseteq MANBALAR \ {"unlock"}
    BY ManbaL
  <2>. QED  BY <1>1, <1>3, <2>1, YozL
<1>7. /\ ses.oiYoq \subseteq Chuqur /\ \A s \in ses.oiYoq : Len(ses.oi[s]) = 0
      /\ (jurnal["oi"].holat = "xato") <=> (2 * Cardinality(ses.oiYoq) > Cardinality(Chuqur))
  BY <1>2, <1>5 DEF SesInv, SesJurnali
<1>8. ~Tugadi' /\ ses'.pc # "oi"  BY <1>4 DEF Tugadi
<1>. QED  BY <1>2, <1>4, <1>5, <1>6, <1>7, <1>8, KeyinQadamL

\* The rows do not depend on the place the session is at.
LEMMA QatorlariL ==
  ASSUME baza' = baza, \A f \in MAYDON \ {"pc"} : ses'[f] = ses[f]
  PROVE  Qatorlari' = Qatorlari
<1>1. /\ ses'.juft = ses.juft /\ ses'.ticker = ses.ticker /\ ses'.stavka = ses.stavka
      /\ ses'.oraliq = ses.oraliq /\ ses'.turi = ses.turi /\ ses'.pool = ses.pool
      /\ ses'.namuna = ses.namuna /\ ses'.ta = ses.ta /\ ses'.oi = ses.oi /\ ses'.ls = ses.ls
      /\ ses'.unlock = ses.unlock
  BY DEF MAYDON
<1>2. \A s : Meta(s)' = Meta(s)  BY <1>1 DEF Meta
<1>3. \A s : TaminotOl(s)' = TaminotOl(s)  BY <1>1 DEF TaminotOl
<1>4. \A s : Coin(s)' = Coin(s)  BY <1>1, <1>2, <1>3 DEF Coin
<1>5. \A s : ANomzodmi(s)' = ANomzodmi(s)  BY <1>1 DEF ANomzodmi
<1>6. \A s : Qator(s)' = Qator(s)  BY <1>1, <1>2, <1>4, <1>5 DEF Qator
<1>7. Chuqur' = Chuqur /\ OldingiOrinli' = OldingiOrinli  BY <1>1 DEF Chuqur, OldingiOrinli
<1>. QED  BY <1>6, <1>7 DEF Qatorlari

LEMMA YoziladiL ==
  ASSUME SesInv, Yoziladi
  PROVE  SesInv'
<1>1. ses' = [ses EXCEPT !.pc = "tugadi"] /\ qator' = Qatorlari  BY DEF Yoziladi
<1>2. ses.pc = "yozish" /\ birja' = birja /\ baza' = baza /\ jurnal' = jurnal  BY DEF Yoziladi
<1>3. DOMAIN ses = MAYDON /\ {"pc", "oiYoq", "oi"} \subseteq MAYDON /\ DOMAIN jurnal = MANBALAR
  BY DEF SesInv, SesShakli, MAYDON
<1>4. /\ DOMAIN ses' = MAYDON /\ ses'.pc = "tugadi" /\ ses'.oiYoq = ses.oiYoq /\ ses'.oi = ses.oi
      /\ \A f \in MAYDON \ {"pc"} : ses'[f] = ses[f]
  BY <1>1, <1>3
<1>5. ses.pc \in KEYIN /\ ses'.pc \in KEYIN  BY <1>2, <1>4 DEF KEYIN
<1>7. /\ ses.oiYoq \subseteq Chuqur /\ \A s \in ses.oiYoq : Len(ses.oi[s]) = 0
      /\ (jurnal["oi"].holat = "xato") <=> (2 * Cardinality(ses.oiYoq) > Cardinality(Chuqur))
  BY <1>2, <1>5 DEF SesInv, SesJurnali
<1>8. qator' = Qatorlari'  BY <1>1, <1>2, <1>4, QatorlariL
<1>9. ses'.pc # "oi"  BY <1>4
<1>. QED  BY <1>2, <1>3, <1>4, <1>5, <1>7, <1>8, <1>9, KeyinQadamL

LEMMA SesInitL == SessiyaInit => SesInv
<1>. SUFFICES ASSUME SessiyaInit  PROVE SesInv
  OBVIOUS
<1>1. PICK turi \in RASMIY_TURLAR \cup {QOLDA} : ses = BoshSes(turi)  BY DEF SessiyaInit
<1>2. jurnal = BoshJurnal /\ BirjaTuri /\ BazaTuri  BY DEF SessiyaInit
<1>3. /\ ses.pc = "juftliklar" /\ ses.turi = turi /\ DOMAIN ses = MAYDON /\ ses.sahifa = 1
      /\ ses.juft = Bosha /\ ses.ticker = Bosha /\ ses.stavka = Bosha /\ ses.oraliq = Bosha /\ ses.ta = Bosha
  BY <1>1 DEF BoshSes, MAYDON
<1>4. DOMAIN Bosha = {}  BY DEF Bosha
<1>5. ses.pc \in OLDIN  BY <1>3 DEF OLDIN
<1>6. SesShakli
  <2>1. 1 \in 1..ZAXIRA_SAHIFALAR  BY SessiyaFarazi
  <2>2. DOMAIN BoshJurnal = MANBALAR  BY DEF BoshJurnal
  <2>. QED  BY <1>2, <1>3, <1>5, <2>1, <2>2 DEF SesShakli
<1>7. SesBozori  BY <1>3, <1>4 DEF SesBozori
<1>8. SesElagi /\ SesSarasi  BY <1>5, JoyL DEF SesElagi, SesSarasi
<1>9. Rivoyat(ses.ta)  BY <1>3, <1>4 DEF Rivoyat
<1>10. SesJurnali
  <2>1. jurnal["oi"].holat = "yoq" /\ jurnal["coingecko"].holat = "yoq"
    BY <1>2, ManbaL DEF BoshJurnal
  <2>2. ses.pc \notin {"oraliq", "elak", "saralash"}  BY <1>3
  <2>3. "oi" \in KEYIN  BY DEF KEYIN
  <2>. QED  BY <1>5, <2>1, <2>2, <2>3, JoyL DEF SesJurnali
<1>11. ~Tugadi  BY <1>3 DEF Tugadi
<1>. QED  BY <1>2, <1>6, <1>7, <1>8, <1>9, <1>10, <1>11 DEF SesInv

LEMMA SesNextL ==
  ASSUME SesInv, [SessiyaNext]_svars
  PROVE  SesInv'
<1>1. CASE JuftliklarOlinadi \/ TickerlarOlinadi \/ StavkalarOlinadi \/ OraliqlarOlinadi
  BY <1>1, JuftliklarOlinadiL, TickerlarOlinadiL, StavkalarOlinadiL, OraliqlarOlinadiL
<1>2. CASE Elanadi \/ BolakOlinadi \/ SahifaOlinadi \/ Saralanadi
  BY <1>2, ElanadiL, BolakOlinadiL, SahifaOlinadiL, SaralanadiL
<1>3. CASE OiOlinadi \/ LongShortOlinadi \/ UnlockOlinadi \/ Yoziladi
  BY <1>3, OiOlinadiL, LongShortOlinadiL, UnlockOlinadiL, YoziladiL
<1>4. CASE BazaYiqiladi
  <2>1. ses' = Yiqilish("baza") /\ birja' = birja /\ baza' = baza /\ jurnal' = jurnal
    BY <1>4 DEF BazaYiqiladi
  <2>2. DOMAIN jurnal = MANBALAR  BY DEF SesInv, SesShakli
  <2>. QED  BY <2>1, <2>2, XatoL
<1>5. CASE UNCHANGED svars
  <2>1. birja' = birja /\ baza' = baza /\ ses' = ses /\ jurnal' = jurnal /\ qator' = qator
    BY <1>5 DEF svars
  <2>2. BirjaTuri' /\ BazaTuri' /\ CgQatorlari' = CgQatorlari  BY <2>1, TuriQoladiL DEF SesInv
  <2>3. SesShakli' /\ SesBozori'  BY <2>1 DEF SesInv, SesShakli, SesBozori
  <2>4. SesElagi'  BY <2>1 DEF SesInv, SesElagi, QaytaQaraladi, ANomzodlar, OldingiOrinli
  <2>5. SesSarasi'
    <3>1. \A s : KapdanOtadi(s)' <=> KapdanOtadi(s)  BY <2>1, KapQoladiL
    <3>. QED  BY <2>1, <3>1 DEF SesInv, SesSarasi
  <2>6. Rivoyat(ses.ta)'  BY <2>1, RivoyatQoladiL DEF SesInv
  <2>7. Chuqur' = Chuqur  BY <2>1 DEF Chuqur
  <2>8. SesJurnali'  BY <2>1, <2>7 DEF SesInv, SesJurnali
  <2>9. Qatorlari' = Qatorlari  BY <2>1, QatorlariL
  <2>10. Tugadi' => qator' = Qatorlari'  BY <2>1, <2>9 DEF SesInv, Tugadi
  <2>. QED  BY <2>2, <2>3, <2>4, <2>5, <2>6, <2>8, <2>10 DEF SesInv
<1>. QED  BY <1>1, <1>2, <1>3, <1>4, <1>5 DEF SessiyaNext

LEMMA SesInvL == SessiyaSpec => []SesInv
<1>1. SesInv /\ [SessiyaNext]_svars => SesInv'  BY SesNextL
<1>. QED  BY SesInitL, <1>1, PTL DEF SessiyaSpec

-----------------------------------------------------------------------------
\* What a session writes

\* The entries of the coins of the pool that are not hidden.
Kirish(s) == [symbol |-> s, tasdiq |-> Qator(s).sanoq.tasdiq,
              tasdiqlangan |-> Qator(s).holat = "tasdiqlangan",
              yoqilgi |-> Qator(s).sanoq.yoqilgi, nisbat |-> Qator(s).nisbat]
Korinadigan == ses.pool \ baza.yashirin
Kirishlar == {Kirish(s) : s \in Korinadigan}

LEMMA FinTekL == IsFiniteSet(TEKSHIRUVLAR) /\ HARAKAT \subseteq TEKSHIRUVLAR /\ YOQILGI \subseteq TEKSHIRUVLAR
<1>1. IsFiniteSet({"hajm"})  BY FS_Singleton
<1>2. IsFiniteSet({"hajm", "narx"})
  <2>1. {"hajm", "narx"} = {"hajm"} \cup {"narx"}  OBVIOUS
  <2>. QED  BY <1>1, <2>1, FS_AddElement
<1>3. IsFiniteSet({"hajm", "narx", "funding"})
  <2>1. {"hajm", "narx", "funding"} = {"hajm", "narx"} \cup {"funding"}  OBVIOUS
  <2>. QED  BY <1>2, <2>1, FS_AddElement
<1>4. IsFiniteSet({"hajm", "narx", "funding", "oi"})
  <2>1. {"hajm", "narx", "funding", "oi"} = {"hajm", "narx", "funding"} \cup {"oi"}  OBVIOUS
  <2>. QED  BY <1>3, <2>1, FS_AddElement
<1>5. IsFiniteSet({"hajm", "narx", "funding", "oi", "long_short"})
  <2>1. {"hajm", "narx", "funding", "oi", "long_short"}
           = {"hajm", "narx", "funding", "oi"} \cup {"long_short"}  OBVIOUS
  <2>. QED  BY <1>4, <2>1, FS_AddElement
<1>6. IsFiniteSet({"hajm", "narx", "funding", "oi", "long_short", "btc"})
  <2>1. {"hajm", "narx", "funding", "oi", "long_short", "btc"}
           = {"hajm", "narx", "funding", "oi", "long_short"} \cup {"btc"}  OBVIOUS
  <2>. QED  BY <1>5, <2>1, FS_AddElement
<1>7. IsFiniteSet(TEKSHIRUVLAR)
  <2>1. TEKSHIRUVLAR = {"hajm", "narx", "funding", "oi", "long_short", "btc"} \cup {"taminot"}
    BY DEF TEKSHIRUVLAR
  <2>. QED  BY <1>6, <2>1, FS_AddElement
<1>8. HARAKAT \subseteq TEKSHIRUVLAR /\ YOQILGI \subseteq TEKSHIRUVLAR
  BY DEF HARAKAT, YOQILGI, TEKSHIRUVLAR
<1>. QED  BY <1>7, <1>8

LEMMA SanaL ==
  ASSUME NEW t
  PROVE  sana(t).tasdiq \in Nat /\ sana(t).yoqilgi \in Nat
<1>1. \A K \in SUBSET TEKSHIRUVLAR : Cardinality({k \in K : t[k] = HA}) \in Nat
  <2>. SUFFICES ASSUME NEW K \in SUBSET TEKSHIRUVLAR
                PROVE Cardinality({k \in K : t[k] = HA}) \in Nat
    OBVIOUS
  <2>1. IsFiniteSet({k \in K : t[k] = HA})  BY FinTekL, FS_Subset
  <2>. QED  BY <2>1, FS_CardinalityType
<1>. QED  BY <1>1, FinTekL DEF sana, Halari

\* A check that goes from yes to "no data" adds nothing.
LEMMA KamL ==
  ASSUME NEW t, NEW u,
         \A k \in TEKSHIRUVLAR : (t[k] = HA => u[k] = HA)
                                 /\ (u[k] = MALUMOT_YOQ => t[k] = MALUMOT_YOQ)
  PROVE  sana(t).tasdiq <= sana(u).tasdiq /\ sana(t).malumot_yoq >= sana(u).malumot_yoq
<1>. DEFINE H(x) == {k \in TEKSHIRUVLAR : x[k] = HA}
            Y(x) == {k \in TEKSHIRUVLAR : x[k] = MALUMOT_YOQ}
<1>1. H(t) \subseteq H(u) /\ Y(u) \subseteq Y(t)  OBVIOUS
<1>2. H(u) \subseteq TEKSHIRUVLAR /\ Y(t) \subseteq TEKSHIRUVLAR  OBVIOUS
<1>3. /\ sana(t).tasdiq = Cardinality(H(t)) /\ sana(u).tasdiq = Cardinality(H(u))
      /\ sana(t).malumot_yoq = Cardinality(Y(t)) /\ sana(u).malumot_yoq = Cardinality(Y(u))
  BY DEF sana, Halari
<1>. HIDE DEF H, Y
<1>4. IsFiniteSet(H(u)) /\ IsFiniteSet(Y(t))  BY <1>2, FinTekL, FS_Subset
<1>5. Cardinality(H(t)) <= Cardinality(H(u))  BY <1>1, <1>4, FS_Subset
<1>6. Cardinality(Y(u)) <= Cardinality(Y(t))  BY <1>1, <1>4, FS_Subset
<1>7. Cardinality(Y(u)) \in Nat /\ Cardinality(Y(t)) \in Nat
  BY <1>1, <1>4, FS_Subset, FS_CardinalityType
<1>8. Cardinality(Y(t)) >= Cardinality(Y(u))  BY <1>6, <1>7
<1>. QED  BY <1>3, <1>5, <1>8

NisbatTuri == {NOMALUM} \cup {<<r>> : r \in Kasr}

LEMMA NisbatL ==
  ASSUME NEW h \in ButunTuri, NEW o \in Seq(Int \X Int), NEW k
  PROVE  hajm_nisbati(h, o, k) \in NisbatTuri
<1>1. CASE h # NOMALUM /\ o # NOMALUM /\ o[1][1] > 0 /\ k >= MIN_TARIX_KUN
  <2>1. h[1] \in Int  BY <1>1 DEF ButunTuri
  <2>2. o[1] \in Int \X Int  BY <1>1 DEF NOMALUM
  <2>3. o[1][1] \in Nat \ {0} /\ o[1][2] \in Int  BY <1>1, <2>2
  <2>4. h[1] * o[1][2] \in Int  BY <2>1, <2>3
  <2>5. <<h[1] * o[1][2], o[1][1]>> \in Kasr  BY <2>3, <2>4 DEF Kasr
  <2>6. hajm_nisbati(h, o, k) = << <<h[1] * o[1][2], o[1][1]>> >>  BY <1>1 DEF hajm_nisbati
  <2>. QED  BY <2>5, <2>6 DEF NisbatTuri
<1>2. CASE ~(h # NOMALUM /\ o # NOMALUM /\ o[1][1] > 0 /\ k >= MIN_TARIX_KUN)
  BY <1>2 DEF hajm_nisbati, NisbatTuri
<1>. QED  BY <1>1, <1>2

LEMMA MetaL ==
  ASSUME SesInv, NEW s
  PROVE  Meta(s).nisbat \in NisbatTuri
<1>. DEFINE keshda == s \in DOMAIN baza.ortachalar
            o == IF keshda THEN baza.ortachalar[s] ELSE <<NOMALUM, 0>>
            h == IF s \in DOMAIN ses.ticker THEN ses.ticker[s].hajm24 ELSE NOMALUM
<1>1. o[1] \in Seq(Int \X Int)
  <2>1. CASE keshda
    <3>1. baza.ortachalar[s] \in Seq(Int \X Int) \X Nat  BY <2>1 DEF SesInv, BazaTuri
    <3>. QED  BY <2>1, <3>1
  <2>2. CASE ~keshda
    <3>1. NOMALUM \in Seq(Int \X Int)  BY DEF NOMALUM
    <3>. QED  BY <2>2, <3>1
  <2>. QED  BY <2>1, <2>2
<1>2. h \in ButunTuri
  <2>1. CASE s \in DOMAIN ses.ticker
    <3>1. ses.ticker[s] \in TickerTuri  BY <2>1 DEF SesInv, SesBozori
    <3>. QED  BY <2>1, <3>1 DEF TickerTuri
  <2>2. CASE s \notin DOMAIN ses.ticker  BY <2>2 DEF ButunTuri
  <2>. QED  BY <2>1, <2>2
<1>3. Meta(s).nisbat = NOMALUM \/ Meta(s).nisbat = hajm_nisbati(h, o[1], o[2])
  BY DEF Meta
<1>4. NOMALUM \in NisbatTuri  BY DEF NisbatTuri
<1>. HIDE DEF o, h
<1>. QED  BY <1>1, <1>2, <1>3, <1>4, NisbatL

\* The rows of a session: their coins, kinds and places.
LEMMA YozuvQatorL ==
  ASSUME SesInv, Tugadi
  PROVE  /\ Chuqur \subseteq DOMAIN ses.juft \cap DOMAIN ses.ticker
         /\ Chuqur \subseteq Symbollar /\ IsFiniteSet(Chuqur)
         /\ ses.pool \cap ses.namuna = {} /\ Chuqur \cap OldingiOrinli \subseteq ses.pool
         /\ DOMAIN qator = Chuqur \cup OldingiOrinli
         /\ \A s \in OldingiOrinli \ Chuqur : qator[s] = ChiqdiQatori
         /\ \A s \in Chuqur \ Korinadigan : qator[s] = Qator(s)
         /\ \A s \in Korinadigan : qator[s] = [Qator(s) EXCEPT !.orin = orinlar(Kirishlar)[s]]
         /\ DOMAIN orinlar(Kirishlar) = Korinadigan
<1>. DEFINE q == [s \in Chuqur |-> Qator(s)]
            K == TartibKirishlari(q)
<1>1. ses.pc \in KEYIN  BY DEF Tugadi, KEYIN
<1>2. Chuqur \subseteq DOMAIN ses.juft \cap DOMAIN ses.ticker /\ Chuqur \subseteq Symbollar /\ IsFiniteSet(Chuqur)
  BY <1>1, ChuqurL
<1>3. /\ Range(ses.nomzodlar) \cap ses.elak = {} /\ Range(ses.nomzodlar) \cap OldingiOrinli = {}
      /\ ses.pool \subseteq ses.elak
  BY <1>1 DEF SesInv, SesElagi
<1>4. ses.namuna \subseteq Range(ses.nomzodlar)  BY <1>1 DEF SesInv, SesSarasi
<1>5. ses.pool \cap ses.namuna = {} /\ Chuqur \cap OldingiOrinli \subseteq ses.pool
  BY <1>3, <1>4 DEF Chuqur
<1>6. \A s \in Chuqur : (q[s].turi = "elak" <=> s \in ses.pool) /\ q[s].yashirin = (s \in baza.yashirin)
                        /\ q[s] = Qator(s)
  BY DEF Qator
<1>7. {s \in DOMAIN q : q[s].turi = "elak" /\ ~q[s].yashirin} = Korinadigan
  BY <1>6 DEF Korinadigan, Chuqur
<1>8. Korinadigan \subseteq Chuqur  BY DEF Korinadigan, Chuqur
<1>. HIDE DEF q
<1>9. K = Kirishlar
  <2>1. \A s \in Korinadigan : [symbol |-> s, tasdiq |-> q[s].sanoq.tasdiq,
                          tasdiqlangan |-> q[s].holat = "tasdiqlangan",
                          yoqilgi |-> q[s].sanoq.yoqilgi, nisbat |-> q[s].nisbat] = Kirish(s)
    BY <1>6, <1>8 DEF Kirish
  <2>. QED  BY <1>7, <2>1 DEF TartibKirishlari, Kirishlar
<1>10. DOMAIN orinlar(Kirishlar) = Korinadigan
  <2>1. DOMAIN orinlar(Kirishlar) = {k.symbol : k \in Kirishlar}  BY DEF orinlar
  <2>2. \A s : Kirish(s).symbol = s  BY DEF Kirish
  <2>. QED  BY <2>1, <2>2 DEF Kirishlar
<1>11. qator = [s \in Chuqur \cup OldingiOrinli |->
                  CASE s \in Korinadigan -> [q[s] EXCEPT !.orin = orinlar(Kirishlar)[s]]
                    [] s \in Chuqur \ Korinadigan -> q[s]
                    [] OTHER -> ChiqdiQatori]
  <2>1. qator = Qatorlari  BY DEF SesInv
  <2>2. Qatorlari = [s \in Chuqur \cup OldingiOrinli |->
                  CASE s \in DOMAIN orinlar(K) -> [q[s] EXCEPT !.orin = orinlar(K)[s]]
                    [] s \in Chuqur \ DOMAIN orinlar(K) -> q[s]
                    [] OTHER -> ChiqdiQatori]
    BY DEF Qatorlari, q
  <2>. HIDE DEF K
  <2>. QED  BY <1>9, <1>10, <2>1, <2>2
<1>12. /\ \A s \in OldingiOrinli \ Chuqur : qator[s] = ChiqdiQatori
       /\ \A s \in Chuqur \ Korinadigan : qator[s] = q[s]
       /\ \A s \in Korinadigan : qator[s] = [q[s] EXCEPT !.orin = orinlar(Kirishlar)[s]]
       /\ DOMAIN qator = Chuqur \cup OldingiOrinli
  BY <1>8, <1>11
<1>. QED  BY <1>2, <1>5, <1>6, <1>8, <1>10, <1>12

LEMMA QatorMaydonL ==
  ASSUME SesInv, Tugadi
  PROVE  /\ Tekshirilgan = Chuqur
         /\ \A s \in Chuqur : /\ qator[s].turi = (IF s \in ses.pool THEN "elak" ELSE "namuna")
                              /\ qator[s].sanoq = sana(hammasi(Coin(s)))
                              /\ qator[s].nomzod = Qator(s).nomzod /\ qator[s].holat = Qator(s).holat
                              /\ qator[s].ketma = Qator(s).ketma
                              /\ qator[s].yashirin = (s \in baza.yashirin)
                              /\ qator[s].orin = (IF s \in Korinadigan THEN orinlar(Kirishlar)[s] ELSE 0)
<1>1. \A s \in OldingiOrinli \ Chuqur : qator[s].turi = "chiqdi"  BY YozuvQatorL DEF ChiqdiQatori
<1>2. \A s : /\ Qator(s).turi = (IF s \in ses.pool THEN "elak" ELSE "namuna")
             /\ Qator(s).sanoq = sana(hammasi(Coin(s))) /\ Qator(s).yashirin = (s \in baza.yashirin)
             /\ Qator(s).orin = 0
             /\ DOMAIN Qator(s) = {"turi", "sanoq", "nomzod", "holat", "nisbat", "ketma", "yashirin", "orin"}
  BY DEF Qator
<1>3. ASSUME NEW s \in Chuqur
      PROVE /\ qator[s].turi = Qator(s).turi /\ qator[s].sanoq = Qator(s).sanoq
            /\ qator[s].nomzod = Qator(s).nomzod /\ qator[s].holat = Qator(s).holat
            /\ qator[s].ketma = Qator(s).ketma /\ qator[s].yashirin = Qator(s).yashirin
            /\ qator[s].orin = (IF s \in Korinadigan THEN orinlar(Kirishlar)[s] ELSE 0)
  <2>1. CASE s \in Korinadigan
    <3>1. qator[s] = [Qator(s) EXCEPT !.orin = orinlar(Kirishlar)[s]]  BY <2>1, YozuvQatorL
    <3>. QED  BY <1>2, <2>1, <3>1
  <2>2. CASE s \notin Korinadigan
    <3>1. qator[s] = Qator(s)  BY <2>2, YozuvQatorL
    <3>. QED  BY <1>2, <2>2, <3>1
  <2>. QED  BY <2>1, <2>2
<1>4. Tekshirilgan = Chuqur
  <2>1. DOMAIN qator = Chuqur \cup OldingiOrinli  BY YozuvQatorL
  <2>2. \A s \in Chuqur : qator[s].turi # "chiqdi"  BY <1>2, <1>3
  <2>. QED  BY <1>1, <2>1, <2>2 DEF Tekshirilgan
<1>. QED  BY <1>2, <1>3, <1>4

LEMMA OrinTogriL == SesInv => OrinTogri
<1>. SUFFICES ASSUME SesInv, Tugadi
              PROVE LET O == {s \in Tekshirilgan : qator[s].orin > 0} IN
                    /\ O = {s \in Tekshirilgan : qator[s].turi = "elak" /\ ~qator[s].yashirin}
                    /\ {qator[s].orin : s \in O} = 1..Cardinality(O)
                    /\ \A s, t \in O : qator[s].orin < qator[t].orin =>
                          /\ qator[s].sanoq.tasdiq >= qator[t].sanoq.tasdiq
                          /\ qator[s].sanoq.tasdiq = qator[t].sanoq.tasdiq =>
                                (qator[t].holat = "tasdiqlangan" => qator[s].holat = "tasdiqlangan")
  BY DEF OrinTogri
<1>. DEFINE O == {s \in Tekshirilgan : qator[s].orin > 0}
            o == orinlar(Kirishlar)
<1>1. Korinadigan \subseteq Chuqur /\ Korinadigan \subseteq Symbollar /\ IsFiniteSet(Korinadigan)
  <2>1. Korinadigan \subseteq Chuqur  BY DEF Korinadigan, Chuqur
  <2>. QED  BY <2>1, YozuvQatorL, FS_Subset
<1>2. Kirishlar \in SUBSET KirishTuri
  <2>. SUFFICES ASSUME NEW s \in Korinadigan  PROVE Kirish(s) \in KirishTuri
    BY DEF Kirishlar
  <2>1. s \in Nat  BY <1>1, SessiyaFarazi
  <2>2. Qator(s).sanoq = sana(hammasi(Coin(s))) /\ Qator(s).nisbat = Meta(s).nisbat  BY DEF Qator
  <2>3. Qator(s).sanoq.tasdiq \in Nat /\ Qator(s).sanoq.yoqilgi \in Nat  BY <2>2, SanaL
  <2>4. Qator(s).nisbat \in NisbatTuri  BY <2>2, MetaL
  <2>. QED  BY <2>1, <2>3, <2>4 DEF Kirish, KirishTuri, NisbatTuri
<1>3. \A s : Kirish(s).symbol = s /\ Kirish(s).tasdiq = Qator(s).sanoq.tasdiq
             /\ Kirish(s).tasdiqlangan = (Qator(s).holat = "tasdiqlangan")
  BY DEF Kirish
<1>4. IsFiniteSet(Kirishlar) /\ Cardinality(Kirishlar) = Cardinality(Korinadigan)
  <2>. DEFINE f == [s \in Korinadigan |-> Kirish(s)]
  <2>1. f \in [Korinadigan -> Kirishlar]  BY DEF Kirishlar
  <2>2. \A x, y \in Korinadigan : f[x] = f[y] => x = y  BY <1>3
  <2>3. \A k \in Kirishlar : \E x \in Korinadigan : f[x] = k  BY DEF Kirishlar
  <2>. HIDE DEF f
  <2>4. f \in Bijection(Korinadigan, Kirishlar)
    BY <2>1, <2>2, <2>3 DEF Bijection, Injection, Surjection, IsInjective
  <2>5. ExistsBijection(Korinadigan, Kirishlar)  BY <2>4 DEF ExistsBijection
  <2>. QED  BY <1>1, <2>5, FS_Bijection
<1>5. \A k, m \in Kirishlar : k.symbol = m.symbol => k = m  BY <1>3 DEF Kirishlar
<1>6. {k.symbol : k \in Kirishlar} = Korinadigan  BY <1>3 DEF Kirishlar
<1>7. /\ \A k \in Kirishlar : o[k.symbol] \in Nat /\ o[k.symbol] > 0
      /\ {o[s] : s \in Korinadigan} = 1..Cardinality(Korinadigan)
      /\ \A k, m \in Kirishlar : o[k.symbol] < o[m.symbol] => Oldin(k, m)
  <2>1. /\ \A k \in Kirishlar : o[k.symbol] \in Nat /\ o[k.symbol] > 0
        /\ {o[s] : s \in {k.symbol : k \in Kirishlar}} = 1..Cardinality(Kirishlar)
        /\ \A k, m \in Kirishlar : o[k.symbol] < o[m.symbol] => Oldin(k, m)
    BY <1>2, <1>4, <1>5, OrinlarL
  <2>. HIDE DEF o
  <2>. QED  BY <1>4, <1>6, <2>1
<1>. HIDE DEF o
<1>8. \A s \in Korinadigan : Kirish(s) \in Kirishlar  BY DEF Kirishlar
<1>9. \A s \in Chuqur : qator[s].orin = (IF s \in Korinadigan THEN o[s] ELSE 0)  BY QatorMaydonL DEF o
<1>10. O = Korinadigan
  <2>1. \A s \in Korinadigan : o[s] > 0  BY <1>3, <1>7, <1>8
  <2>2. ~(0 > 0)  OBVIOUS
  <2>. QED  BY <1>1, <1>9, <2>1, <2>2, QatorMaydonL
<1>11. O = {s \in Tekshirilgan : qator[s].turi = "elak" /\ ~qator[s].yashirin}
  <2>1. \A s \in Chuqur : (qator[s].turi = "elak" <=> s \in ses.pool) /\ qator[s].yashirin = (s \in baza.yashirin)
    BY QatorMaydonL
  <2>2. Tekshirilgan = Chuqur /\ ses.pool \subseteq Chuqur  BY QatorMaydonL DEF Chuqur
  <2>. HIDE DEF O
  <2>. QED  BY <1>10, <2>1, <2>2 DEF Korinadigan
<1>. HIDE DEF O
<1>12. {qator[s].orin : s \in O} = 1..Cardinality(O)
  <2>1. \A s \in Korinadigan : qator[s].orin = o[s]  BY <1>1, <1>9
  <2>2. {qator[s].orin : s \in Korinadigan} = {o[s] : s \in Korinadigan}  BY <2>1
  <2>. QED  BY <1>7, <1>10, <2>2
<1>13. ASSUME NEW s \in O, NEW t \in O, qator[s].orin < qator[t].orin
       PROVE /\ qator[s].sanoq.tasdiq >= qator[t].sanoq.tasdiq
             /\ qator[s].sanoq.tasdiq = qator[t].sanoq.tasdiq =>
                   (qator[t].holat = "tasdiqlangan" => qator[s].holat = "tasdiqlangan")
  <2>1. s \in Korinadigan /\ t \in Korinadigan  BY <1>10
  <2>2. o[s] < o[t]  BY <1>1, <1>9, <1>13, <2>1
  <2>3. Oldin(Kirish(s), Kirish(t))  BY <1>3, <1>7, <1>8, <2>1, <2>2
  <2>4. \A x \in {s, t} : /\ qator[x].sanoq.tasdiq = Kirish(x).tasdiq
                          /\ (qator[x].holat = "tasdiqlangan") = Kirish(x).tasdiqlangan
    <3>1. \A x : Qator(x).sanoq = sana(hammasi(Coin(x)))  BY DEF Qator
    <3>2. \A x \in {s, t} : qator[x].sanoq = Qator(x).sanoq /\ qator[x].holat = Qator(x).holat
      BY <1>1, <2>1, <3>1, QatorMaydonL
    <3>. QED  BY <1>3, <3>2
  <2>5. Kirish(s) \in KirishTuri /\ Kirish(t) \in KirishTuri  BY <1>2, <1>8, <2>1
  <2>6. /\ Kirish(s).tasdiq >= Kirish(t).tasdiq
        /\ Kirish(s).tasdiq = Kirish(t).tasdiq => (Kirish(t).tasdiqlangan => Kirish(s).tasdiqlangan)
    <3>1. PICK a \in KirishTuri, b \in KirishTuri : a = Kirish(s) /\ b = Kirish(t)  BY <2>5
    <3>2. a.tasdiq \in Nat /\ b.tasdiq \in Nat /\ a.tasdiqlangan \in BOOLEAN /\ b.tasdiqlangan \in BOOLEAN
      BY DEF KirishTuri
    <3>3. /\ a.tasdiq > b.tasdiq \/ a.tasdiq = b.tasdiq
          /\ a.tasdiq = b.tasdiq => (b.tasdiqlangan => a.tasdiqlangan)
      BY <2>3, <3>1, <3>2, OldinL
    <3>4. a.tasdiq >= b.tasdiq  BY <3>2, <3>3
    <3>. QED  BY <3>1, <3>3, <3>4
  <2>. QED  BY <2>4, <2>6
<1>. QED  BY <1>11, <1>12, <1>13 DEF O

\* What is known of a coin from CoinGecko is what a row of its name says.
LEMMA TaminotOlL ==
  ASSUME SesInv, NEW s, TaminotOl(s) # NOMALUM
  PROVE  /\ TaminotOl(s)[1].cap # NOMALUM => Rostdan(s, "cap")
         /\ TaminotOl(s)[1].aylanma # NOMALUM => Rostdan(s, "muomalada")
<1>. DEFINE b == ses.juft[s].belgi
<1>1. b \in DOMAIN ses.ta /\ TaminotOl(s) = <<ses.ta[b]>>  BY DEF TaminotOl
<1>2. PICK q \in CgQatorlari : q.belgi = b /\ ses.ta[b] = Taminot(q)  BY <1>1 DEF SesInv, Rivoyat
<1>3. TaminotOl(s)[1] = Taminot(q)  BY <1>1, <1>2
<1>4. \A x : Musbat(x) # NOMALUM => x[1] = "son" /\ x[2] > 0  BY DEF Musbat, Son
<1>5. Taminot(q).cap = Musbat(q.cap)
      /\ (Taminot(q).aylanma # NOMALUM => Musbat(q.muomalada) # NOMALUM)
  BY DEF Taminot, AylanmaPct
<1>6. TaminotOl(s)[1].cap # NOMALUM => q.cap[1] = "son" /\ q.cap[2] > 0  BY <1>3, <1>4, <1>5
<1>7. TaminotOl(s)[1].aylanma # NOMALUM => q.muomalada[1] = "son" /\ q.muomalada[2] > 0
  BY <1>3, <1>4, <1>5
<1>. QED  BY <1>2, <1>6, <1>7 DEF Rostdan, CgQatorlari

LEMMA KapSababL ==
  ASSUME SesInv, NEW s, ~KapdanOtadi(s)
  PROVE  TaminotOl(s) # NOMALUM /\ Rostdan(s, "cap")
<1>1. TaminotOl(s) # NOMALUM /\ TaminotOl(s)[1].cap # NOMALUM  BY DEF KapdanOtadi
<1>. QED  BY <1>1, TaminotOlL

\* A coin of the sieve that has no row fell out for its capitalisation.
LEMMA PoolL ==
  ASSUME SesInv, Tugadi, Cardinality(ses.elak) <= MAX_POOL
  PROVE  \A s \in ses.elak : s \in ses.pool \/ (TaminotOl(s) # NOMALUM /\ Rostdan(s, "cap"))
<1>1. ses.pc \in KEYIN  BY DEF Tugadi, KEYIN
<1>2. ses.pool = {s \in ses.elak : KapdanOtadi(s)}  BY <1>1 DEF SesInv, SesSarasi
<1>. QED  BY <1>2, KapSababL

LEMMA ElakSoniL ==
  ASSUME SesInv, Tugadi
  PROVE  ~(Cardinality(ses.elak) <= MAX_POOL) => Cardinality(ses.elak) > MAX_POOL
<1>1. ses.pc \in KEYIN  BY DEF Tugadi, KEYIN
<1>2. ses.elak \subseteq DOMAIN ses.juft  BY <1>1 DEF SesInv, SesElagi
<1>3. DOMAIN ses.juft \subseteq Symbollar  BY DEF SesInv, SesBozori
<1>4. IsFiniteSet(ses.elak)  BY <1>2, <1>3, SessiyaFarazi, FS_Subset
<1>5. Cardinality(ses.elak) \in Nat  BY <1>4, FS_CardinalityType
<1>6. MAX_POOL \in Nat  BY SessiyaFarazi
<1>. QED  BY <1>5, <1>6

LEMMA QaytaQaraldiL == SesInv => QaytaQaraldi
<1>. SUFFICES ASSUME SesInv, Tugadi, NEW s \in QaytaQaraladi
              PROVE \/ s \in DOMAIN qator /\ qator[s].turi = "elak"
                    \/ TaminotOl(s) # NOMALUM /\ Rostdan(s, "cap")
                    \/ Cardinality(ses.elak) > MAX_POOL
  BY DEF QaytaQaraldi
<1>1. ses.pc \in KEYIN  BY DEF Tugadi, KEYIN
<1>2. s \in ses.elak  BY <1>1 DEF SesInv, SesElagi
<1>3. s \in ses.pool => s \in DOMAIN qator /\ qator[s].turi = "elak"
  <2>1. s \in ses.pool => s \in Chuqur  BY DEF Chuqur
  <2>. QED  BY <2>1, YozuvQatorL, QatorMaydonL
<1>. QED  BY <1>2, <1>3, PoolL, ElakSoniL

COIN == {"hajm24", "ortacha", "kunlar", "yangi", "ozgarish", "btc", "stavka", "oraliq", "oi", "ls",
         "aylanma", "unlockKun", "unlockPct"}

\* The checks read of a coin only their own fields.
LEMMA TekshiruvL ==
  ASSUME NEW c, NEW d
  PROVE  /\ d.yangi = c.yangi /\ d.hajm24 = c.hajm24 /\ d.ortacha = c.ortacha /\ d.kunlar = c.kunlar
               => HajmTekshiruvi(d) = HajmTekshiruvi(c)
         /\ d.ozgarish = c.ozgarish => NarxTekshiruvi(d) = NarxTekshiruvi(c)
         /\ d.stavka = c.stavka /\ d.oraliq = c.oraliq => FundingTekshiruvi(d) = FundingTekshiruvi(c)
         /\ d.oi = c.oi => OiTekshiruvi(d) = OiTekshiruvi(c)
         /\ d.ls = c.ls => LongShortTekshiruvi(d) = LongShortTekshiruvi(c)
         /\ d.ozgarish = c.ozgarish /\ d.btc = c.btc => BtcTekshiruvi(d) = BtcTekshiruvi(c)
         /\ d.aylanma = c.aylanma /\ d.unlockKun = c.unlockKun /\ d.unlockPct = c.unlockPct
               => TaminotTekshiruvi(d) = TaminotTekshiruvi(c)
<1>1. d.yangi = c.yangi /\ d.hajm24 = c.hajm24 /\ d.ortacha = c.ortacha /\ d.kunlar = c.kunlar
        => HajmTekshiruvi(d) = HajmTekshiruvi(c)
  BY DEF HajmTekshiruvi
<1>2. d.ozgarish = c.ozgarish => NarxTekshiruvi(d) = NarxTekshiruvi(c)  BY DEF NarxTekshiruvi
<1>3. d.stavka = c.stavka /\ d.oraliq = c.oraliq => FundingTekshiruvi(d) = FundingTekshiruvi(c)
  BY DEF FundingTekshiruvi
<1>4. d.oi = c.oi => OiTekshiruvi(d) = OiTekshiruvi(c)  BY DEF OiTekshiruvi
<1>5. d.ls = c.ls => LongShortTekshiruvi(d) = LongShortTekshiruvi(c)  BY DEF LongShortTekshiruvi
<1>6. d.ozgarish = c.ozgarish /\ d.btc = c.btc => BtcTekshiruvi(d) = BtcTekshiruvi(c)
  BY DEF BtcTekshiruvi
<1>7. d.aylanma = c.aylanma /\ d.unlockKun = c.unlockKun /\ d.unlockPct = c.unlockPct
        => TaminotTekshiruvi(d) = TaminotTekshiruvi(c)
  BY DEF TaminotTekshiruvi
<1>. QED  BY <1>1, <1>2, <1>3, <1>4, <1>5, <1>6, <1>7

\* A rate is not larger for being taken for eight hours, were they fewer.
LEMMA FundingL ==
  ASSUME NEW c, NEW d, d.stavka = c.stavka, d.oraliq = STANDART_SOAT,
         c.stavka = NOMALUM \/ c.stavka[1] \in Int, c.oraliq \in Int, c.oraliq <= STANDART_SOAT
  PROVE  /\ FundingTekshiruvi(d) = HA => FundingTekshiruvi(c) = HA
         /\ FundingTekshiruvi(c) = MALUMOT_YOQ => FundingTekshiruvi(d) = MALUMOT_YOQ
<1>1. CASE c.stavka = NOMALUM  BY <1>1 DEF FundingTekshiruvi
<1>2. CASE c.stavka # NOMALUM
  <2>1. PICK x \in Int : x = c.stavka[1]  BY <1>2
  <2>2. PICK n \in Nat : n = Ch.funding_8s_pct
    <3>1. "funding_8s_pct" \in CHEGARALAR  BY DEF CHEGARALAR
    <3>2. Ch.funding_8s_pct \in Nat  BY <3>1, ChegaraFarazi
    <3>. QED  BY <3>2
  <2>. DEFINE s == IF c.oraliq > 0 THEN c.oraliq ELSE STANDART_SOAT
              y == Mutlaq(x * STANDART_SOAT)
  <2>3. s \in Nat /\ s <= STANDART_SOAT /\ STANDART_SOAT \in Nat /\ STANDART_SOAT > 0
    BY DEF STANDART_SOAT
  <2>4. FundingTekshiruvi(c) = Belgila(y >= n * s) /\ FundingTekshiruvi(d) = Belgila(y >= n * STANDART_SOAT)
    <3>1. FundingTekshiruvi(c) = Belgila(y >= n * s)
      BY <1>2, <2>1, <2>2 DEF FundingTekshiruvi, funding_8s
    <3>2. FundingTekshiruvi(d) = Belgila(y >= n * STANDART_SOAT)
      <4>1. (IF d.oraliq > 0 THEN d.oraliq ELSE STANDART_SOAT) = STANDART_SOAT  BY <2>3
      <4>. QED  BY <1>2, <2>1, <2>2, <4>1 DEF FundingTekshiruvi, funding_8s
    <3>. QED  BY <3>1, <3>2
  <2>5. y \in Int
    <3>1. x * STANDART_SOAT \in Int  BY <2>3
    <3>. QED  BY <3>1 DEF Mutlaq
  <2>6. n * s \in Int /\ n * STANDART_SOAT \in Int /\ n * s <= n * STANDART_SOAT
    <3>. HIDE DEF s
    <3>1. PICK e \in Nat : s + e = STANDART_SOAT
      <4>1. STANDART_SOAT - s \in Nat /\ s + (STANDART_SOAT - s) = STANDART_SOAT  BY <2>3
      <4>. QED  BY <4>1
    <3>2. n * (s + e) = n * s + n * e /\ n * e \in Nat /\ n * s \in Nat  BY <2>3
    <3>. QED  BY <3>1, <3>2
  <2>. HIDE DEF s, y
  <2>7. y >= n * STANDART_SOAT => y >= n * s  BY <2>5, <2>6
  <2>. QED  BY <2>4, <2>7 DEF Belgila, HA, RAD, MALUMOT_YOQ
<1>. QED  BY <1>1, <1>2

\* A supply or a calendar that is silent.
LEMMA TaminotSizL ==
  ASSUME NEW c, NEW d,
         \/ d.aylanma = NOMALUM /\ d.unlockKun = c.unlockKun /\ d.unlockPct = c.unlockPct
         \/ d.aylanma = c.aylanma /\ d.unlockKun = NOMALUM /\ d.unlockPct = NOMALUM
  PROVE  /\ TaminotTekshiruvi(d) = HA => TaminotTekshiruvi(c) = HA
         /\ TaminotTekshiruvi(c) = MALUMOT_YOQ => TaminotTekshiruvi(d) = MALUMOT_YOQ
<1>. DEFINE aylanma_ha(x) == x.aylanma # NOMALUM /\ x.aylanma[1][1] < Ch.aylanma_max_pct * x.aylanma[1][2]
            unlock_ha(x) == /\ x.unlockKun # NOMALUM /\ x.unlockKun[1] <= Ch.unlock_kun
                            /\ x.unlockPct # NOMALUM /\ x.unlockPct[1] >= Ch.unlock_min_pct
<1>1. \A x : /\ TaminotTekshiruvi(x) = HA <=> aylanma_ha(x) \/ unlock_ha(x)
             /\ TaminotTekshiruvi(x) = MALUMOT_YOQ <=>
                   ~aylanma_ha(x) /\ ~unlock_ha(x) /\ x.aylanma = NOMALUM
  BY DEF TaminotTekshiruvi, HA, RAD, MALUMOT_YOQ
<1>2. aylanma_ha(d) => aylanma_ha(c)  OBVIOUS
<1>3. unlock_ha(d) => unlock_ha(c)  OBVIOUS
<1>4. c.aylanma = NOMALUM => d.aylanma = NOMALUM  OBVIOUS
<1>. QED  BY <1>1, <1>2, <1>3, <1>4

LEMMA SizL ==
  ASSUME NEW d
  PROVE  /\ d.ortacha = NOMALUM => HajmTekshiruvi(d) = MALUMOT_YOQ
         /\ d.ozgarish = NOMALUM => NarxTekshiruvi(d) = MALUMOT_YOQ
         /\ d.stavka = NOMALUM => FundingTekshiruvi(d) = MALUMOT_YOQ
         /\ Len(d.oi) = 0 => OiTekshiruvi(d) = MALUMOT_YOQ
         /\ d.ls = NOMALUM => LongShortTekshiruvi(d) = MALUMOT_YOQ
         /\ d.ozgarish = NOMALUM \/ d.btc = NOMALUM => BtcTekshiruvi(d) = MALUMOT_YOQ
<1>1. d.ortacha = NOMALUM => HajmTekshiruvi(d) = MALUMOT_YOQ  BY DEF HajmTekshiruvi, hajm_nisbati
<1>2. d.ozgarish = NOMALUM => NarxTekshiruvi(d) = MALUMOT_YOQ  BY DEF NarxTekshiruvi
<1>3. d.stavka = NOMALUM => FundingTekshiruvi(d) = MALUMOT_YOQ  BY DEF FundingTekshiruvi
<1>4. Len(d.oi) = 0 => OiTekshiruvi(d) = MALUMOT_YOQ
  <2>1. 0 < 2  OBVIOUS
  <2>. QED  BY <2>1 DEF OiTekshiruvi
<1>5. d.ls = NOMALUM => LongShortTekshiruvi(d) = MALUMOT_YOQ  BY DEF LongShortTekshiruvi
<1>6. d.ozgarish = NOMALUM \/ d.btc = NOMALUM => BtcTekshiruvi(d) = MALUMOT_YOQ
  BY DEF BtcTekshiruvi
<1>. QED  BY <1>1, <1>2, <1>3, <1>4, <1>5, <1>6

\* With the data of one source gone no check becomes yes.
LEMMA ManbasizL ==
  ASSUME NEW c, DOMAIN c = COIN, c = [x \in COIN |-> c[x]],
         c.stavka = NOMALUM \/ c.stavka[1] \in Int, c.oraliq \in Int,
         NEW m, m = "funding_oraliq" => c.oraliq <= STANDART_SOAT
  PROVE  \A k \in TEKSHIRUVLAR :
            /\ hammasi(Manbasiz(c, m))[k] = HA => hammasi(c)[k] = HA
            /\ hammasi(c)[k] = MALUMOT_YOQ => hammasi(Manbasiz(c, m))[k] = MALUMOT_YOQ
<1>. DEFINE d == Manbasiz(c, m)
            Kam(x, y) == (x = HA => y = HA) /\ (y = MALUMOT_YOQ => x = MALUMOT_YOQ)
<1>0. HA # MALUMOT_YOQ  BY DEF HA, MALUMOT_YOQ
<1>1. SUFFICES /\ Kam(HajmTekshiruvi(d), HajmTekshiruvi(c)) /\ Kam(NarxTekshiruvi(d), NarxTekshiruvi(c))
               /\ Kam(FundingTekshiruvi(d), FundingTekshiruvi(c)) /\ Kam(OiTekshiruvi(d), OiTekshiruvi(c))
               /\ Kam(LongShortTekshiruvi(d), LongShortTekshiruvi(c)) /\ Kam(BtcTekshiruvi(d), BtcTekshiruvi(c))
               /\ Kam(TaminotTekshiruvi(d), TaminotTekshiruvi(c))
  <2>1. \A x : /\ hammasi(x)["hajm"] = HajmTekshiruvi(x) /\ hammasi(x)["narx"] = NarxTekshiruvi(x)
               /\ hammasi(x)["funding"] = FundingTekshiruvi(x) /\ hammasi(x)["oi"] = OiTekshiruvi(x)
               /\ hammasi(x)["long_short"] = LongShortTekshiruvi(x) /\ hammasi(x)["btc"] = BtcTekshiruvi(x)
               /\ hammasi(x)["taminot"] = TaminotTekshiruvi(x)
    BY DEF hammasi
  <2>. HIDE DEF d
  <2>. QED  BY <2>1 DEF TEKSHIRUVLAR, d
<1>2. {"hajm24", "ortacha", "kunlar", "yangi", "ozgarish", "btc", "stavka", "oraliq", "oi", "ls",
       "aylanma", "unlockKun", "unlockPct"} = COIN
  BY DEF COIN
<1>3. CASE m = "ticker_foiz"
  <2>1. d = [c EXCEPT !.ozgarish = NOMALUM]  BY <1>3 DEF Manbasiz
  <2>2. d.ozgarish = NOMALUM /\ \A f \in COIN \ {"ozgarish"} : d[f] = c[f]  BY <1>2, <2>1
  <2>. HIDE DEF d
  <2>3. NarxTekshiruvi(d) = MALUMOT_YOQ /\ BtcTekshiruvi(d) = MALUMOT_YOQ  BY <2>2, SizL
  <2>4. /\ d.yangi = c.yangi /\ d.hajm24 = c.hajm24 /\ d.ortacha = c.ortacha /\ d.kunlar = c.kunlar
        /\ d.stavka = c.stavka /\ d.oraliq = c.oraliq /\ d.oi = c.oi /\ d.ls = c.ls
        /\ d.aylanma = c.aylanma /\ d.unlockKun = c.unlockKun /\ d.unlockPct = c.unlockPct
    BY <1>2, <2>2
  <2>5. /\ HajmTekshiruvi(d) = HajmTekshiruvi(c) /\ FundingTekshiruvi(d) = FundingTekshiruvi(c)
        /\ OiTekshiruvi(d) = OiTekshiruvi(c) /\ LongShortTekshiruvi(d) = LongShortTekshiruvi(c)
        /\ TaminotTekshiruvi(d) = TaminotTekshiruvi(c)
    BY <2>4, TekshiruvL
  <2>. QED  BY <1>0, <2>3, <2>5
<1>4. CASE m = "btc"
  <2>1. d = [c EXCEPT !.btc = NOMALUM]  BY <1>4 DEF Manbasiz
  <2>2. d.btc = NOMALUM /\ \A f \in COIN \ {"btc"} : d[f] = c[f]  BY <1>2, <2>1
  <2>. HIDE DEF d
  <2>. QED  BY <1>0, <1>2, <2>2, SizL, TekshiruvL
<1>5. CASE m = "kesh"
  <2>1. d = [c EXCEPT !.ortacha = NOMALUM, !.kunlar = 0]  BY <1>5 DEF Manbasiz
  <2>2. d.ortacha = NOMALUM /\ \A f \in COIN \ {"ortacha", "kunlar"} : d[f] = c[f]  BY <1>2, <2>1
  <2>. HIDE DEF d
  <2>3. HajmTekshiruvi(d) = MALUMOT_YOQ  BY <2>2, SizL
  <2>4. /\ d.ozgarish = c.ozgarish /\ d.btc = c.btc /\ d.stavka = c.stavka /\ d.oraliq = c.oraliq
        /\ d.oi = c.oi /\ d.ls = c.ls
        /\ d.aylanma = c.aylanma /\ d.unlockKun = c.unlockKun /\ d.unlockPct = c.unlockPct
    BY <1>2, <2>2
  <2>5. /\ NarxTekshiruvi(d) = NarxTekshiruvi(c) /\ FundingTekshiruvi(d) = FundingTekshiruvi(c)
        /\ OiTekshiruvi(d) = OiTekshiruvi(c) /\ LongShortTekshiruvi(d) = LongShortTekshiruvi(c)
        /\ BtcTekshiruvi(d) = BtcTekshiruvi(c) /\ TaminotTekshiruvi(d) = TaminotTekshiruvi(c)
    BY <2>4, TekshiruvL
  <2>. QED  BY <1>0, <2>3, <2>5
<1>6. CASE m = "funding"
  <2>1. d = [c EXCEPT !.stavka = NOMALUM]  BY <1>6 DEF Manbasiz
  <2>2. d.stavka = NOMALUM /\ \A f \in COIN \ {"stavka"} : d[f] = c[f]  BY <1>2, <2>1
  <2>. HIDE DEF d
  <2>. QED  BY <1>0, <1>2, <2>2, SizL, TekshiruvL
<1>7. CASE m = "funding_oraliq"
  <2>1. d = [c EXCEPT !.oraliq = STANDART_SOAT]  BY <1>7 DEF Manbasiz
  <2>2. d.oraliq = STANDART_SOAT /\ \A f \in COIN \ {"oraliq"} : d[f] = c[f]  BY <1>2, <2>1
  <2>. HIDE DEF d
  <2>3. Kam(FundingTekshiruvi(d), FundingTekshiruvi(c))
    <3>1. d.stavka = c.stavka  BY <1>2, <2>2
    <3>. QED  BY <1>7, <2>2, <3>1, FundingL
  <2>. QED  BY <1>2, <2>2, <2>3, TekshiruvL
<1>8. CASE m = "oi"
  <2>1. d = [c EXCEPT !.oi = <<>>]  BY <1>8 DEF Manbasiz
  <2>2. d.oi = <<>> /\ \A f \in COIN \ {"oi"} : d[f] = c[f]  BY <1>2, <2>1
  <2>. HIDE DEF d
  <2>3. Len(d.oi) = 0  BY <2>2
  <2>4. OiTekshiruvi(d) = MALUMOT_YOQ  BY <2>3, SizL
  <2>. QED  BY <1>0, <1>2, <2>2, <2>4, TekshiruvL
<1>9. CASE m = "long_short"
  <2>1. d = [c EXCEPT !.ls = NOMALUM]  BY <1>9 DEF Manbasiz
  <2>2. d.ls = NOMALUM /\ \A f \in COIN \ {"ls"} : d[f] = c[f]  BY <1>2, <2>1
  <2>. HIDE DEF d
  <2>3. LongShortTekshiruvi(d) = MALUMOT_YOQ  BY <2>2, SizL
  <2>. QED  BY <1>0, <1>2, <2>2, <2>3, TekshiruvL
<1>10. CASE m = "coingecko"
  <2>1. d = [c EXCEPT !.aylanma = NOMALUM]  BY <1>10 DEF Manbasiz
  <2>2. d.aylanma = NOMALUM /\ \A f \in COIN \ {"aylanma"} : d[f] = c[f]  BY <1>2, <2>1
  <2>. HIDE DEF d
  <2>3. Kam(TaminotTekshiruvi(d), TaminotTekshiruvi(c))  BY <1>2, <2>2, TaminotSizL
  <2>. QED  BY <1>2, <2>2, <2>3, TekshiruvL
<1>11. CASE m \notin {"ticker_foiz", "btc", "kesh", "funding", "funding_oraliq", "oi", "long_short", "coingecko"}
  <2>1. d = [c EXCEPT !.unlockKun = NOMALUM, !.unlockPct = NOMALUM]  BY <1>11 DEF Manbasiz
  <2>2. d.unlockKun = NOMALUM /\ d.unlockPct = NOMALUM
        /\ \A f \in COIN \ {"unlockKun", "unlockPct"} : d[f] = c[f]
    BY <1>2, <2>1
  <2>. HIDE DEF d
  <2>3. Kam(TaminotTekshiruvi(d), TaminotTekshiruvi(c))  BY <1>2, <2>2, TaminotSizL
  <2>. QED  BY <1>2, <2>2, <2>3, TekshiruvL
<1>. QED  BY <1>3, <1>4, <1>5, <1>6, <1>7, <1>8, <1>9, <1>10, <1>11

\* A coin is a function of its fields.
LEMMA MaydonlarL ==
  ASSUME NEW a, NEW b, NEW c, NEW d, NEW e, NEW f, NEW g, NEW h, NEW i, NEW j, NEW k, NEW l, NEW m,
         NEW y, y = [hajm24 |-> a, ortacha |-> b, kunlar |-> c, yangi |-> d, ozgarish |-> e,
                     btc |-> f, stavka |-> g, oraliq |-> h, oi |-> i, ls |-> j,
                     aylanma |-> k, unlockKun |-> l, unlockPct |-> m]
  PROVE  DOMAIN y = COIN /\ y = [x \in COIN |-> y[x]]
<1>1. DOMAIN y = COIN  BY DEF COIN
<1>2. y = [x \in DOMAIN y |-> y[x]]  OBVIOUS
<1>. QED  BY <1>1, <1>2

LEMMA CoinL ==
  ASSUME SesInv, NEW s
  PROVE  /\ DOMAIN Coin(s) = COIN /\ Coin(s) = [x \in COIN |-> Coin(s)[x]]
         /\ Coin(s).stavka = NOMALUM \/ Coin(s).stavka[1] \in Int
         /\ Coin(s).oraliq \in Int
         /\ s \notin DOMAIN ses.stavka => Coin(s).stavka = NOMALUM
         /\ Coin(s).oi = ses.oi[s]
         /\ Coin(s).aylanma # NOMALUM => TaminotOl(s) # NOMALUM /\ TaminotOl(s)[1].aylanma # NOMALUM
<1>1. DOMAIN Coin(s) = COIN /\ Coin(s) = [x \in COIN |-> Coin(s)[x]]
  <2>. DEFINE a == ses.ticker[s].hajm24
              b == Meta(s).ortacha
              c == Meta(s).kunlar
              d == Meta(s).yangi
              e == ses.ticker[s].ozgarish
              f == IF BTC \in DOMAIN ses.ticker THEN ses.ticker[BTC].ozgarish ELSE NOMALUM
              g == IF s \in DOMAIN ses.stavka THEN <<ses.stavka[s]>> ELSE NOMALUM
              h == IF s \in DOMAIN ses.oraliq THEN ses.oraliq[s] ELSE STANDART_SOAT
              i == ses.oi[s]
              j == ses.ls[s]
              k == IF TaminotOl(s) = NOMALUM THEN NOMALUM ELSE TaminotOl(s)[1].aylanma
              u == ses.juft[s].belgi
              l == IF u \in DOMAIN ses.unlock THEN <<ses.unlock[u].kun>> ELSE NOMALUM
              m == IF u \in DOMAIN ses.unlock THEN <<ses.unlock[u].pct>> ELSE NOMALUM
  <2>1. Coin(s) = [hajm24 |-> a, ortacha |-> b, kunlar |-> c, yangi |-> d, ozgarish |-> e,
                   btc |-> f, stavka |-> g, oraliq |-> h, oi |-> i, ls |-> j,
                   aylanma |-> k, unlockKun |-> l, unlockPct |-> m]
    BY DEF Coin
  <2>. HIDE DEF a, b, c, d, e, f, g, h, i, j, k, l, m
  <2>. QED  BY <2>1, MaydonlarL
<1>2. /\ Coin(s).stavka = (IF s \in DOMAIN ses.stavka THEN <<ses.stavka[s]>> ELSE NOMALUM)
      /\ Coin(s).oraliq = (IF s \in DOMAIN ses.oraliq THEN ses.oraliq[s] ELSE STANDART_SOAT)
      /\ Coin(s).oi = ses.oi[s]
      /\ Coin(s).aylanma = (IF TaminotOl(s) = NOMALUM THEN NOMALUM ELSE TaminotOl(s)[1].aylanma)
  BY DEF Coin
<1>3. /\ s \in DOMAIN ses.stavka => ses.stavka[s] \in Int
      /\ s \in DOMAIN ses.oraliq => ses.oraliq[s] \in Int
  BY DEF SesInv, SesBozori
<1>4. STANDART_SOAT \in Int  BY DEF STANDART_SOAT
<1>5. Coin(s).stavka = NOMALUM \/ Coin(s).stavka[1] \in Int
  <2>1. CASE s \in DOMAIN ses.stavka
    <3>1. Coin(s).stavka = <<ses.stavka[s]>>  BY <1>2, <2>1
    <3>. QED  BY <1>3, <2>1, <3>1
  <2>2. CASE s \notin DOMAIN ses.stavka
    BY <1>2, <2>2
  <2>. QED  BY <2>1, <2>2
<1>6. Coin(s).oraliq \in Int  BY <1>2, <1>3, <1>4
<1>7. s \notin DOMAIN ses.stavka => Coin(s).stavka = NOMALUM  BY <1>2
<1>8. Coin(s).aylanma # NOMALUM => TaminotOl(s) # NOMALUM /\ TaminotOl(s)[1].aylanma # NOMALUM
  BY <1>2
<1>9. Coin(s).oi = ses.oi[s]  BY <1>2
<1>. QED  BY <1>1, <1>5, <1>6, <1>7, <1>8, <1>9

LEMMA BilmaslikJimL == SesInv => BilmaslikJim
<1>. SUFFICES ASSUME SesInv, Tugadi
              PROVE /\ \A s \in Tekshirilgan : \A m \in {"ticker_foiz", "btc", "kesh", "funding",
                          "funding_oraliq", "oi", "long_short", "coingecko", "unlock"} :
                          LET siz == sana(hammasi(Manbasiz(Coin(s), m)))
                          IN (m = "funding_oraliq" => Coin(s).oraliq <= STANDART_SOAT) =>
                             siz.tasdiq <= qator[s].sanoq.tasdiq /\ siz.malumot_yoq >= qator[s].sanoq.malumot_yoq
                    /\ \A s \in Tekshirilgan : Coin(s).aylanma # NOMALUM => Rostdan(s, "muomalada")
                    /\ \A s \in ses.elak \ DOMAIN qator :
                          Cardinality(ses.elak) <= MAX_POOL => Rostdan(s, "cap")
  BY DEF BilmaslikJim
<1>1. ASSUME NEW s \in Tekshirilgan, NEW m, m = "funding_oraliq" => Coin(s).oraliq <= STANDART_SOAT
      PROVE /\ sana(hammasi(Manbasiz(Coin(s), m))).tasdiq <= qator[s].sanoq.tasdiq
            /\ sana(hammasi(Manbasiz(Coin(s), m))).malumot_yoq >= qator[s].sanoq.malumot_yoq
  <2>1. qator[s].sanoq = sana(hammasi(Coin(s)))  BY QatorMaydonL
  <2>2. \A k \in TEKSHIRUVLAR :
            /\ hammasi(Manbasiz(Coin(s), m))[k] = HA => hammasi(Coin(s))[k] = HA
            /\ hammasi(Coin(s))[k] = MALUMOT_YOQ => hammasi(Manbasiz(Coin(s), m))[k] = MALUMOT_YOQ
    BY <1>1, CoinL, ManbasizL
  <2>. QED  BY <2>1, <2>2, KamL
<1>2. ASSUME NEW s \in Tekshirilgan, Coin(s).aylanma # NOMALUM  PROVE Rostdan(s, "muomalada")
  BY <1>2, CoinL, TaminotOlL
<1>3. ASSUME NEW s \in ses.elak \ DOMAIN qator, Cardinality(ses.elak) <= MAX_POOL
      PROVE Rostdan(s, "cap")
  <2>1. s \notin ses.pool  BY YozuvQatorL DEF Chuqur
  <2>. QED  BY <1>3, <2>1, PoolL
<1>. QED  BY <1>1, <1>2, <1>3

LEMMA JurnalRostL == SesInv => JurnalRost
<1>. SUFFICES ASSUME SesInv, Tugadi
              PROVE /\ DOMAIN ses.juft # {} /\ DOMAIN ses.ticker # {}
                    /\ jurnal["funding"].holat = "xato" =>
                          \A s \in Tekshirilgan : FundingTekshiruvi(Coin(s)) = MALUMOT_YOQ
                    /\ \A s \in ses.oiYoq : OiTekshiruvi(Coin(s)) = MALUMOT_YOQ
                    /\ (jurnal["oi"].holat = "xato") = (2 * Cardinality(ses.oiYoq) > Cardinality(Chuqur))
                    /\ jurnal["coingecko"].holat = "xato" =>
                          ses.ta = Bosha /\ (Cardinality(ses.elak) <= MAX_POOL => ses.pool = ses.elak)
  BY DEF JurnalRost
<1>1. ses.pc = "tugadi" /\ ses.pc \in KEYIN /\ ses.pc \in KEYIN \ {"oi"}  BY DEF Tugadi, KEYIN
<1>2. DOMAIN ses.juft # {} /\ DOMAIN ses.ticker # {}  BY <1>1 DEF SesInv, SesBozori
<1>3. jurnal["funding"].holat = "xato" => DOMAIN ses.stavka = {}  BY <1>1 DEF SesInv, SesJurnali
<1>4. ASSUME jurnal["funding"].holat = "xato", NEW s
      PROVE FundingTekshiruvi(Coin(s)) = MALUMOT_YOQ
  BY <1>3, <1>4, CoinL, SizL
<1>5. /\ \A s \in ses.oiYoq : Len(ses.oi[s]) = 0
      /\ (jurnal["oi"].holat = "xato") <=> (2 * Cardinality(ses.oiYoq) > Cardinality(Chuqur))
      /\ jurnal["coingecko"].holat = "xato" => ses.ta = Bosha
  BY <1>1 DEF SesInv, SesJurnali
<1>6. \A s \in ses.oiYoq : OiTekshiruvi(Coin(s)) = MALUMOT_YOQ
  <2>1. \A s \in ses.oiYoq : Len(Coin(s).oi) = 0  BY <1>5, CoinL
  <2>. QED  BY <2>1, SizL
<1>7. ASSUME jurnal["coingecko"].holat = "xato", Cardinality(ses.elak) <= MAX_POOL
      PROVE ses.pool = ses.elak
  <2>1. DOMAIN ses.ta = {}  BY <1>5, <1>7 DEF Bosha
  <2>2. \A s : TaminotOl(s) = NOMALUM  BY <2>1 DEF TaminotOl
  <2>3. \A s : KapdanOtadi(s)  BY <2>2 DEF KapdanOtadi
  <2>4. ses.pool = {s \in ses.elak : KapdanOtadi(s)}  BY <1>1, <1>7 DEF SesInv, SesSarasi
  <2>. QED  BY <2>3, <2>4
<1>. QED  BY <1>2, <1>4, <1>5, <1>6, <1>7

LEMMA SessiyaRostL == SesInv => SessiyaRost
  BY QaytaQaraldiL, OrinTogriL, BilmaslikJimL, JurnalRostL DEF SessiyaRost

-----------------------------------------------------------------------------
\* The session does what the worker's model lets a session do

\* A coin's row in the worker's model, but for its kind.
Boshqasi(b, t) == [qator |-> t, nomzod |-> b, holat |-> "yoq", ketma |-> 0, orinli |-> b, baho |-> "yoq"]

LEMMA BoshqasiL ==
  ASSUME NEW b, NEW t, NEW u
  PROVE  [Boshqasi(b, t) EXCEPT !.qator = u] = Boshqasi(b, u)
<1>1. PICK k : k = Boshqasi(b, t)  OBVIOUS
<1>2. [k EXCEPT !.qator = u] = Boshqasi(b, u)  BY <1>1 DEF Boshqasi
<1>. QED  BY <1>1, <1>2

LEMMA QatorYozL ==
  ASSUME NEW k, NEW t, NEW u,
         k = [qator |-> t, nomzod |-> FALSE, holat |-> "yoq", ketma |-> 0, orinli |-> FALSE, baho |-> "yoq"]
  PROVE  [k EXCEPT !.qator = u] =
            [qator |-> u, nomzod |-> FALSE, holat |-> "yoq", ketma |-> 0, orinli |-> FALSE, baho |-> "yoq"]
<1>1. PICK b : b = FALSE  OBVIOUS
<1>2. k = Boshqasi(b, t)  BY <1>1 DEF Boshqasi
<1>3. Boshqasi(b, u) =
        [qator |-> u, nomzod |-> FALSE, holat |-> "yoq", ketma |-> 0, orinli |-> FALSE, baho |-> "yoq"]
  BY <1>1 DEF Boshqasi
<1>4. [k EXCEPT !.qator = u] = Boshqasi(b, u)
  <2>1. [Boshqasi(b, t) EXCEPT !.qator = u] = Boshqasi(b, u)  BY BoshqasiL
  <2>. QED  BY <1>2, <2>1
<1>. QED  BY <1>3, <1>4

\* What the worker's model knows of the sessions: A's of this candle, the last of
\* the session's own kind, the session itself.
LEMMA KengL ==
  ASSUME ses.turi \in RASMIY_TURLAR
  PROVE  \E n \in {2, 3} :
           /\ n = 3 <=> ses.turi = TASDIQ /\ baza.aBor
           /\ DOMAIN KengSessiyalar = 1..n /\ Len(KengSessiyalar) = n
           /\ \A i \in 1..n : KengSessiyalar[i].holat = TUGADI
           /\ n = 3 => /\ KengSessiyalar[1].turi = KASHFIYOT /\ KengSessiyalar[1].sham = 2 * ShamDavri
                       /\ \A s \in Symbollar : KengSessiyalar[1].natija[s].nomzod = (s \in baza.aNomzod)
                                               /\ KengSessiyalar[1].natija[s].qator = "elak"
           /\ KengSessiyalar[n-1].turi = ses.turi
           /\ KengSessiyalar[n-1].sham = (IF baza.qoshni THEN ShamDavri ELSE 0)
           /\ \A s \in Symbollar :
                 /\ KengSessiyalar[n-1].natija[s].nomzod = (s \in DOMAIN baza.ketma)
                 /\ KengSessiyalar[n-1].natija[s].ketma = (IF s \in DOMAIN baza.ketma THEN baza.ketma[s] ELSE 0)
                 /\ KengSessiyalar[n-1].natija[s].orinli = (s \in baza.orinli)
           /\ KengSessiyalar[n].turi = ses.turi /\ KengSessiyalar[n].sham = 2 * ShamDavri
           /\ KengSessiyalar[n].natija = [s \in Symbollar |->
                 IF s \notin DOMAIN qator
                 THEN [qator |-> "yoq", nomzod |-> FALSE, holat |-> "yoq", ketma |-> 0, orinli |-> FALSE,
                       baho |-> "yoq"]
                 ELSE [qator |-> qator[s].turi, nomzod |-> qator[s].nomzod, holat |-> qator[s].holat,
                       ketma |-> qator[s].ketma, baho |-> "yoq",
                       orinli |-> ses.turi = TASDIQ /\ qator[s].orin > 0]]
<1>. DEFINE n0 == [qator |-> "elak", nomzod |-> FALSE, holat |-> "yoq", ketma |-> 0, orinli |-> FALSE,
                   baho |-> "yoq"]
            yoq == [n0 EXCEPT !.qator = "yoq"]
            an == [s \in Symbollar |-> [n0 EXCEPT !.nomzod = s \in baza.aNomzod]]
            qn == [s \in Symbollar |->
                     [n0 EXCEPT !.nomzod = s \in DOMAIN baza.ketma,
                                !.ketma = IF s \in DOMAIN baza.ketma THEN baza.ketma[s] ELSE 0,
                                !.orinli = s \in baza.orinli]]
            on == [s \in Symbollar |->
                     IF s \notin DOMAIN qator THEN yoq
                     ELSE [qator |-> qator[s].turi, nomzod |-> qator[s].nomzod, holat |-> qator[s].holat,
                           ketma |-> qator[s].ketma, baho |-> "yoq",
                           orinli |-> ses.turi = TASDIQ /\ qator[s].orin > 0]]
            T(turi, sham, x) == [turi |-> turi, sham |-> sham, holat |-> TUGADI, boshlandi |-> Yoq, natija |-> x]
            a == T(KASHFIYOT, 2 * ShamDavri, an)
            q == T(ses.turi, IF baza.qoshni THEN ShamDavri ELSE 0, qn)
            ozi == T(ses.turi, 2 * ShamDavri, on)
<1>1. KengSessiyalar = IF ses.turi = TASDIQ /\ baza.aBor THEN <<a, q, ozi>> ELSE <<q, ozi>>
  BY DEF KengSessiyalar
<1>2. \A s \in Symbollar : an[s].nomzod = (s \in baza.aNomzod) /\ an[s].qator = "elak"
  OBVIOUS
<1>3. \A s \in Symbollar : /\ qn[s].nomzod = (s \in DOMAIN baza.ketma)
                           /\ qn[s].ketma = (IF s \in DOMAIN baza.ketma THEN baza.ketma[s] ELSE 0)
                           /\ qn[s].orinli = (s \in baza.orinli)
  OBVIOUS
<1>4. yoq = [qator |-> "yoq", nomzod |-> FALSE, holat |-> "yoq", ketma |-> 0, orinli |-> FALSE,
             baho |-> "yoq"]
  <2>1. PICK x : x = n0  OBVIOUS
  <2>2. x = [qator |-> "elak", nomzod |-> FALSE, holat |-> "yoq", ketma |-> 0, orinli |-> FALSE,
             baho |-> "yoq"]
    BY <2>1
  <2>3. yoq = [x EXCEPT !.qator = "yoq"]  BY <2>1
  <2>. HIDE DEF n0, yoq
  <2>. QED  BY <2>2, <2>3, QatorYozL
<1>. HIDE DEF yoq
<1>5. on = [s \in Symbollar |->
                 IF s \notin DOMAIN qator
                 THEN [qator |-> "yoq", nomzod |-> FALSE, holat |-> "yoq", ketma |-> 0, orinli |-> FALSE,
                       baho |-> "yoq"]
                 ELSE [qator |-> qator[s].turi, nomzod |-> qator[s].nomzod, holat |-> qator[s].holat,
                       ketma |-> qator[s].ketma, baho |-> "yoq",
                       orinli |-> ses.turi = TASDIQ /\ qator[s].orin > 0]]
  BY <1>4
<1>. HIDE DEF n0, an, qn, on
<1>6. /\ a.turi = KASHFIYOT /\ a.sham = 2 * ShamDavri /\ a.holat = TUGADI /\ a.natija = an
      /\ q.turi = ses.turi /\ q.sham = (IF baza.qoshni THEN ShamDavri ELSE 0) /\ q.holat = TUGADI /\ q.natija = qn
      /\ ozi.turi = ses.turi /\ ozi.sham = 2 * ShamDavri /\ ozi.holat = TUGADI /\ ozi.natija = on
  OBVIOUS
<1>. HIDE DEF a, q, ozi
<1>7. CASE ses.turi = TASDIQ /\ baza.aBor
  <2>1. KengSessiyalar = <<a, q, ozi>>  BY <1>1, <1>7
  <2>2. /\ DOMAIN KengSessiyalar = 1..3 /\ Len(KengSessiyalar) = 3 /\ KengSessiyalar[1] = a
        /\ KengSessiyalar[2] = q /\ KengSessiyalar[3] = ozi
    BY <2>1
  <2>3. \A i \in 1..3 : i = 1 \/ i = 2 \/ i = 3  OBVIOUS
  <2>4. \A i \in 1..3 : KengSessiyalar[i].holat = TUGADI  BY <1>6, <2>2, <2>3
  <2>5. 3 - 1 = 2  OBVIOUS
  <2>. WITNESS 3 \in {2, 3}
  <2>. QED  BY <1>2, <1>3, <1>5, <1>6, <1>7, <2>2, <2>4, <2>5
<1>8. CASE ~(ses.turi = TASDIQ /\ baza.aBor)
  <2>1. KengSessiyalar = <<q, ozi>>  BY <1>1, <1>8
  <2>2. /\ DOMAIN KengSessiyalar = 1..2 /\ Len(KengSessiyalar) = 2 /\ KengSessiyalar[1] = q
        /\ KengSessiyalar[2] = ozi
    BY <2>1
  <2>3. \A i \in 1..2 : i = 1 \/ i = 2  OBVIOUS
  <2>4. \A i \in 1..2 : KengSessiyalar[i].holat = TUGADI  BY <1>6, <2>2, <2>3
  <2>5. 2 - 1 = 1 /\ 2 # 3  OBVIOUS
  <2>. WITNESS 2 \in {2, 3}
  <2>. QED  BY <1>3, <1>5, <1>6, <1>8, <2>2, <2>4, <2>5
<1>. QED  BY <1>7, <1>8

\* The repository's answers: A's candidates, the streaks, the coins with a place.
LEMMA KengJavobL ==
  ASSUME SesInv, ses.turi \in RASMIY_TURLAR, NEW r, r = Rejadagi(ses.turi, 2 * ShamDavri)
  PROVE  /\ \A s \in Symbollar : Keng!ANomzod(r, s) = ANomzodmi(s)
         /\ \A s \in Symbollar :
              Keng!OldingiKetma(r, s) = (IF s \in DOMAIN baza.ketma THEN baza.ketma[s] ELSE 0)
         /\ ses.turi = TASDIQ => Keng!Orinlilar(Keng!oldingi_tasdiq(r.sham)) = baza.orinli
<1>. DEFINE K == KengSessiyalar
<1>1. PICK n \in {2, 3} :
           /\ n = 3 <=> ses.turi = TASDIQ /\ baza.aBor
           /\ DOMAIN K = 1..n /\ \A i \in 1..n : K[i].holat = TUGADI
           /\ n = 3 => /\ K[1].turi = KASHFIYOT /\ K[1].sham = 2 * ShamDavri
                       /\ \A s \in Symbollar : K[1].natija[s].nomzod = (s \in baza.aNomzod)
                                               /\ K[1].natija[s].qator = "elak"
           /\ K[n-1].turi = ses.turi /\ K[n-1].sham = (IF baza.qoshni THEN ShamDavri ELSE 0)
           /\ \A s \in Symbollar :
                 /\ K[n-1].natija[s].nomzod = (s \in DOMAIN baza.ketma)
                 /\ K[n-1].natija[s].ketma = (IF s \in DOMAIN baza.ketma THEN baza.ketma[s] ELSE 0)
                 /\ K[n-1].natija[s].orinli = (s \in baza.orinli)
           /\ K[n].turi = ses.turi /\ K[n].sham = 2 * ShamDavri
  BY KengL
<1>. DEFINE Bor(p) == {i \in 1..n : K[i].turi = p.turi /\ K[i].sham = p.sham}
            Oldingi == {i \in 1..n : K[i].turi = TASDIQ /\ K[i].sham < 2 * ShamDavri}
<1>2. r.turi = ses.turi /\ r.sham = 2 * ShamDavri  BY DEF Rejadagi
<1>3. ShamDavri \in Nat \ {0}  BY VaqtFarazi
<1>4. /\ 2 * ShamDavri # ShamDavri /\ 2 * ShamDavri # 0 /\ ShamDavri # 0
      /\ ShamDavri < 2 * ShamDavri /\ 0 < 2 * ShamDavri /\ ~(2 * ShamDavri < 2 * ShamDavri)
      /\ 2 * ShamDavri - ShamDavri = ShamDavri
  BY <1>3
<1>5. KASHFIYOT # TASDIQ /\ ses.turi \in {KASHFIYOT, TASDIQ}  BY DEF KASHFIYOT, TASDIQ, RASMIY_TURLAR
<1>6. \A i \in 1..n : i = n \/ i = n - 1 \/ (n = 3 /\ i = 1)
  OBVIOUS
<1>7. n \in 1..n /\ n - 1 \in 1..n /\ n # n - 1 /\ n \in Nat /\ n - 1 # 0 /\ (n = 3 => n - 1 # 1 /\ 1 \in 1..n)
  OBVIOUS
<1>8. \A p : Keng!tugagan_sessiya(p) = IF Bor(p) = {} THEN 0 ELSE CHOOSE i \in Bor(p) : \A k \in Bor(p) : k <= i
  <2>1. \A p : {i \in DOMAIN K : (K[i].turi = p.turi /\ K[i].sham = p.sham) /\ K[i].holat = TUGADI} = Bor(p)
    BY <1>1
  <2>. QED  BY <2>1 DEF Keng!tugagan_sessiya, Keng!Slotda, Keng!TUGADI, TUGADI
<1>9. Keng!oldingi_tasdiq(2 * ShamDavri) =
        IF Oldingi = {} THEN 0
        ELSE CHOOSE i \in Oldingi : \A k \in Oldingi :
                K[k].sham < K[i].sham \/ (K[k].sham = K[i].sham /\ k <= i)
  <2>. DEFINE X == {i \in DOMAIN K : /\ K[i].turi = TASDIQ
                                    /\ K[i].sham < 2 * ShamDavri
                                    /\ K[i].holat = TUGADI}
  <2>1. X = Oldingi  BY <1>1
  <2>2. Keng!oldingi_tasdiq(2 * ShamDavri) =
          IF X = {} THEN 0
          ELSE CHOOSE i \in X : \A k \in X :
                  K[k].sham < K[i].sham \/ (K[k].sham = K[i].sham /\ k <= i)
    BY DEF Keng!oldingi_tasdiq, Keng!TUGADI, TUGADI, Keng!TASDIQ, TASDIQ
  <2>. HIDE DEF X, Oldingi
  <2>. QED  BY <2>1, <2>2
<1>. HIDE DEF K
<1>10. ASSUME ses.turi = TASDIQ
       PROVE Keng!tugagan_sessiya(Rejadagi(KASHFIYOT, 2 * ShamDavri)) = IF n = 3 THEN 1 ELSE 0
  <2>. DEFINE p == Rejadagi(KASHFIYOT, 2 * ShamDavri)
  <2>1. p.turi = KASHFIYOT /\ p.sham = 2 * ShamDavri  BY DEF Rejadagi
  <2>. HIDE DEF p
  <2>2. Bor(p) = IF n = 3 THEN {1} ELSE {}  BY <1>1, <1>5, <1>6, <1>7, <1>10, <2>1
  <2>3. (CHOOSE i \in {1} : \A k \in {1} : k <= i) = 1
    <3>1. 1 <= 1  OBVIOUS
    <3>. QED  BY <3>1
  <2>. HIDE DEF Bor
  <2>. QED  BY <1>8, <2>2, <2>3 DEF p
<1>11. ASSUME NEW s \in Symbollar  PROVE Keng!ANomzod(r, s) = ANomzodmi(s)
  <2>1. CASE ses.turi # TASDIQ
    BY <1>2, <2>1 DEF Keng!ANomzod, ANomzodmi, Keng!TASDIQ, TASDIQ
  <2>2. CASE ses.turi = TASDIQ
    <3>1. Keng!ANomzod(r, s) = IF n # 3 THEN "none"
             ELSE IF K[1].natija[s].nomzod /\ K[1].natija[s].qator = "elak" THEN "ha" ELSE "yoq"
      <4>1. Keng!tugagan_sessiya(Rejadagi(KASHFIYOT, r.sham)) = IF n = 3 THEN 1 ELSE 0
        BY <1>2, <1>10, <2>2
      <4>2. 1 # 0  OBVIOUS
      <4>. QED  BY <1>2, <2>2, <4>1, <4>2
           DEF Keng!ANomzod, Keng!TASDIQ, TASDIQ, Keng!KASHFIYOT, KASHFIYOT, Keng!Rejadagi, Rejadagi, K
    <3>. QED  BY <1>1, <2>2, <3>1 DEF ANomzodmi
  <2>. QED  BY <2>1, <2>2
<1>12. Keng!tugagan_sessiya(Rejadagi(ses.turi, ShamDavri)) = IF baza.qoshni THEN n - 1 ELSE 0
  <2>. DEFINE p == Rejadagi(ses.turi, ShamDavri)
  <2>1. p.turi = ses.turi /\ p.sham = ShamDavri  BY DEF Rejadagi
  <2>. HIDE DEF p
  <2>2. Bor(p) = IF baza.qoshni THEN {n - 1} ELSE {}  BY <1>1, <1>4, <1>5, <1>6, <1>7, <2>1
  <2>3. (CHOOSE i \in {n - 1} : \A k \in {n - 1} : k <= i) = n - 1
    <3>1. n - 1 <= n - 1  OBVIOUS
    <3>. QED  BY <3>1
  <2>. HIDE DEF Bor
  <2>. QED  BY <1>8, <2>2, <2>3 DEF p
<1>13. ASSUME NEW s \in Symbollar
       PROVE Keng!OldingiKetma(r, s) = (IF s \in DOMAIN baza.ketma THEN baza.ketma[s] ELSE 0)
  <2>1. oldingi_rasmiy_slot(r) = Rejadagi(ses.turi, ShamDavri)  BY <1>2, <1>4 DEF oldingi_rasmiy_slot
  <2>2. Keng!OldingiKetma(r, s) =
           IF baza.qoshni /\ K[n-1].natija[s].nomzod THEN K[n-1].natija[s].ketma ELSE 0
    <3>1. Keng!tugagan_sessiya(oldingi_rasmiy_slot(r)) = IF baza.qoshni THEN n - 1 ELSE 0
      BY <1>12, <2>1
    <3>. QED  BY <1>2, <1>7, <3>1
         DEF Keng!OldingiKetma, Keng!RASMIY_TURLAR, RASMIY_TURLAR, Keng!KASHFIYOT, Keng!TASDIQ, KASHFIYOT, TASDIQ,
             Keng!oldingi_rasmiy_slot, oldingi_rasmiy_slot, Keng!Rejadagi, Rejadagi, K
  <2>3. baza.qoshni \/ DOMAIN baza.ketma = {}  BY DEF SesInv, BazaTuri, Bosha
  <2>. QED  BY <1>1, <2>2, <2>3
<1>14. ASSUME ses.turi = TASDIQ
       PROVE Keng!Orinlilar(Keng!oldingi_tasdiq(r.sham)) = baza.orinli
  <2>1. Oldingi = {n - 1}  BY <1>1, <1>4, <1>5, <1>6, <1>7, <1>14
  <2>2. Keng!oldingi_tasdiq(2 * ShamDavri) = n - 1
    <3>1. (CHOOSE i \in {n - 1} : \A k \in {n - 1} : \/ K[k].sham < K[i].sham
                                                     \/ K[k].sham = K[i].sham /\ k <= i) = n - 1
      <4>1. n - 1 <= n - 1  OBVIOUS
      <4>. QED  BY <4>1
    <3>. HIDE DEF Oldingi
    <3>. QED  BY <1>9, <2>1, <3>1
  <2>3. Keng!Orinlilar(n - 1) = {c \in Symbollar : K[n-1].natija[c].orinli}
    BY <1>7 DEF Keng!Orinlilar, K
  <2>4. baza.orinli \subseteq Symbollar  BY DEF SesInv, BazaTuri
  <2>. QED  BY <1>1, <1>2, <2>2, <2>3, <2>4
<1>. QED  BY <1>11, <1>13, <1>14

LEMMA SessiyaAmalgaL == SesInv => SessiyaAmalga
<1>. DEFINE r == Rejadagi(ses.turi, 2 * ShamDavri)
            b == [elak |-> ses.pool, namuna |-> ses.namuna,
                  nomzod |-> {s \in DOMAIN qator : qator[s].nomzod},
                  yashirin |-> ses.pool \cap baza.yashirin]
            E == KengSessiyalar
<1>. SUFFICES ASSUME SesInv, Tugadi, ses.turi # QOLDA
              PROVE  b \in Keng!Bozor(r) /\ E[Len(E)].natija = Keng!Natija(r, b)
  BY DEF SessiyaAmalga
<1>1. ses.turi \in RASMIY_TURLAR /\ ses.pc \in KEYIN  BY DEF SesInv, SesShakli, Tugadi, KEYIN
<1>2. r.turi = ses.turi /\ r.sham = 2 * ShamDavri  BY DEF Rejadagi
<1>3. r = Rejadagi(ses.turi, 2 * ShamDavri)  OBVIOUS
<1>. HIDE DEF r, E
<1>4. /\ \A s \in Symbollar : Keng!ANomzod(r, s) = ANomzodmi(s)
      /\ \A s \in Symbollar :
           Keng!OldingiKetma(r, s) = (IF s \in DOMAIN baza.ketma THEN baza.ketma[s] ELSE 0)
      /\ ses.turi = TASDIQ => Keng!Orinlilar(Keng!oldingi_tasdiq(r.sham)) = baza.orinli
  BY <1>1, <1>3, KengJavobL
<1>5. /\ Chuqur \subseteq Symbollar /\ ses.pool \cap ses.namuna = {}
      /\ Chuqur \cap OldingiOrinli \subseteq ses.pool
      /\ DOMAIN qator = Chuqur \cup OldingiOrinli
      /\ \A s \in OldingiOrinli \ Chuqur : qator[s] = ChiqdiQatori
      /\ Chuqur \subseteq DOMAIN ses.juft \cap DOMAIN ses.ticker
  BY YozuvQatorL
<1>6. ses.pool \subseteq Chuqur /\ ses.namuna \subseteq Chuqur /\ Chuqur = ses.pool \cup ses.namuna
  BY DEF Chuqur
<1>7. ChiqdiQatori.nomzod = FALSE /\ ChiqdiQatori.turi = "chiqdi" /\ ChiqdiQatori.holat = "yoq"
      /\ ChiqdiQatori.ketma = 0 /\ ChiqdiQatori.orin = 0
  BY DEF ChiqdiQatori
<1>8. b.elak = ses.pool /\ b.namuna = ses.namuna /\ b.yashirin = ses.pool \cap baza.yashirin
      /\ b.nomzod = {s \in DOMAIN qator : qator[s].nomzod}
  OBVIOUS
<1>9. b.nomzod \subseteq Chuqur  BY <1>5, <1>7, <1>8
<1>10. b \in [elak : SUBSET Symbollar, namuna : SUBSET Symbollar,
              nomzod : SUBSET Symbollar, yashirin : SUBSET Symbollar]
  <2>1. /\ ses.pool \in SUBSET Symbollar /\ ses.namuna \in SUBSET Symbollar
        /\ {s \in DOMAIN qator : qator[s].nomzod} \in SUBSET Symbollar
        /\ ses.pool \cap baza.yashirin \in SUBSET Symbollar
    BY <1>5, <1>6, <1>8, <1>9
  <2>. QED  BY <2>1
<1>11. ASSUME NEW c \in ses.namuna
       PROVE Keng!ANomzod(r, c) # "ha" /\ (r.turi = TASDIQ => c \notin Keng!Orinlilar(Keng!oldingi_tasdiq(r.sham)))
  <2>1. c \in Symbollar /\ c \in DOMAIN ses.juft \cap DOMAIN ses.ticker /\ c \in Chuqur  BY <1>5, <1>6
  <2>2. ANomzodmi(c) # "ha"
    <3>1. Range(ses.nomzodlar) \cap ses.elak = {} /\ QaytaQaraladi \subseteq ses.elak
      BY <1>1 DEF SesInv, SesElagi
    <3>2. c \notin ses.elak  BY <1>1, <3>1 DEF SesInv, SesSarasi
    <3>3. ANomzodmi(c) = "ha" => ses.turi = TASDIQ /\ baza.aBor /\ c \in baza.aNomzod  BY DEF ANomzodmi
    <3>4. ANomzodmi(c) = "ha" => c \in QaytaQaraladi  BY <2>1, <3>3 DEF QaytaQaraladi, ANomzodlar
    <3>. QED  BY <3>1, <3>2, <3>4
  <2>3. ses.turi = TASDIQ => c \notin baza.orinli
    <3>1. ses.turi = TASDIQ => OldingiOrinli = baza.orinli  BY DEF OldingiOrinli
    <3>. QED  BY <1>5, <2>1, <3>1
  <2>. QED  BY <1>2, <1>4, <2>1, <2>2, <2>3
<1>12. b \in Keng!Bozor(r)
  <2>1. b.elak \cap b.namuna = {} /\ b.nomzod \subseteq b.elak \cup b.namuna /\ b.yashirin \subseteq b.elak
    BY <1>5, <1>6, <1>8, <1>9
  <2>. HIDE DEF b
  <2>. QED  BY <1>8, <1>10, <1>11, <2>1 DEF Keng!Bozor, Keng!TASDIQ, TASDIQ
<1>. DEFINE yoq == [qator |-> "yoq", nomzod |-> FALSE, holat |-> "yoq", ketma |-> 0, orinli |-> FALSE,
                    baho |-> "yoq"]
            ozi(s) == [qator |-> qator[s].turi, nomzod |-> qator[s].nomzod, holat |-> qator[s].holat,
                       ketma |-> qator[s].ketma, baho |-> "yoq",
                       orinli |-> ses.turi = TASDIQ /\ qator[s].orin > 0]
            keng(c) == [qator |-> IF c \in b.elak THEN "elak" ELSE "namuna",
                        nomzod |-> c \in b.nomzod,
                        holat |-> holat(ses.turi, c \in b.nomzod, ANomzodmi(c)),
                        ketma |-> IF c \in b.elak
                                  THEN ketma_ket(ses.turi, c \in b.nomzod,
                                                 IF c \in DOMAIN baza.ketma THEN baza.ketma[c] ELSE 0)
                                  ELSE 0,
                        orinli |-> ses.turi = TASDIQ /\ c \in b.elak \ b.yashirin,
                        baho |-> "yoq"]
            chiqqan(c) == ses.turi = TASDIQ /\ c \in baza.orinli
<1>13. E[Len(E)].natija = [s \in Symbollar |-> IF s \notin DOMAIN qator THEN yoq ELSE ozi(s)]
  BY <1>1, KengL DEF E
<1>. HIDE DEF b, ozi, keng
<1>14. ASSUME NEW c \in Symbollar, NEW k
       PROVE  [Keng!Natijasiz[c] EXCEPT !.qator = k] =
                 [qator |-> k, nomzod |-> FALSE, holat |-> "yoq", ketma |-> 0, orinli |-> FALSE, baho |-> "yoq"]
  <2>1. Keng!Natijasiz[c] = yoq  BY DEF Keng!Natijasiz
  <2>2. PICK x : x = Keng!Natijasiz[c]  OBVIOUS
  <2>3. x = [qator |-> "yoq", nomzod |-> FALSE, holat |-> "yoq", ketma |-> 0, orinli |-> FALSE, baho |-> "yoq"]
    BY <2>1, <2>2
  <2>4. [x EXCEPT !.qator = k] =
          [qator |-> k, nomzod |-> FALSE, holat |-> "yoq", ketma |-> 0, orinli |-> FALSE, baho |-> "yoq"]
    BY <2>3, QatorYozL
  <2>. QED  BY <2>2, <2>4
<1>15. Keng!Natija(r, b) = [c \in Symbollar |->
          IF c \in b.elak \cup b.namuna THEN keng(c)
          ELSE [Keng!Natijasiz[c] EXCEPT !.qator = IF chiqqan(c) THEN "chiqdi" ELSE "yoq"]]
  <2>1. r.turi # QOLDA /\ QOLDA = Keng!QOLDA /\ TASDIQ = Keng!TASDIQ  BY <1>2 DEF QOLDA, Keng!QOLDA, TASDIQ, Keng!TASDIQ
  <2>. DEFINE katta(c) == [qator |-> IF c \in b.elak THEN "elak" ELSE "namuna",
              nomzod |-> c \in b.nomzod,
              holat |-> Keng!holat(r.turi, c \in b.nomzod, Keng!ANomzod(r, c)),
              ketma |-> IF c \in b.elak
                        THEN Keng!ketma_ket(r.turi, c \in b.nomzod, Keng!OldingiKetma(r, c)) ELSE 0,
              orinli |-> r.turi = Keng!TASDIQ /\ c \in b.elak \ b.yashirin,
              baho |-> "yoq"]
              bor(c) == r.turi = Keng!TASDIQ /\ c \in Keng!Orinlilar(Keng!oldingi_tasdiq(r.sham))
  <2>2. Keng!Natija(r, b) = [c \in Symbollar |->
          IF c \in b.elak \cup b.namuna THEN katta(c)
          ELSE [Keng!Natijasiz[c] EXCEPT !.qator = IF bor(c) THEN "chiqdi" ELSE "yoq"]]
    BY <2>1 DEF Keng!Natija
  <2>3. \A c \in Symbollar : katta(c) = keng(c)
    <3>1. \A x, y, z : Keng!holat(x, y, z) = holat(x, y, z) /\ Keng!ketma_ket(x, y, z) = ketma_ket(x, y, z)
      BY DEF Keng!holat, holat, Keng!ketma_ket, ketma_ket, Keng!TASDIQ, TASDIQ, Keng!KASHFIYOT, KASHFIYOT,
             Keng!RASMIY_TURLAR, RASMIY_TURLAR
    <3>. QED  BY <1>2, <1>4, <2>1, <3>1 DEF keng
  <2>4. \A c : bor(c) <=> chiqqan(c)  BY <1>2, <1>4, <2>1
  <2>. HIDE DEF katta, bor
  <2>. QED  BY <2>2, <2>3, <2>4
<1>16. ASSUME NEW c \in Symbollar
       PROVE (IF c \notin DOMAIN qator THEN yoq ELSE ozi(c)) =
             (IF c \in b.elak \cup b.namuna THEN keng(c)
              ELSE [Keng!Natijasiz[c] EXCEPT !.qator = IF chiqqan(c) THEN "chiqdi" ELSE "yoq"])
  <2>1. CASE c \in Chuqur
    <3>1. c \in DOMAIN qator /\ c \in b.elak \cup b.namuna  BY <1>5, <1>6, <1>8, <2>1
    <3>2. /\ qator[c].turi = (IF c \in ses.pool THEN "elak" ELSE "namuna")
          /\ qator[c].nomzod = Qator(c).nomzod /\ qator[c].holat = Qator(c).holat
          /\ qator[c].ketma = Qator(c).ketma
      BY <2>1, QatorMaydonL
    <3>3. Qator(c).nomzod \in BOOLEAN
          /\ Qator(c).holat = holat(ses.turi, Qator(c).nomzod, ANomzodmi(c))
          /\ Qator(c).ketma = IF c \in ses.pool
                              THEN ketma_ket(ses.turi, Qator(c).nomzod,
                                             IF c \in DOMAIN baza.ketma THEN baza.ketma[c] ELSE 0)
                              ELSE 0
      BY DEF Qator
    <3>4. Qator(c).nomzod = (c \in b.nomzod)  BY <1>8, <3>1, <3>2, <3>3
    <3>5. qator[c].orin > 0 <=> c \in b.elak \ b.yashirin
      <4>1. OrinTogri  BY OrinTogriL
      <4>2. Tekshirilgan = Chuqur /\ qator[c].yashirin = (c \in baza.yashirin)  BY <2>1, QatorMaydonL
      <4>3. {s \in Tekshirilgan : qator[s].orin > 0}
               = {s \in Tekshirilgan : qator[s].turi = "elak" /\ ~qator[s].yashirin}
        BY <4>1 DEF OrinTogri
      <4>4. qator[c].orin > 0 <=> qator[c].turi = "elak" /\ ~qator[c].yashirin  BY <2>1, <4>2, <4>3
      <4>. QED  BY <1>8, <3>2, <4>2, <4>4
    <3>6. ozi(c) = keng(c)  BY <1>8, <3>2, <3>3, <3>4, <3>5 DEF ozi, keng
    <3>. QED  BY <3>1, <3>6
  <2>2. CASE c \in OldingiOrinli \ Chuqur
    <3>1. c \in DOMAIN qator /\ c \notin b.elak \cup b.namuna /\ chiqqan(c)
      BY <1>5, <1>6, <1>8, <2>2 DEF OldingiOrinli
    <3>2. qator[c].nomzod = FALSE /\ qator[c].turi = "chiqdi" /\ qator[c].holat = "yoq"
          /\ qator[c].ketma = 0 /\ qator[c].orin = 0
      BY <1>5, <1>7, <2>2
    <3>3. (ses.turi = TASDIQ /\ qator[c].orin > 0) = FALSE  BY <3>2
    <3>4. ozi(c) = [qator |-> "chiqdi", nomzod |-> FALSE, holat |-> "yoq", ketma |-> 0, orinli |-> FALSE,
                    baho |-> "yoq"]
      BY <3>2, <3>3 DEF ozi
    <3>5. [Keng!Natijasiz[c] EXCEPT !.qator = "chiqdi"] =
             [qator |-> "chiqdi", nomzod |-> FALSE, holat |-> "yoq", ketma |-> 0, orinli |-> FALSE, baho |-> "yoq"]
      BY <1>14
    <3>6. ozi(c) = [Keng!Natijasiz[c] EXCEPT !.qator = "chiqdi"]  BY <3>4, <3>5
    <3>. QED  BY <3>1, <3>6
  <2>3. CASE c \notin Chuqur \cup OldingiOrinli
    <3>1. c \notin DOMAIN qator /\ c \notin b.elak \cup b.namuna  BY <1>5, <1>6, <1>8, <2>3
    <3>2. ~chiqqan(c)  BY <2>3 DEF OldingiOrinli
    <3>3. [Keng!Natijasiz[c] EXCEPT !.qator = "yoq"] = yoq  BY <1>14
    <3>. QED  BY <3>1, <3>2, <3>3
  <2>. QED  BY <2>1, <2>2, <2>3
<1>17. E[Len(E)].natija = Keng!Natija(r, b)
  <2>. DEFINE yozilgan(c) == IF c \notin DOMAIN qator THEN yoq ELSE ozi(c)
              kutilgan(c) == IF c \in b.elak \cup b.namuna THEN keng(c)
                             ELSE [Keng!Natijasiz[c] EXCEPT !.qator = IF chiqqan(c) THEN "chiqdi" ELSE "yoq"]
  <2>1. E[Len(E)].natija = [c \in Symbollar |-> yozilgan(c)]  BY <1>13
  <2>2. Keng!Natija(r, b) = [c \in Symbollar |-> kutilgan(c)]  BY <1>15
  <2>3. \A c \in Symbollar : yozilgan(c) = kutilgan(c)  BY <1>16
  <2>. HIDE DEF yozilgan, kutilgan, E
  <2>. QED  BY <2>1, <2>2, <2>3
<1>. QED  BY <1>12, <1>17

\* Whatever the exchange, CoinGecko and the database hold, whichever requests fail
\* and however many, the rows of a session that ends are right: A's candidates are
\* looked at again, the places are 1, 2, ... in the order of the key, a silent
\* source adds nothing, the journal says what happened, and the rows are ones the
\* worker's model allows (sessiya.py, _hisobla).
THEOREM SessiyaTeoremasi == SessiyaSpec => []SessiyaTogri
<1>1. SesInv => SessiyaTogri  BY SessiyaRostL, SessiyaAmalgaL DEF SessiyaTogri
<1>. QED  BY <1>1, SesInvL, PTL

=============================================================================
