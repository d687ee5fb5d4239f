------------------------------ MODULE TahlilIsboti ------------------------------
(* Proofs about the parts behind a signal: Grafik, for every chart, every length *)
(* of the window and every wing of the fractal; RiskByudjeti, for every balance, *)
(* every table of tiers, both ways of sharing and any number of trades, days and *)
(* strategies' requests; Bloklar, for every checks of a coin; Sinov, for every    *)
(* list of coins, their groups and candles, and every limit on places.           *)
EXTENDS Grafik, Bloklar, RiskByudjeti, Sinov, SequenceTheorems, FiniteSetTheorems,
        WellFoundedInduction, TLAPS

(*********************************** The chart *********************************)

ShamTuri == [open : Int, close : Int, high : Int, low : Int, rad : BOOLEAN]

Butun(s) ==
    /\ 0 < s.low
    /\ s.low <= s.open /\ s.low <= s.close
    /\ s.open <= s.high /\ s.close <= s.high

GInv ==
    /\ shamlar \in Seq(ShamTuri)
    /\ Son > 0
    /\ \A i \in 1..Son : Butun(shamlar[i])
    /\ bosh = Max({1, Son - OYNA + 1})

------------------------------------------------------------------------------
LEMMA IkkidanL ==
  ASSUME NEW a \in Int, NEW b \in Int
  PROVE  /\ Max({a, b}) \in {a, b} /\ Max({a, b}) >= a /\ Max({a, b}) >= b
         /\ Min({a, b}) \in {a, b} /\ Min({a, b}) <= a /\ Min({a, b}) <= b
<1>1. \E x \in {a, b} : \A y \in {a, b} : x >= y  OBVIOUS
<1>2. \E x \in {a, b} : \A y \in {a, b} : x <= y  OBVIOUS
<1>. QED  BY <1>1, <1>2 DEF Max, Min

(* A candle is whole however it is made. *)
LEMMA ShamL ==
  ASSUME NEW o \in Int, NEW q \in Qadamlar, NEW d \in Dumlar, 0 < Sham(o, q, d).low
  PROVE  Sham(o, q, d) \in ShamTuri /\ Butun(Sham(o, q, d))
<1>1. q \in Int /\ d.yuqori \in Nat /\ d.past \in Nat /\ d.rad \in BOOLEAN  BY GrafikFarazi
<1>2. o + q \in Int  BY <1>1
<1>3. /\ Max({o, o + q}) \in Int /\ Max({o, o + q}) >= o /\ Max({o, o + q}) >= o + q
      /\ Min({o, o + q}) \in Int /\ Min({o, o + q}) <= o /\ Min({o, o + q}) <= o + q
  BY <1>2, IkkidanL
<1>. QED  BY <1>1, <1>2, <1>3 DEF Sham, ShamTuri, Butun

LEMMA GBoshL == GInit => GInv
<1>. SUFFICES ASSUME GInit PROVE GInv  OBVIOUS
<1>1. /\ shamlar \in Seq(ShamTuri) /\ shamlar # <<>>
      /\ \A i \in 1..Len(shamlar) : Butun(shamlar[i])
  BY GrafikFarazi DEF GInit, ShamTuri, Butun
<1>2. Len(shamlar) > 0  BY <1>1
<1>. QED  BY <1>1, <1>2 DEF GInit, GInv, Son

(* What the two steps do to the candles and the window. *)
LEMMA YopildiL ==
  ASSUME GInv, ShamYopildi
  PROVE  /\ Son' = Son + 1
         /\ shamlar' \in Seq(ShamTuri)
         /\ \A i \in 1..Son : shamlar'[i] = shamlar[i]
         /\ \A i \in 1..Son' : Butun(shamlar'[i])
         /\ bosh' = Max({1, Son' - OYNA + 1})
         /\ bosh' \in Nat /\ bosh \in Nat /\ bosh <= bosh' /\ 1 <= bosh
<1>1. PICK q \in Qadamlar, d \in Dumlar :
        /\ 0 < Sham(shamlar[Son].close, q, d).low
        /\ shamlar' = Append(shamlar, Sham(shamlar[Son].close, q, d))
        /\ bosh' = Max({bosh, Son + 1 - OYNA + 1})
  BY DEF ShamYopildi
<1>. DEFINE y == Sham(shamlar[Son].close, q, d)
<1>2. Son \in Nat /\ Son > 0 /\ shamlar \in Seq(ShamTuri) /\ OYNA \in Nat  BY GrafikFarazi DEF GInv, Son
<1>3. shamlar[Son] \in ShamTuri  BY <1>2 DEF Son
<1>4. shamlar[Son].close \in Int  BY <1>3 DEF ShamTuri
<1>5. y \in ShamTuri /\ Butun(y)  BY <1>1, <1>4, ShamL
<1>. HIDE DEF y
<1>6. shamlar' = Append(shamlar, y)  BY <1>1 DEF y
<1>7. shamlar' \in Seq(ShamTuri) /\ Son' = Son + 1  BY <1>2, <1>5, <1>6 DEF Son
<1>8. \A i \in 1..Son : shamlar'[i] = shamlar[i]  BY <1>2, <1>5, <1>6 DEF Son
<1>9. shamlar'[Son + 1] = y  BY <1>2, <1>5, <1>6 DEF Son
<1>10. \A i \in 1..Son' : Butun(shamlar'[i])
  <2>. SUFFICES ASSUME NEW i \in 1..Son' PROVE Butun(shamlar'[i])  OBVIOUS
  <2>1. CASE i \in 1..Son  BY <1>8, <2>1 DEF GInv
  <2>2. CASE i = Son + 1  BY <1>5, <1>9, <2>2
  <2>. QED  BY <1>2, <1>7, <2>1, <2>2
<1>11. bosh = Max({1, Son - OYNA + 1})  BY DEF GInv
<1>12. bosh \in Int /\ bosh >= 1 /\ bosh >= Son - OYNA + 1 /\ bosh \in {1, Son - OYNA + 1}
  <2>1. 1 \in Int /\ Son - OYNA + 1 \in Int  BY <1>2
  <2>. QED  BY <2>1, <1>11, IkkidanL
<1>13. bosh' \in {bosh, Son + 1 - OYNA + 1} /\ bosh' >= bosh /\ bosh' >= Son + 1 - OYNA + 1
  <2>1. bosh \in Int /\ Son + 1 - OYNA + 1 \in Int  BY <1>2, <1>12
  <2>. QED  BY <2>1, <1>1, IkkidanL
<1>14. bosh' = Max({1, Son' - OYNA + 1})
  <2>. DEFINE m == Max({1, Son' - OYNA + 1})
  <2>3. 1 \in Int /\ Son' - OYNA + 1 \in Int  BY <1>2, <1>7
  <2>1. m \in {1, Son' - OYNA + 1} /\ m >= 1 /\ m >= Son' - OYNA + 1  BY <2>3, IkkidanL
  <2>. HIDE DEF m
  <2>2. bosh' = m  BY <1>2, <1>7, <1>12, <1>13, <2>1
  <2>. QED  BY <2>2 DEF m
<1>. QED  BY <1>2, <1>7, <1>8, <1>10, <1>12, <1>13, <1>14

LEMMA YurdiL ==
  ASSUME GInv, NarxYurdi
  PROVE  /\ Son' = Son
         /\ shamlar' \in Seq(ShamTuri)
         /\ \A i \in 1..(Son - 1) : shamlar'[i] = shamlar[i]
         /\ \A i \in 1..Son : shamlar'[i].rad = shamlar[i].rad
         /\ \A i \in 1..Son' : Butun(shamlar'[i])
         /\ bosh' = bosh /\ bosh \in Nat /\ 1 <= bosh
<1>1. Son \in Nat /\ Son > 0 /\ shamlar \in Seq(ShamTuri) /\ OYNA \in Nat  BY GrafikFarazi DEF GInv, Son
<1>. DEFINE oxirgi == shamlar[Son]
<1>2. oxirgi \in ShamTuri /\ Butun(oxirgi)  BY <1>1 DEF GInv, Son
<1>. HIDE DEF oxirgi
<1>3. PICK q \in Qadamlar :
        /\ oxirgi.close + q > 0
        /\ shamlar' = [shamlar EXCEPT ![Son] =
              [oxirgi EXCEPT !.close = oxirgi.close + q,
                             !.high = Max({oxirgi.high, oxirgi.close + q}),
                             !.low = Min({oxirgi.low, oxirgi.close + q})]]
        /\ bosh' = bosh
  BY DEF NarxYurdi, oxirgi
<1>. DEFINE n == oxirgi.close + q
            a == Max({oxirgi.high, n})
            b == Min({oxirgi.low, n})
            y == [oxirgi EXCEPT !.close = n, !.high = a, !.low = b]
<1>4. n \in Int /\ n > 0 /\ oxirgi.high \in Int /\ oxirgi.low \in Int /\ oxirgi.open \in Int
  BY <1>2, <1>3, GrafikFarazi DEF ShamTuri
<1>5. /\ a \in {oxirgi.high, n} /\ a >= oxirgi.high /\ a >= n
      /\ b \in {oxirgi.low, n} /\ b <= oxirgi.low /\ b <= n
  BY <1>4, IkkidanL
<1>6. shamlar' = [shamlar EXCEPT ![Son] = y] /\ bosh' = bosh  BY <1>3
<1>. HIDE DEF n, a, b
<1>7. y \in ShamTuri /\ Butun(y) /\ y.rad = oxirgi.rad
  <2>1. /\ y.open = oxirgi.open /\ y.close = n /\ y.high = a /\ y.low = b /\ y.rad = oxirgi.rad
        /\ n \in Int /\ a \in Int /\ b \in Int => y \in ShamTuri
    BY <1>2 DEF ShamTuri
  <2>2. 0 < b  BY <1>2, <1>4, <1>5 DEF Butun
  <2>3. b <= oxirgi.open /\ oxirgi.open <= a  BY <1>2, <1>4, <1>5 DEF Butun
  <2>4. oxirgi.rad \in BOOLEAN /\ a \in Int /\ b \in Int  BY <1>2, <1>4, <1>5 DEF ShamTuri
  <2>. QED  BY <1>4, <1>5, <2>1, <2>2, <2>3, <2>4 DEF ShamTuri, Butun
<1>. HIDE DEF y
<1>8. shamlar' \in Seq(ShamTuri) /\ Son' = Son  BY <1>1, <1>6, <1>7 DEF Son
<1>9. \A i \in 1..Son : shamlar'[i] = IF i = Son THEN y ELSE shamlar[i]  BY <1>1, <1>6 DEF Son
<1>10. \A i \in 1..(Son - 1) : shamlar'[i] = shamlar[i]  BY <1>1, <1>9
<1>11. \A i \in 1..Son : shamlar'[i].rad = shamlar[i].rad  BY <1>7, <1>9 DEF oxirgi
<1>12. \A i \in 1..Son : Butun(shamlar'[i])  BY <1>7, <1>9 DEF GInv
<1>13. bosh = Max({1, Son - OYNA + 1})  BY DEF GInv
<1>14. bosh \in Int /\ bosh >= 1
  <2>. DEFINE chap == Son - OYNA + 1
  <2>1. chap \in Int  BY <1>1, GrafikFarazi
  <2>2. bosh = Max({1, chap})  BY <1>13
  <2>. HIDE DEF chap
  <2>3. Max({1, chap}) \in {1, chap} /\ Max({1, chap}) >= 1  BY <2>1, IkkidanL
  <2>. QED  BY <2>1, <2>2, <2>3
<1>. QED  BY <1>6, <1>8, <1>10, <1>11, <1>12, <1>14

LEMMA GQadamL == GInv /\ [GNext]_gvars => GInv'
<1>. SUFFICES ASSUME GInv, [GNext]_gvars PROVE GInv'  OBVIOUS
<1>1. CASE ShamYopildi
  <2>1. Son \in Nat /\ Son > 0  BY DEF GInv, Son
  <2>. QED  BY <1>1, <2>1, YopildiL DEF GInv
<1>2. CASE NarxYurdi
  BY <1>2, YurdiL DEF GInv
<1>3. CASE UNCHANGED gvars
  BY <1>3 DEF gvars, GInv, Son, Butun
<1>. QED  BY <1>1, <1>2, <1>3 DEF GNext

LEMMA GInvL == GSpec => []GInv
  BY GBoshL, GQadamL, PTL DEF GSpec

------------------------------------------------------------------------------
(* The candles of the window have whole prices. *)
LEMMA NarxlarL ==
  ASSUME GInv
  PROVE  /\ Son \in Nat /\ bosh \in Nat /\ 1 <= bosh /\ QANOT \in Nat \ {0}
         /\ \A i \in 1..Son : /\ shamlar[i].high \in Int /\ shamlar[i].low \in Int
                              /\ shamlar[i].close \in Int
                              /\ shamlar[i].low <= shamlar[i].close
                              /\ shamlar[i].close <= shamlar[i].high
         /\ Oynadagilar \subseteq 1..Son
<1>1. Son \in Nat /\ OYNA \in Nat /\ QANOT \in Nat \ {0}  BY GrafikFarazi DEF GInv, Son
<1>2. 1 \in Int /\ Son - OYNA + 1 \in Int  BY <1>1
<1>3. bosh \in Nat /\ 1 <= bosh
  <2>1. bosh = Max({1, Son - OYNA + 1})  BY DEF GInv
  <2>2. bosh \in {1, Son - OYNA + 1} /\ bosh >= 1  BY <1>2, <2>1, IkkidanL
  <2>. QED  BY <1>2, <2>2
<1>4. \A i \in 1..Son : shamlar[i] \in ShamTuri /\ Butun(shamlar[i])  BY DEF GInv, Son
<1>5. \A i \in 1..Son : shamlar[i].high \in Int /\ shamlar[i].low \in Int /\ shamlar[i].close \in Int
  BY <1>4 DEF ShamTuri
<1>. QED  BY <1>1, <1>3, <1>4, <1>5 DEF Butun, Oynadagilar

(* A swing lies in the middle of the window; its neighbours are in it. *)
LEMMA OrtadaL ==
  ASSUME GInv, NEW i \in Ortadagilar
  PROVE  /\ i \in Nat /\ i \in Oynadagilar /\ i \in 1..Son
         /\ i - QANOT >= bosh /\ i + QANOT <= Son
         /\ \A j \in Oynadagilar : j # i /\ i - QANOT <= j /\ j <= i + QANOT => j \in Yonidagilar(i)
<1>1. /\ Son \in Nat /\ bosh \in Nat /\ 1 <= bosh /\ QANOT \in Nat \ {0}
      /\ Oynadagilar = bosh..Son  BY NarxlarL DEF Oynadagilar
<1>2. i \in (bosh + QANOT)..(Son - QANOT)  BY DEF Ortadagilar
<1>3. i \in Nat /\ i \in Oynadagilar /\ i \in 1..Son /\ i - QANOT >= bosh /\ i + QANOT <= Son
  BY <1>1, <1>2
<1>4. ASSUME NEW j \in Oynadagilar, j # i, i - QANOT <= j, j <= i + QANOT PROVE j \in Yonidagilar(i)
  BY <1>1, <1>3, <1>4 DEF Yonidagilar
<1>. QED  BY <1>3, <1>4

LEMMA KesishL == GInv => KesishTasdiqdanKeyin
<1>. SUFFICES ASSUME GInv, NEW j \in Oynadagilar
     PROVE  /\ \A i \in Yuqorilar : YuqoriKesildi(i, j) => j > i + QANOT
            /\ \A i \in Pastlar : PastKesildi(i, j) => j > i + QANOT
  BY DEF KesishTasdiqdanKeyin
<1>1. /\ j \in 1..Son /\ j \in Nat /\ QANOT \in Nat
      /\ shamlar[j].high \in Int /\ shamlar[j].low \in Int /\ shamlar[j].close \in Int
      /\ shamlar[j].low <= shamlar[j].close /\ shamlar[j].close <= shamlar[j].high
  BY NarxlarL
<1>2. ASSUME NEW i \in Yuqorilar, YuqoriKesildi(i, j), ~(j > i + QANOT) PROVE FALSE
  <2>1. i \in Ortadagilar  BY DEF Yuqorilar
  <2>2. i \in Nat /\ i \in 1..Son  BY <2>1, OrtadaL
  <2>3. j > i /\ shamlar[j].close > shamlar[i].high  BY <1>2 DEF YuqoriKesildi
  <2>4. j # i /\ i - QANOT <= j /\ j <= i + QANOT  BY <1>1, <1>2, <2>2, <2>3
  <2>5. j \in Yonidagilar(i)  BY <2>1, <2>4, OrtadaL
  <2>6. shamlar[i].high > shamlar[j].high  BY <2>5 DEF Yuqorilar
  <2>7. shamlar[i].high \in Int  BY <2>2, NarxlarL
  <2>. QED  BY <1>1, <2>3, <2>6, <2>7
<1>3. ASSUME NEW i \in Pastlar, PastKesildi(i, j), ~(j > i + QANOT) PROVE FALSE
  <2>1. i \in Ortadagilar  BY DEF Pastlar
  <2>2. i \in Nat /\ i \in 1..Son  BY <2>1, OrtadaL
  <2>3. j > i /\ shamlar[j].close < shamlar[i].low  BY <1>3 DEF PastKesildi
  <2>4. j # i /\ i - QANOT <= j /\ j <= i + QANOT  BY <1>1, <1>3, <2>2, <2>3
  <2>5. j \in Yonidagilar(i)  BY <2>1, <2>4, OrtadaL
  <2>6. shamlar[i].low < shamlar[j].low  BY <2>5 DEF Pastlar
  <2>7. shamlar[i].low \in Int  BY <2>2, NarxlarL
  <2>. QED  BY <1>1, <2>3, <2>6, <2>7
<1>. QED  BY <1>2, <1>3

LEMMA BuzilishL == GInv => BirShamBirBuzilish
<1>. SUFFICES ASSUME GInv, NEW j \in BosShamlari, j \in ChochShamlari PROVE FALSE
  BY DEF BirShamBirBuzilish
<1>1. PICK i \in Yuqorilar : YuqoriKesildi(i, j)  BY DEF BosShamlari
<1>2. PICK l \in Pastlar : PastKesildi(l, j)  BY DEF ChochShamlari
<1>3. j \in Oynadagilar  BY DEF BosShamlari
<1>4. i \in Ortadagilar /\ l \in Ortadagilar /\ i # l  BY DEF Yuqorilar, Pastlar
<1>5. i \in Nat /\ l \in Nat /\ i \in 1..Son /\ l \in 1..Son /\ j \in 1..Son
  BY <1>3, <1>4, OrtadaL, NarxlarL
<1>6. /\ shamlar[i].high \in Int /\ shamlar[i].close \in Int
      /\ shamlar[l].low \in Int /\ shamlar[l].close \in Int /\ shamlar[j].close \in Int
      /\ shamlar[i].close <= shamlar[i].high /\ shamlar[l].low <= shamlar[l].close
  BY <1>5, NarxlarL
<1>7. /\ j > i /\ shamlar[j].close > shamlar[i].high
      /\ \A k \in (i + 1)..(j - 1) : shamlar[k].close <= shamlar[i].high
  BY <1>1 DEF YuqoriKesildi
<1>8. /\ j > l /\ shamlar[j].close < shamlar[l].low
      /\ \A k \in (l + 1)..(j - 1) : shamlar[k].close >= shamlar[l].low
  BY <1>2 DEF PastKesildi
<1>9. CASE i < l
  <2>1. l \in (i + 1)..(j - 1)  BY <1>5, <1>8, <1>9
  <2>2. shamlar[l].close <= shamlar[i].high  BY <1>7, <2>1
  <2>. QED  BY <1>6, <1>7, <1>8, <2>2
<1>10. CASE l < i
  <2>1. i \in (l + 1)..(j - 1)  BY <1>5, <1>7, <1>10
  <2>2. shamlar[i].close >= shamlar[l].low  BY <1>8, <2>1
  <2>. QED  BY <1>6, <1>7, <1>8, <2>2
<1>. QED  BY <1>4, <1>5, <1>9, <1>10

------------------------------------------------------------------------------
(* Arithmetic of a window b..s with wings of q candles, free of the state. *)
LEMMA OraliqL ==
  ASSUME NEW q \in Nat, NEW b \in Nat, NEW s \in Nat, NEW i \in Nat
  PROVE  /\ (b + q <= i /\ i + q <= s) <=> i \in (b + q)..(s - q)
         /\ (b + q <= i /\ i + q <= s) => (i - q)..(i + q) \subseteq b..s
         /\ i # s - q <=> i + q # s
  OBVIOUS

(* Closed candles around a place settle whether it is a swing. *)
Orasida(i) == (i - QANOT)..(i + QANOT)

LEMMA YonL ==
  ASSUME GInv, NEW i \in Ortadagilar
  PROVE  Yonidagilar(i) = Orasida(i) \ {i}
<1>1. Son \in Nat /\ bosh \in Nat /\ QANOT \in Nat \ {0}  BY NarxlarL
<1>2. i \in Nat /\ i - QANOT >= bosh /\ i + QANOT <= Son  BY OrtadaL
<1>3. Orasida(i) \subseteq Oynadagilar  BY <1>1, <1>2 DEF Orasida, Oynadagilar
<1>. QED  BY <1>3 DEF Yonidagilar, Orasida

LEMMA AynanL ==
  ASSUME GInv, Son' \in Nat, bosh' \in Nat, NEW i, i \in Ortadagilar, i \in Ortadagilar',
         \A k \in Orasida(i) : shamlar'[k] = shamlar[k]
  PROVE  /\ i \in Yuqorilar <=> i \in Yuqorilar'
         /\ i \in Pastlar <=> i \in Pastlar'
<1>1. Yonidagilar(i) = Orasida(i) \ {i}  BY YonL
<1>2. Yonidagilar(i)' = Orasida(i) \ {i}
  <2>1. QANOT \in Nat \ {0}  BY GrafikFarazi
  <2>3. i \in (bosh' + QANOT)..(Son' - QANOT)  BY DEF Ortadagilar
  <2>4. i \in Nat  BY OrtadaL
  <2>5. PICK b \in Nat, s \in Nat : b = bosh' /\ s = Son'  OBVIOUS
  <2>6. QANOT \in Nat /\ i \in (b + QANOT)..(s - QANOT)  BY <2>1, <2>3, <2>5
  <2>7. Orasida(i) \subseteq b..s  BY <2>4, <2>6, OraliqL DEF Orasida
  <2>2. Orasida(i) \subseteq Oynadagilar'  BY <2>5, <2>7 DEF Oynadagilar
  <2>. QED  BY <2>2 DEF Yonidagilar, Orasida
<1>3. i \in Orasida(i)
  <2>1. QANOT \in Nat  BY GrafikFarazi
  <2>2. i \in Nat  BY OrtadaL
  <2>. QED  BY <2>1, <2>2 DEF Orasida
<1>4. \A k \in Orasida(i) : shamlar'[k].high = shamlar[k].high /\ shamlar'[k].low = shamlar[k].low
  OBVIOUS
<1>5. i \in Yuqorilar <=> i \in Yuqorilar'  BY <1>1, <1>2, <1>3, <1>4 DEF Yuqorilar
<1>6. i \in Pastlar <=> i \in Pastlar'  BY <1>1, <1>2, <1>3, <1>4, <1>5 DEF Pastlar
<1>. QED  BY <1>5, <1>6

LEMMA SwingL ==
  ASSUME GInv, ShamYopildi \/ NarxYurdi
  PROVE  /\ \A i \in Yuqorilar : i \in Yuqorilar' \/ i < (bosh + QANOT)' \/ i + QANOT = Son
         /\ \A i \in Pastlar : i \in Pastlar' \/ i < (bosh + QANOT)' \/ i + QANOT = Son
         /\ Yuqorilar' \ Yuqorilar \subseteq {(Son - QANOT)'}
         /\ Pastlar' \ Pastlar \subseteq {(Son - QANOT)'}
<1>1. /\ Son \in Nat /\ bosh \in Nat /\ 1 <= bosh /\ QANOT \in Nat \ {0}  BY NarxlarL
<1>2. /\ Son' \in Nat /\ bosh' \in Nat /\ bosh <= bosh' /\ Son <= Son' /\ Son' <= Son + 1
      /\ \A k \in 1..(Son - 1) : shamlar'[k] = shamlar[k]
      /\ \A k \in 1..Son : shamlar'[k].rad = shamlar[k].rad
      /\ Son' = Son + 1 => \A k \in 1..Son : shamlar'[k] = shamlar[k]
  <2>1. CASE ShamYopildi  BY <1>1, <2>1, YopildiL
  <2>2. CASE NarxYurdi  BY <1>1, <2>2, YurdiL
  <2>. QED  BY <2>1, <2>2
(* The window before and after the step, as numbers. *)
<1>w. PICK b \in Nat, s \in Nat, c \in Nat, z \in Nat, q \in Nat :
         b = bosh /\ s = Son /\ c = bosh' /\ z = Son' /\ q = QANOT
  BY <1>1, <1>2
<1>v. 1 <= b /\ b <= c /\ s <= z /\ z <= s + 1  BY <1>1, <1>2, <1>w
(* A place with a closed wing keeps its neighbours and its mark. *)
<1>3. ASSUME NEW i \in Ortadagilar, i >= bosh' + QANOT, i + QANOT # Son
      PROVE  /\ i \in Yuqorilar <=> i \in Yuqorilar'
             /\ i \in Pastlar <=> i \in Pastlar'
  <2>1. i \in Nat /\ i - QANOT >= bosh /\ i + QANOT <= Son /\ i \in 1..Son  BY OrtadaL
  <2>c. i >= c + q  BY <1>3, <1>w
  <2>d. i + q # s  BY <1>3, <1>w
  <2>e. i \in Nat /\ i + q <= s /\ i - q >= b  BY <1>w, <2>1
  <2>2. i \in Nat /\ i >= c + q /\ i + q <= s - 1 /\ i - q >= b  BY <2>c, <2>d, <2>e
  <2>a. (i - q)..(i + q) \subseteq 1..(s - 1)  BY <1>v, <2>2
  <2>3. \A k \in Orasida(i) : shamlar'[k] = shamlar[k]  BY <1>2, <1>w, <2>a DEF Orasida
  <2>b. i \in (c + q)..(z - q)  BY <1>v, <2>2
  <2>4. i \in (bosh' + QANOT)..(Son' - QANOT)  BY <1>w, <2>b
  <2>5. i \in Ortadagilar'  BY <1>2, <2>1, <2>4 DEF Ortadagilar
  <2>. QED  BY <1>2, <2>3, <2>5, AynanL
<1>4. ASSUME NEW i \in Ortadagilar', i # (Son - QANOT)'
      PROVE  /\ i \in Ortadagilar
             /\ i \in Yuqorilar <=> i \in Yuqorilar'
             /\ i \in Pastlar <=> i \in Pastlar'
  <2>1. i \in (bosh' + QANOT)..(Son' - QANOT) /\ ~shamlar'[i].rad /\ i # Son' - QANOT
    BY <1>4 DEF Ortadagilar
  <2>a. i \in (c + q)..(z - q) /\ i # z - q  BY <1>w, <2>1
  <2>2. i \in Nat /\ i >= c + q /\ i + q <= s  BY <1>v, <2>a
  <2>b. i \in 1..s \/ i = 0  BY <2>2
  <2>3. i \in 1..s /\ i \in (b + q)..(s - q)  BY <1>v, <2>2, <2>b
  <2>4. i \in 1..Son /\ i \in (bosh + QANOT)..(Son - QANOT)  BY <1>w, <2>3
  <2>5. i \in Ortadagilar  BY <1>2, <2>1, <2>4 DEF Ortadagilar
  <2>6. \A k \in Orasida(i) : shamlar'[k] = shamlar[k]
    <3>1. CASE z = s + 1
      <4>1. (i - q)..(i + q) \subseteq 1..s  BY <1>v, <2>2
      <4>. QED  BY <1>2, <1>w, <3>1, <4>1 DEF Orasida
    <3>2. CASE z = s
      <4>1. (i - q)..(i + q) \subseteq 1..(s - 1)  BY <1>v, <2>a, <2>2, <3>2
      <4>. QED  BY <1>2, <1>w, <4>1 DEF Orasida
    <3>. QED  BY <1>v, <3>1, <3>2
  <2>. QED  BY <1>2, <2>5, <2>6, AynanL
<1>5. Yuqorilar \subseteq Ortadagilar /\ Pastlar \subseteq Ortadagilar  BY DEF Yuqorilar, Pastlar
<1>6. Yuqorilar' \subseteq Ortadagilar' /\ Pastlar' \subseteq Ortadagilar'  BY DEF Yuqorilar, Pastlar
<1>7. \A i \in Ortadagilar : i < bosh' + QANOT \/ i >= bosh' + QANOT
  <2>1. \A i \in Ortadagilar : i \in Nat  BY OrtadaL
  <2>. QED  BY <1>1, <1>2, <2>1
<1>8. \A i \in Yuqorilar : i \in Yuqorilar' \/ i < (bosh + QANOT)' \/ i + QANOT = Son
  BY <1>3, <1>5, <1>7
<1>9. \A i \in Pastlar : i \in Pastlar' \/ i < (bosh + QANOT)' \/ i + QANOT = Son
  BY <1>3, <1>5, <1>7
<1>10. Yuqorilar' \ Yuqorilar \subseteq {(Son - QANOT)'}  BY <1>4, <1>6
<1>11. Pastlar' \ Pastlar \subseteq {(Son - QANOT)'}  BY <1>4, <1>6
<1>. QED  BY <1>8, <1>9, <1>10, <1>11

------------------------------------------------------------------------------
(* The candles are whole and the window is the last OYNA of them. *)
THEOREM GTurTeoremasi == GSpec => []GTypeOK
<1>1. ASSUME GInv PROVE GTypeOK
  <2>1. \A i \in 1..Son : shamlar[i] \in ShamTuri /\ Butun(shamlar[i])  BY <1>1 DEF GInv, Son
  <2>2. \A i \in 1..Son : shamlar[i].open \in Int /\ shamlar[i].close \in Int  BY <2>1 DEF ShamTuri
  <2>3. ASSUME NEW i \in 1..Son
        PROVE  /\ 0 < shamlar[i].low /\ shamlar[i].low <= Min({shamlar[i].open, shamlar[i].close})
               /\ shamlar[i].high >= Max({shamlar[i].open, shamlar[i].close})
    <3>. DEFINE o == shamlar[i].open
                c == shamlar[i].close
    <3>1. Max({o, c}) \in {o, c} /\ Min({o, c}) \in {o, c}  BY <2>2, IkkidanL
    <3>2. shamlar[i] \in ShamTuri /\ Butun(shamlar[i])  BY <2>1
    <3>3. shamlar[i].high \in Int /\ shamlar[i].low \in Int  BY <3>2 DEF ShamTuri
    <3>. QED  BY <2>2, <3>1, <3>2, <3>3 DEF Butun
  <2>. QED  BY <1>1, <2>3 DEF GInv, GTypeOK
<1>. QED  BY <1>1, GInvL, PTL

(* No break of structure is found before the swing it breaks is known *)
(* (bos_choch.py).                                                     *)
THEOREM KesishTeoremasi == GSpec => []KesishTasdiqdanKeyin
  BY KesishL, GInvL, PTL

(* No candle breaks the structure both ways. *)
THEOREM BuzilishTeoremasi == GSpec => []BirShamBirBuzilish
  BY BuzilishL, GInvL, PTL

(* Swings with closed wings are never repainted, and none appears but beside *)
(* the forming candle's wing (swing_detector.py).                             *)
THEOREM SwingTeoremasi == GSpec => SwinglarQotgan
<1>1. ASSUME GInv, [GNext]_gvars
      PROVE  [/\ \A i \in Yuqorilar : i \in Yuqorilar' \/ i < (bosh + QANOT)' \/ i + QANOT = Son
              /\ \A i \in Pastlar : i \in Pastlar' \/ i < (bosh + QANOT)' \/ i + QANOT = Son
              /\ Yuqorilar' \ Yuqorilar \subseteq {(Son - QANOT)'}
              /\ Pastlar' \ Pastlar \subseteq {(Son - QANOT)'}]_gvars
  BY <1>1, SwingL DEF GNext
<1>. QED  BY <1>1, GInvL, PTL DEF GSpec, SwinglarQotgan

(* The structure read from a chart is one (bos_choch.py, swing_detector.py). *)
THEOREM TuzilmaTeoremasi == GSpec => []TuzilmaTogri
  BY GTurTeoremasi, KesishTeoremasi, BuzilishTeoremasi, PTL DEF TuzilmaTogri
-----------------------------------------------------------------------------
(********************************* The budget **********************************)

------------------------------------------------------------------------------
(* Whole numbers and finite sets of them. *)
LEMMA EngKichikL ==
  ASSUME NEW T, T \subseteq Nat, T # {}
  PROVE  \E x \in T : \A y \in T : x <= y
<1>1. PICK x \in T : \A y \in T : ~(<<y, x>> \in OpToRel(<, Nat))
  BY NatLessThanWellFounded, WFMin
<1>2. \A y \in T : ~(y < x)  BY <1>1 DEF OpToRel
<1>3. \A y \in T : x <= y
  <2>1. \A y \in T : y \in Nat /\ x \in Nat  OBVIOUS
  <2>. QED  BY <1>2, <2>1
<1>. QED  BY <1>3

(* A finite set of whole numbers has a greatest and a least. *)
LEMMA ChekkalarL ==
  ASSUME NEW S, IsFiniteSet(S), S \subseteq Int, S # {}
  PROVE  /\ \E x \in S : \A y \in S : x >= y
         /\ \E x \in S : \A y \in S : x <= y
<1>. DEFINE Chekkali(R) == /\ \E x \in R : \A y \in R : x >= y
                           /\ \E x \in R : \A y \in R : x <= y
            Yomonlar == {n \in Nat : \E R \in SUBSET S :
                            R # {} /\ Cardinality(R) = n /\ ~Chekkali(R)}
<1>1. \A R \in SUBSET S : IsFiniteSet(R) /\ Cardinality(R) \in Nat
  BY FS_Subset, FS_CardinalityType
<1>2. ASSUME Yomonlar # {} PROVE FALSE
  <2>1. PICK n \in Yomonlar : \A m \in Yomonlar : n <= m  BY <1>2, EngKichikL
  <2>2. PICK R \in SUBSET S : R # {} /\ Cardinality(R) = n /\ ~Chekkali(R)  OBVIOUS
  <2>3. PICK x \in R : TRUE  BY <2>2
  <2>. DEFINE Q == R \ {x}
  <2>4. Q \in SUBSET S /\ Cardinality(Q) = n - 1
    BY <1>1, <2>2, <2>3, FS_RemoveElement
  <2>5. Cardinality(Q) \in Nat /\ n \in Nat  BY <1>1, <2>4
  <2>6. Cardinality(Q) < n  BY <2>4, <2>5
  <2>7. Cardinality(Q) \notin Yomonlar  BY <2>1, <2>5, <2>6
  <2>8. Q = {} \/ Chekkali(Q)  BY <2>4, <2>5, <2>7
  <2>9. x \in Int /\ R \subseteq Int /\ R = Q \cup {x} /\ Q \subseteq Int  BY <2>2, <2>3
  <2>. HIDE DEF Q
  <2>10. CASE Q = {}
    <3>1. R = {x}  BY <2>9, <2>10
    <3>2. Chekkali(R)  BY <2>9, <3>1
    <3>. QED  BY <2>2, <3>2
  <2>11. CASE Chekkali(Q)
    <3>1. PICK a \in Q : \A y \in Q : a >= y  BY <2>11
    <3>2. PICK b \in Q : \A y \in Q : b <= y  BY <2>11
    <3>3. \E z \in R : \A y \in R : z >= y
      <4>1. CASE x >= a  BY <2>9, <3>1, <4>1
      <4>2. CASE a >= x  BY <2>9, <3>1, <4>2
      <4>. QED  BY <2>9, <3>1, <4>1, <4>2
    <3>4. \E z \in R : \A y \in R : z <= y
      <4>1. CASE x <= b  BY <2>9, <3>2, <4>1
      <4>2. CASE b <= x  BY <2>9, <3>2, <4>2
      <4>. QED  BY <2>9, <3>2, <4>1, <4>2
    <3>. QED  BY <2>2, <3>3, <3>4
  <2>. QED  BY <2>8, <2>10, <2>11
<1>3. S \in SUBSET S /\ Cardinality(S) \in Nat  BY <1>1
<1>4. Chekkali(S)
  <2>. SUFFICES ASSUME ~Chekkali(S) PROVE Cardinality(S) \in Yomonlar  BY <1>2
  <2>. QED  BY <1>3
<1>. QED  BY <1>4

LEMMA MaxMinL ==
  ASSUME NEW S, IsFiniteSet(S), S \subseteq Int, S # {}
  PROVE  /\ Max(S) \in S /\ \A y \in S : Max(S) >= y
         /\ Min(S) \in S /\ \A y \in S : Min(S) <= y
BY ChekkalarL DEF Max, Min

(* Of two sets of places one of which has lost its first ones, and has two at least, *)
(* the last two are the same.                                                        *)
LEMMA IkkiOxirgiL ==
  ASSUME NEW S, IsFiniteSet(S), S \subseteq Int, NEW T \in SUBSET S,
         \A x \in S, y \in T : y <= x => x \in T, Cardinality(T) >= 2
  PROVE  /\ Max(T) = Max(S) /\ Oldingi(T) = Oldingi(S) /\ Cardinality(S) >= 2
         /\ Max(T) \in T /\ Oldingi(T) \in T
<1>1. IsFiniteSet(T) /\ Cardinality(T) <= Cardinality(S) /\ Cardinality(T) \in Nat /\ Cardinality(S) \in Nat
  BY FS_Subset, FS_CardinalityType
<1>2. T # {}  BY <1>1, FS_EmptySet
<1>3. /\ Max(T) \in T /\ \A y \in T : Max(T) >= y
      /\ Max(S) \in S /\ \A y \in S : Max(S) >= y
  <2>1. T \subseteq Int /\ S # {}  BY <1>2
  <2>. QED  BY <1>1, <1>2, <2>1, MaxMinL
<1>4. Max(T) = Max(S)
  <2>1. Max(S) >= Max(T) /\ Max(T) \in Int /\ Max(S) \in Int  BY <1>3
  <2>2. Max(S) \in T  BY <1>3, <2>1
  <2>. QED  BY <1>3, <2>1, <2>2
<1>. DEFINE m == Max(S)
<1>5. /\ IsFiniteSet(T \ {m}) /\ IsFiniteSet(S \ {m}) /\ Cardinality(T \ {m}) = Cardinality(T) - 1
  BY <1>1, <1>3, <1>4, FS_RemoveElement
<1>6. T \ {m} # {}  BY <1>1, <1>5, FS_EmptySet
<1>. HIDE DEF m
<1>7. /\ Max(T \ {m}) \in T \ {m} /\ \A y \in T \ {m} : Max(T \ {m}) >= y
      /\ Max(S \ {m}) \in S \ {m} /\ \A y \in S \ {m} : Max(S \ {m}) >= y
  <2>1. T \ {m} \subseteq Int /\ S \ {m} \subseteq Int /\ S \ {m} # {}  BY <1>6
  <2>. QED  BY <1>5, <1>6, <2>1, MaxMinL
<1>8. Max(T \ {m}) = Max(S \ {m})
  <2>1. Max(S \ {m}) >= Max(T \ {m}) /\ Max(T \ {m}) \in Int /\ Max(S \ {m}) \in Int  BY <1>7
  <2>2. Max(S \ {m}) \in T \ {m}  BY <1>7, <2>1
  <2>. QED  BY <1>7, <2>1, <2>2
<1>9. Oldingi(T) = Max(T \ {m}) /\ Oldingi(S) = Max(S \ {m})  BY <1>4 DEF Oldingi, m
<1>. QED  BY <1>1, <1>3, <1>4, <1>7, <1>8, <1>9

------------------------------------------------------------------------------
(* Swings are places of the window. *)
LEMMA SwingJoyiL ==
  ASSUME GInv
  PROVE  /\ IsFiniteSet(Yuqorilar) /\ Yuqorilar \subseteq 1..Son /\ Yuqorilar \subseteq Int
         /\ IsFiniteSet(Pastlar) /\ Pastlar \subseteq 1..Son /\ Pastlar \subseteq Int
         /\ IsFiniteSet(1..Son)
<1>1. Ortadagilar \subseteq 1..Son  BY OrtadaL
<1>2. Yuqorilar \subseteq 1..Son /\ Pastlar \subseteq 1..Son  BY <1>1 DEF Yuqorilar, Pastlar
<1>3. Son \in Nat  BY NarxlarL
<1>4. IsFiniteSet(1..Son) /\ 1..Son \subseteq Int  BY <1>3, FS_Interval
<1>. QED  BY <1>2, <1>4, FS_Subset

(* When a candle closes swings are lost at the window's left end only. *)
LEMMA YopilganSwingL ==
  ASSUME GInv, ShamYopildi
  PROVE  /\ \A i \in Yuqorilar : i \in Yuqorilar' \/ i < bosh' + QANOT
         /\ \A i \in Pastlar : i \in Pastlar' \/ i < bosh' + QANOT
         /\ Yuqorilar' \subseteq Yuqorilar \/ Pastlar' \subseteq Pastlar
         /\ \A i \in Yuqorilar' \cup Pastlar' : i \in Int /\ i >= bosh' + QANOT
         /\ bosh' + QANOT \in Int
<1>1. /\ Son \in Nat /\ bosh \in Nat /\ 1 <= bosh /\ QANOT \in Nat \ {0}  BY NarxlarL
<1>2. /\ Son' = Son + 1 /\ bosh' \in Nat /\ bosh <= bosh'
      /\ \A k \in 1..Son : shamlar'[k] = shamlar[k]
  BY YopildiL
<1>w. PICK b \in Nat, s \in Nat, c \in Nat, q \in Nat :
         b = bosh /\ s = Son /\ c = bosh' /\ q = QANOT /\ Son' = s + 1
  BY <1>1, <1>2
<1>v. 1 <= b /\ b <= c  BY <1>1, <1>2, <1>w
<1>3. ASSUME NEW i \in Ortadagilar, i >= bosh' + QANOT
      PROVE  /\ i \in Yuqorilar <=> i \in Yuqorilar'
             /\ i \in Pastlar <=> i \in Pastlar'
  <2>1. i \in Nat /\ i - QANOT >= bosh /\ i + QANOT <= Son /\ i \in 1..Son /\ ~shamlar[i].rad
    BY OrtadaL DEF Ortadagilar
  <2>2. i \in Nat /\ i >= c + q /\ i + q <= s /\ i - q >= b  BY <1>3, <1>w, <2>1
  <2>a. (i - q)..(i + q) \subseteq 1..s /\ i \in (c + q)..((s + 1) - q)  BY <1>v, <2>2
  <2>3. \A k \in Orasida(i) : shamlar'[k] = shamlar[k]  BY <1>2, <1>w, <2>a DEF Orasida
  <2>4. i \in (bosh' + QANOT)..(Son' - QANOT)  BY <1>w, <2>a
  <2>5. shamlar'[i] = shamlar[i]  BY <1>2, <2>1
  <2>6. i \in Ortadagilar'  BY <2>1, <2>4, <2>5 DEF Ortadagilar
  <2>7. Son' \in Nat /\ bosh' \in Nat  BY <1>1, <1>2
  <2>. QED  BY <2>3, <2>6, <2>7, AynanL
<1>4. Yuqorilar \subseteq Ortadagilar /\ Pastlar \subseteq Ortadagilar  BY DEF Yuqorilar, Pastlar
<1>5. \A i \in Ortadagilar : i < bosh' + QANOT \/ i >= bosh' + QANOT
  <2>1. \A i \in Ortadagilar : i \in Nat  BY OrtadaL
  <2>. QED  BY <1>1, <1>2, <2>1
<1>6. Yuqorilar' \subseteq Yuqorilar \/ Pastlar' \subseteq Pastlar
  <2>1. Yuqorilar' \ Yuqorilar \subseteq {(Son - QANOT)'} /\ Pastlar' \ Pastlar \subseteq {(Son - QANOT)'}
    BY SwingL
  <2>2. (Son - QANOT)' \notin Yuqorilar' \/ (Son - QANOT)' \notin Pastlar'  BY DEF Pastlar
  <2>. QED  BY <2>1, <2>2
<1>7. \A i \in Yuqorilar' \cup Pastlar' : i \in Int /\ i >= bosh' + QANOT
  <2>1. Yuqorilar' \cup Pastlar' \subseteq Ortadagilar'  BY DEF Yuqorilar, Pastlar
  <2>2. Ortadagilar' \subseteq (bosh' + QANOT)..(Son' - QANOT)  BY DEF Ortadagilar
  <2>3. \A i \in (c + q)..((s + 1) - q) : i \in Int /\ i >= c + q  OBVIOUS
  <2>4. bosh' + QANOT = c + q /\ Son' - QANOT = (s + 1) - q  BY <1>w
  <2>. QED  BY <2>1, <2>2, <2>3, <2>4
<1>. QED  BY <1>1, <1>2, <1>3, <1>4, <1>5, <1>6, <1>7

(* A kind that gains no swing keeps its last two when it still has two. *)
LEMMA IkkitaQoladiL ==
  ASSUME GInv, ShamYopildi
  PROVE  /\ Yuqorilar' \subseteq Yuqorilar =>
              /\ PastYuqori(Yuqorilar)' => PastYuqori(Yuqorilar)
              /\ BalandYuqori(Yuqorilar)' => BalandYuqori(Yuqorilar)
         /\ Pastlar' \subseteq Pastlar =>
              /\ PastPast(Pastlar)' => PastPast(Pastlar)
              /\ BalandPast(Pastlar)' => BalandPast(Pastlar)
<1>1. \A k \in 1..Son : shamlar'[k] = shamlar[k]  BY YopildiL
<1>2. ASSUME Yuqorilar' \subseteq Yuqorilar, Cardinality(Yuqorilar') >= 2
      PROVE  /\ PastYuqori(Yuqorilar)' => PastYuqori(Yuqorilar)
             /\ BalandYuqori(Yuqorilar)' => BalandYuqori(Yuqorilar)
  <2>1. \A x \in Yuqorilar, y \in Yuqorilar' : y <= x => x \in Yuqorilar'
    <3>. SUFFICES ASSUME NEW x \in Yuqorilar, NEW y \in Yuqorilar', y <= x PROVE x \in Yuqorilar'
      OBVIOUS
    <3>1. x \in Int /\ y \in Int /\ y >= bosh' + QANOT /\ bosh' + QANOT \in Int
      BY SwingJoyiL, YopilganSwingL
    <3>2. ~(x < bosh' + QANOT)  BY <3>1
    <3>. QED  BY <3>2, YopilganSwingL
  <2>2. /\ Max(Yuqorilar') = Max(Yuqorilar) /\ Oldingi(Yuqorilar') = Oldingi(Yuqorilar)
        /\ Cardinality(Yuqorilar) >= 2
        /\ Max(Yuqorilar') \in Yuqorilar' /\ Oldingi(Yuqorilar') \in Yuqorilar'
    BY <1>2, <2>1, SwingJoyiL, IkkiOxirgiL
  <2>3. Max(Yuqorilar) \in 1..Son /\ Oldingi(Yuqorilar) \in 1..Son  BY <1>2, <2>2, SwingJoyiL
  <2>. QED  BY <1>1, <2>2, <2>3 DEF PastYuqori, BalandYuqori
<1>3. ASSUME Pastlar' \subseteq Pastlar, Cardinality(Pastlar') >= 2
      PROVE  /\ PastPast(Pastlar)' => PastPast(Pastlar)
             /\ BalandPast(Pastlar)' => BalandPast(Pastlar)
  <2>1. \A x \in Pastlar, y \in Pastlar' : y <= x => x \in Pastlar'
    <3>. SUFFICES ASSUME NEW x \in Pastlar, NEW y \in Pastlar', y <= x PROVE x \in Pastlar'
      OBVIOUS
    <3>1. x \in Int /\ y \in Int /\ y >= bosh' + QANOT /\ bosh' + QANOT \in Int
      BY SwingJoyiL, YopilganSwingL
    <3>2. ~(x < bosh' + QANOT)  BY <3>1
    <3>. QED  BY <3>2, YopilganSwingL
  <2>2. /\ Max(Pastlar') = Max(Pastlar) /\ Oldingi(Pastlar') = Oldingi(Pastlar)
        /\ Cardinality(Pastlar) >= 2
        /\ Max(Pastlar') \in Pastlar' /\ Oldingi(Pastlar') \in Pastlar'
    BY <1>3, <2>1, SwingJoyiL, IkkiOxirgiL
  <2>3. Max(Pastlar) \in 1..Son /\ Oldingi(Pastlar) \in 1..Son  BY <1>3, <2>2, SwingJoyiL
  <2>. QED  BY <1>1, <2>2, <2>3 DEF PastPast, BalandPast
<1>. QED  BY <1>2, <1>3 DEF PastYuqori, BalandYuqori, PastPast, BalandPast

(* The last two of a kind do not rise and fall at once. *)
LEMMA IkkiXilEmasL ==
  ASSUME GInv
  PROVE  /\ ~(PastYuqori(Yuqorilar) /\ BalandYuqori(Yuqorilar))
         /\ ~(PastPast(Pastlar) /\ BalandPast(Pastlar))
<1>1. ASSUME NEW S, S \in {Yuqorilar, Pastlar}, Cardinality(S) >= 2
      PROVE  Max(S) \in 1..Son /\ Oldingi(S) \in 1..Son
  <2>1. IsFiniteSet(S) /\ S \subseteq Int /\ S \subseteq 1..Son  BY <1>1, SwingJoyiL
  <2>. QED  BY <1>1, <2>1, IkkiOxirgiL
<1>2. Cardinality(Yuqorilar) >= 2 =>
        shamlar[Max(Yuqorilar)].high \in Int /\ shamlar[Oldingi(Yuqorilar)].high \in Int
  BY <1>1, NarxlarL
<1>3. Cardinality(Pastlar) >= 2 =>
        shamlar[Max(Pastlar)].low \in Int /\ shamlar[Oldingi(Pastlar)].low \in Int
  BY <1>1, NarxlarL
<1>. QED  BY <1>2, <1>3 DEF PastYuqori, BalandYuqori, PastPast, BalandPast

LEMMA YonalishL ==
  ASSUME GInv, [GNext]_gvars
  PROVE  ~ /\ Son' > Son
           /\ yonalish_aniqla \in {"uptrend", "downtrend"}
           /\ yonalish_aniqla' \in {"uptrend", "downtrend"}
           /\ yonalish_aniqla # yonalish_aniqla'
<1>. SUFFICES ASSUME Son' > Son,
                     yonalish_aniqla \in {"uptrend", "downtrend"},
                     yonalish_aniqla' \in {"uptrend", "downtrend"},
                     yonalish_aniqla # yonalish_aniqla'
              PROVE  FALSE
  OBVIOUS
<1>1. ShamYopildi
  <2>1. Son \in Nat  BY NarxlarL
  <2>2. ~(Son > Son)  BY <2>1
  <2>3. ~ UNCHANGED gvars  BY <2>2 DEF gvars, Son
  <2>4. NarxYurdi => Son' = Son  BY YurdiL
  <2>. QED  BY <2>2, <2>3, <2>4 DEF GNext
<1>2. /\ yonalish_aniqla = "uptrend" => BalandYuqori(Yuqorilar) /\ BalandPast(Pastlar)
      /\ yonalish_aniqla = "downtrend" => PastYuqori(Yuqorilar) /\ PastPast(Pastlar)
  BY DEF yonalish_aniqla, ketma_ketlik_kotarilish
<1>3. /\ yonalish_aniqla' = "uptrend" => BalandYuqori(Yuqorilar)' /\ BalandPast(Pastlar)'
      /\ yonalish_aniqla' = "downtrend" => PastYuqori(Yuqorilar)' /\ PastPast(Pastlar)'
  BY DEF yonalish_aniqla, ketma_ketlik_kotarilish
<1>4. Yuqorilar' \subseteq Yuqorilar \/ Pastlar' \subseteq Pastlar  BY <1>1, YopilganSwingL
<1>5. \/ yonalish_aniqla = "uptrend" /\ yonalish_aniqla' = "downtrend"
      \/ yonalish_aniqla = "downtrend" /\ yonalish_aniqla' = "uptrend"
  OBVIOUS
<1>6. /\ ~(PastYuqori(Yuqorilar) /\ BalandYuqori(Yuqorilar))
      /\ ~(PastPast(Pastlar) /\ BalandPast(Pastlar))
  BY IkkiXilEmasL
<1>7. /\ Yuqorilar' \subseteq Yuqorilar =>
              /\ PastYuqori(Yuqorilar)' => PastYuqori(Yuqorilar)
              /\ BalandYuqori(Yuqorilar)' => BalandYuqori(Yuqorilar)
      /\ Pastlar' \subseteq Pastlar =>
              /\ PastPast(Pastlar)' => PastPast(Pastlar)
              /\ BalandPast(Pastlar)' => BalandPast(Pastlar)
  BY <1>1, IkkitaQoladiL
<1>. QED  BY <1>2, <1>3, <1>4, <1>5, <1>6, <1>7

(* The parts of a sweep: the candle that takes the low, the close above it. *)
Qaytdi(p, i, n) == \E k \in i..Min({i + 3, n}) : shamlar[k].close > shamlar[p].low
Olindi(p, i) == 1000 * shamlar[i].low <= 999 * shamlar[p].low
SweepDa(p, n) == \E i \in (p + 1)..n : Olindi(p, i) /\ Qaytdi(p, i, n)

LEMMA SweepQismL ==
  /\ SweepYopiqShamda => \E p \in Pastlar : p = Max(Pastlar) /\ SweepDa(p, Son - 1)
  /\ \A p \in Pastlar' : p = Max(Pastlar') /\ SweepDa(p, Son)' => sweep_bormi'
<1>1. SweepYopiqShamda = \E p \in {q \in Pastlar : q = Max(Pastlar)} : SweepDa(p, Son - 1)
  BY Zenon DEF SweepYopiqShamda, SweepDa, Qaytdi, Olindi
<1>2. sweep_bormi' = \E p \in {q \in Pastlar' : q = Max(Pastlar')} : SweepDa(p, Son)'
  BY Zenon DEF sweep_bormi, SweepDa, Qaytdi, Olindi
<1>. QED  BY <1>1, <1>2, Zenon

(* A sweep of closed candles is there as long as the low it took is the last. *)
LEMMA SweepL ==
  ASSUME GInv, GInv', [GNext]_gvars, SweepYopiqShamda, Oxirgisi(Pastlar') = Oxirgisi(Pastlar)
  PROVE  sweep_bormi'
<1>1. PICK p \in Pastlar : p = Max(Pastlar) /\ SweepDa(p, Son - 1)
  BY SweepQismL, Zenon
<1>2. p \in 1..Son /\ p \in Nat /\ p # 0 /\ Son \in Nat  BY SwingJoyiL, NarxlarL
<1>3. Oxirgisi(Pastlar') = p /\ Pastlar' # {}  BY <1>1, <1>2 DEF Oxirgisi
<1>4. Son' \in Nat /\ Pastlar' \subseteq Int /\ IsFiniteSet(Pastlar')
  <2>1. Pastlar' \subseteq (bosh' + QANOT)..(Son' - QANOT)  BY DEF Pastlar, Ortadagilar
  <2>2. Son' \in Nat /\ bosh' \in Nat /\ QANOT \in Nat
    <3>1. CASE ShamYopildi  BY <1>2, <3>1, YopildiL, NarxlarL
    <3>2. CASE NarxYurdi  BY <1>2, <3>2, YurdiL, NarxlarL
    <3>3. CASE UNCHANGED gvars  BY <1>2, <3>3, NarxlarL DEF gvars, Son
    <3>. QED  BY <3>1, <3>2, <3>3 DEF GNext
  <2>3. bosh' + QANOT \in Int /\ Son' - QANOT \in Int  BY <2>2
  <2>4. IsFiniteSet((bosh' + QANOT)..(Son' - QANOT))  BY <2>3, FS_Interval
  <2>5. (bosh' + QANOT)..(Son' - QANOT) \subseteq Int  BY <2>3
  <2>. QED  BY <2>1, <2>2, <2>4, <2>5, FS_Subset
<1>5. p = Max(Pastlar') /\ p \in Pastlar'
  <2>1. Max(Pastlar') \in Pastlar'  BY <1>3, <1>4, MaxMinL
  <2>. QED  BY <1>3, <2>1 DEF Oxirgisi
<1>6. /\ Son' >= Son /\ \A k \in 1..(Son - 1) : shamlar'[k] = shamlar[k]
  <2>1. CASE ShamYopildi  BY <1>2, <2>1, YopildiL
  <2>2. CASE NarxYurdi  BY <1>2, <2>2, YurdiL
  <2>3. CASE UNCHANGED gvars  BY <1>2, <2>3 DEF gvars, Son
  <2>. QED  BY <2>1, <2>2, <2>3 DEF GNext
<1>7. PICK i \in (p + 1)..(Son - 1) :
         Olindi(p, i) /\ Qaytdi(p, i, Son - 1)
  BY <1>1, Zenon DEF SweepDa
<1>8. PICK k \in i..Min({i + 3, Son - 1}) : shamlar[k].close > shamlar[p].low
  BY <1>7, Zenon DEF Qaytdi
<1>9. i \in Nat /\ k \in Nat /\ p < i /\ i <= k /\ k <= i + 3 /\ k <= Son - 1
  <2>1. i \in Int /\ i + 3 \in Int /\ Son - 1 \in Int  BY <1>2, <1>7
  <2>2. /\ Min({i + 3, Son - 1}) \in {i + 3, Son - 1}
        /\ Min({i + 3, Son - 1}) <= i + 3 /\ Min({i + 3, Son - 1}) <= Son - 1
    BY <2>1, IkkidanL
  <2>. DEFINE m == Min({i + 3, Son - 1})
  <2>3. m \in Int /\ m <= i + 3 /\ m <= Son - 1 /\ k \in i..m  BY <2>1, <2>2
  <2>. HIDE DEF m
  <2>. QED  BY <1>2, <1>7, <2>1, <2>3
<1>10. i \in 1..(Son - 1) /\ k \in 1..(Son - 1) /\ p \in 1..(Son - 1)  BY <1>2, <1>9
<1>11. /\ shamlar'[i] = shamlar[i] /\ shamlar'[k] = shamlar[k] /\ shamlar'[p] = shamlar[p]
  BY <1>6, <1>10
<1>12. i \in (p + 1)..Son' /\ k \in i..Min({i + 3, Son'})
  <2>1. i + 3 \in Int /\ Son' \in Int  BY <1>4, <1>9
  <2>2. Min({i + 3, Son'}) \in {i + 3, Son'}  BY <2>1, IkkidanL
  <2>. DEFINE m == Min({i + 3, Son'})
  <2>3. m \in Int /\ (m = i + 3 \/ m = Son')  BY <2>1, <2>2
  <2>. HIDE DEF m
  <2>4. k \in i..m /\ i \in (p + 1)..Son'  BY <1>2, <1>4, <1>6, <1>9, <2>3
  <2>. QED  BY <2>4 DEF m
<1>13. shamlar'[k].close > shamlar'[p].low /\ Olindi(p, i)'
  BY <1>7, <1>8, <1>11 DEF Olindi
<1>14. Qaytdi(p, i, Son)'  BY <1>12, <1>13, Zenon DEF Qaytdi
<1>15. SweepDa(p, Son)'  BY <1>12, <1>13, <1>14, Zenon DEF SweepDa
<1>. QED  BY <1>5, <1>15, SweepQismL

(* What closed candles said is not taken back: swings with closed wings, the *)
(* direction and a sweep (swing_detector.py, uptrend_filter.py,               *)
(* liquidity_sweep.py).                                                       *)
THEOREM QarorTeoremasi == GSpec => QarorBarqaror
<1>1. ASSUME GInv, [GNext]_gvars
      PROVE  [~ /\ Son' > Son
                /\ yonalish_aniqla \in {"uptrend", "downtrend"}
                /\ yonalish_aniqla' \in {"uptrend", "downtrend"}
                /\ yonalish_aniqla # yonalish_aniqla']_gvars
  BY <1>1, YonalishL
<1>2. ASSUME GInv, GInv', [GNext]_gvars
      PROVE  [SweepYopiqShamda /\ Oxirgisi(Pastlar') = Oxirgisi(Pastlar) => sweep_bormi']_gvars
  BY <1>2, SweepL
<1>3. GSpec => YonalishSakramaydi  BY <1>1, GInvL, PTL DEF GSpec, YonalishSakramaydi
<1>4. GSpec => SweepSaqlanadi  BY <1>2, GInvL, PTL DEF GSpec, SweepSaqlanadi
<1>. QED  BY <1>3, <1>4, SwingTeoremasi DEF QarorBarqaror

------------------------------------------------------------------------------
(* Arithmetic of the retracement of an impulse from l up to h, in thousandths. *)
LEMMA FibL ==
  ASSUME NEW h \in Int, NEW l \in Int, 0 < l, l < h
  PROVE  /\ 1000 * h - 618 * (h - l) \in Int /\ 1000 * h - 382 * (h - l) \in Int
         /\ 0 < 1000 * h - 618 * (h - l)
         /\ 1000 * l < 1000 * h - 618 * (h - l)
         /\ 1000 * h - 618 * (h - l) < 1000 * h - 382 * (h - l)
         /\ 1000 * h - 382 * (h - l) < 1000 * h
  OBVIOUS

(* Prices are whole and above nothing. *)
LEMMA MusbatL ==
  ASSUME GInv, NEW i \in 1..Son
  PROVE  /\ shamlar[i].open \in Int /\ shamlar[i].close \in Int
         /\ shamlar[i].high \in Int /\ shamlar[i].low \in Int
         /\ 0 < shamlar[i].low /\ shamlar[i].low <= shamlar[i].high
<1>1. shamlar[i] \in ShamTuri /\ Butun(shamlar[i])  BY DEF GInv, Son
<1>2. /\ shamlar[i].open \in Int /\ shamlar[i].close \in Int
      /\ shamlar[i].high \in Int /\ shamlar[i].low \in Int
  BY <1>1 DEF ShamTuri
<1>. QED  BY <1>1, <1>2 DEF Butun

(* There is one last impulse, and the Fibonacci zone is its retracement. *)
LEMMA ImpulsL ==
  ASSUME GInv, NEW asos \in fib_zona, NEW pq \in oxirgi_impuls
  PROVE  /\ pq[1] \in Pastlar /\ pq[2] \in Yuqorilar
         /\ asos.past \in Int /\ asos.yuqori \in Int /\ 0 < asos.past
         /\ 1000 * shamlar[pq[1]].low < asos.past
         /\ asos.past < asos.yuqori
         /\ asos.yuqori < 1000 * shamlar[pq[2]].high
<1>1. PICK rs \in oxirgi_impuls :
        /\ shamlar[rs[2]].high > shamlar[rs[1]].low
        /\ asos = [past |-> 1000 * shamlar[rs[2]].high
                              - 618 * (shamlar[rs[2]].high - shamlar[rs[1]].low),
                   yuqori |-> 1000 * shamlar[rs[2]].high
                              - 382 * (shamlar[rs[2]].high - shamlar[rs[1]].low)]
  BY DEF fib_zona
<1>2. /\ pq[1] \in Pastlar /\ pq[2] \in Yuqorilar /\ pq[2] = Max(Yuqorilar) /\ pq[1] < pq[2]
      /\ \A r \in Pastlar : r < pq[2] => r <= pq[1]
      /\ rs[1] \in Pastlar /\ rs[2] \in Yuqorilar /\ rs[2] = Max(Yuqorilar) /\ rs[1] < rs[2]
      /\ \A r \in Pastlar : r < rs[2] => r <= rs[1]
  BY <1>1 DEF oxirgi_impuls
<1>3. pq[1] \in 1..Son /\ pq[2] \in 1..Son /\ rs[1] \in 1..Son /\ Son \in Nat  BY <1>2, SwingJoyiL, NarxlarL
<1>4. pq[2] = rs[2] /\ pq[1] = rs[1]  BY <1>2, <1>3
<1>5. PICK h \in Int, l \in Int : h = shamlar[pq[2]].high /\ l = shamlar[pq[1]].low /\ 0 < l
  BY <1>3, MusbatL
<1>6. l < h  BY <1>1, <1>4, <1>5
<1>7. asos.past = 1000 * h - 618 * (h - l) /\ asos.yuqori = 1000 * h - 382 * (h - l)
  BY <1>1, <1>4, <1>5
<1>. QED  BY <1>2, <1>5, <1>6, <1>7, FibL

(* A layer is at most one order block and one gap, with whole edges. *)
LEMMA QatlamL ==
  ASSUME GInv, Pastlar # {}, NEW tarif \in ObTariflari
  PROVE  /\ \E z : ob_topish(tarif) \subseteq {z}
         /\ \E z : fvg_topish \subseteq {z}
         /\ \A z \in ob_topish(tarif) \cup fvg_topish : z.past \in Int /\ z.yuqori \in Int
<1>1. Son \in Nat /\ bosh \in Nat /\ 1 <= bosh  BY NarxlarL
<1>. DEFINE O(i) == IF tarif = "last_opposite"
                    THEN [past |-> 1000 * shamlar[i].close, yuqori |-> 1000 * shamlar[i].open]
                    ELSE [past |-> 1000 * shamlar[i].low, yuqori |-> 1000 * shamlar[i].high]
            mos == {i \in Max({bosh, Max(Pastlar) - 10})..Max(Pastlar) :
                      IF tarif = "last_opposite"
                      THEN shamlar[i].close < shamlar[i].open
                      ELSE /\ i > bosh
                           /\ shamlar[i].low < shamlar[i - 1].low
                           /\ shamlar[i].close > shamlar[i - 1].low}
<1>6. ob_topish(tarif) = {O(i) : i \in {i \in mos : i = Max(mos)}}  BY DEF ob_topish
<1>7. mos \subseteq Max({bosh, Max(Pastlar) - 10})..Max(Pastlar)  OBVIOUS
<1>. HIDE DEF mos
<1>8. \A z \in ob_topish(tarif) : z = O(Max(mos)) /\ Max(mos) \in mos
  <2>. HIDE DEF O
  <2>. QED  BY <1>6
<1>2. \E z : ob_topish(tarif) \subseteq {z}
  <2>. HIDE DEF O
  <2>. QED  BY <1>8
<1>3. \E z : fvg_topish \subseteq {z}
  BY DEF fvg_topish
<1>4. ASSUME NEW z \in ob_topish(tarif) PROVE z.past \in Int /\ z.yuqori \in Int
  <2>1. PICK i \in Max({bosh, Max(Pastlar) - 10})..Max(Pastlar) :
          z = O(i)
    <3>. HIDE DEF O
    <3>. QED  BY <1>4, <1>7, <1>8
  <2>2. Max(Pastlar) \in 1..Son  BY SwingJoyiL, MaxMinL
  <2>. DEFINE p == Max(Pastlar)
              m == Max({bosh, p - 10})
  <2>3. p \in 1..Son /\ i \in m..p  BY <2>1, <2>2
  <2>. HIDE DEF p
  <2>4. bosh \in Int /\ p - 10 \in Int  BY <1>1, <2>3
  <2>5. m \in Int /\ m >= bosh
    <3>1. m \in {bosh, p - 10} /\ m >= bosh  BY <2>4, IkkidanL
    <3>. QED  BY <2>4, <3>1
  <2>. HIDE DEF m
  <2>6. i \in 1..Son  BY <1>1, <2>3, <2>5
  <2>7. /\ 1000 * shamlar[i].close \in Int /\ 1000 * shamlar[i].open \in Int
        /\ 1000 * shamlar[i].low \in Int /\ 1000 * shamlar[i].high \in Int
    BY <2>6, MusbatL
  <2>. QED  BY <2>1, <2>7
<1>5. ASSUME NEW z \in fvg_topish PROVE z.past \in Int /\ z.yuqori \in Int
  <2>1. PICK i \in FvgOchiq :
          z = [past |-> 1000 * shamlar[i - 1].high, yuqori |-> 1000 * shamlar[i + 1].low]
    BY <1>5 DEF fvg_topish
  <2>. DEFINE m == Max({bosh + 1, Son - 49})
  <2>2. i \in m..(Son - 1)  BY <2>1 DEF FvgOchiq
  <2>3. bosh + 1 \in Int /\ Son - 49 \in Int  BY <1>1
  <2>4. m \in Int /\ m >= bosh + 1
    <3>1. m \in {bosh + 1, Son - 49} /\ m >= bosh + 1  BY <2>3, IkkidanL
    <3>. QED  BY <2>3, <3>1
  <2>. HIDE DEF m
  <2>5. i - 1 \in 1..Son /\ i + 1 \in 1..Son  BY <1>1, <2>2, <2>4
  <2>6. 1000 * shamlar[i - 1].high \in Int /\ 1000 * shamlar[i + 1].low \in Int  BY <2>5, MusbatL
  <2>. QED  BY <2>1, <2>6
<1>. QED  BY <1>2, <1>3, <1>4, <1>5

(* What is laid over the base zone narrows it and leaves something of it. *)
LEMMA QatlanganL ==
  ASSUME GInv, Pastlar # {}, NEW tarif \in ObTariflari,
         NEW asos, asos.past \in Int, asos.yuqori \in Int, asos.past < asos.yuqori
  PROVE  /\ _QatlanganZona(asos, tarif).past \in Int /\ _QatlanganZona(asos, tarif).yuqori \in Int
         /\ asos.past <= _QatlanganZona(asos, tarif).past
         /\ _QatlanganZona(asos, tarif).past < _QatlanganZona(asos, tarif).yuqori
         /\ _QatlanganZona(asos, tarif).yuqori <= asos.yuqori
<1>. DEFINE H == {asos} \cup Qatlamlar(asos, tarif)
            A == {z.past : z \in H}
            B == {z.yuqori : z \in H}
<1>1. PICK u, v : Qatlamlar(asos, tarif) \subseteq {u, v}
  <2>1. PICK u : ob_topish(tarif) \subseteq {u}  BY QatlamL
  <2>2. PICK v : fvg_topish \subseteq {v}  BY QatlamL
  <2>. QED  BY <2>1, <2>2 DEF Qatlamlar
<1>2. \A z \in H : z.past \in Int /\ z.yuqori \in Int  BY QatlamL DEF Qatlamlar
<1>3. asos \in H  OBVIOUS
<1>4. H \subseteq {asos, u, v}  BY <1>1
<1>. HIDE DEF H
<1>5. A \subseteq Int /\ B \subseteq Int /\ asos.past \in A /\ asos.yuqori \in B  BY <1>2, <1>3
<1>6. A \subseteq {asos.past, u.past, v.past} /\ B \subseteq {asos.yuqori, u.yuqori, v.yuqori}
  BY <1>4
<1>7. ASSUME NEW x, NEW y, NEW z PROVE IsFiniteSet({x, y, z})
  <2>1. IsFiniteSet({x}) /\ IsFiniteSet({y}) /\ IsFiniteSet({z})  BY FS_Singleton
  <2>2. IsFiniteSet(({x} \cup {y}) \cup {z})  BY <2>1, FS_Union
  <2>3. ({x} \cup {y}) \cup {z} = {x, y, z}  OBVIOUS
  <2>. QED  BY <2>2, <2>3
<1>8. IsFiniteSet(A) /\ IsFiniteSet(B)
  <2>1. IsFiniteSet({asos.past, u.past, v.past}) /\ IsFiniteSet({asos.yuqori, u.yuqori, v.yuqori})
    BY <1>7
  <2>. QED  BY <1>6, <2>1, FS_Subset
<1>. HIDE DEF A, B
<1>9. /\ Max(A) \in Int /\ Max(A) >= asos.past
      /\ Min(B) \in Int /\ Min(B) <= asos.yuqori
  <2>1. A # {} /\ B # {}  BY <1>5
  <2>2. Max(A) \in A /\ \A y \in A : Max(A) >= y  BY <1>5, <1>8, <2>1, MaxMinL
  <2>3. Min(B) \in B /\ \A y \in B : Min(B) <= y  BY <1>5, <1>8, <2>1, MaxMinL
  <2>. QED  BY <1>5, <2>2, <2>3
<1>10. _QatlanganZona(asos, tarif) =
         IF Max(A) >= Min(B) THEN asos ELSE [past |-> Max(A), yuqori |-> Min(B)]
  BY DEF _QatlanganZona, A, B, H
<1>. DEFINE a == Max(A)
            b == Min(B)
<1>11. /\ a \in Int /\ a >= asos.past /\ b \in Int /\ b <= asos.yuqori
       /\ _QatlanganZona(asos, tarif) = IF a >= b THEN asos ELSE [past |-> a, yuqori |-> b]
  BY <1>9, <1>10
<1>. HIDE DEF a, b
<1>12. CASE a >= b
  <2>1. _QatlanganZona(asos, tarif) = asos  BY <1>11, <1>12
  <2>. QED  BY <2>1
<1>13. CASE ~(a >= b)
  <2>1. _QatlanganZona(asos, tarif) = [past |-> a, yuqori |-> b]  BY <1>11, <1>13
  <2>2. _QatlanganZona(asos, tarif).past = a /\ _QatlanganZona(asos, tarif).yuqori = b  BY <2>1
  <2>. QED  BY <1>11, <1>13, <2>2
<1>. QED  BY <1>12, <1>13

LEMMA ZonaAsosdaL == GInv => ZonaAsosda
<1>. SUFFICES ASSUME GInv, NEW tarif \in ObTariflari, NEW asos \in fib_zona, NEW pq \in oxirgi_impuls
     PROVE  LET z == _QatlanganZona(asos, tarif) IN
              /\ z.past < z.yuqori
              /\ asos.past <= z.past /\ z.yuqori <= asos.yuqori
              /\ 1000 * shamlar[pq[1]].low < z.past /\ z.yuqori < 1000 * shamlar[pq[2]].high
  BY DEF ZonaAsosda
<1>. DEFINE z == _QatlanganZona(asos, tarif)
<1>1. /\ pq[1] \in Pastlar /\ pq[2] \in Yuqorilar
      /\ asos.past \in Int /\ asos.yuqori \in Int
      /\ 1000 * shamlar[pq[1]].low < asos.past
      /\ asos.past < asos.yuqori
      /\ asos.yuqori < 1000 * shamlar[pq[2]].high
  BY ImpulsL
<1>2. Pastlar # {}  BY <1>1
<1>3. /\ z.past \in Int /\ z.yuqori \in Int /\ asos.past <= z.past
      /\ z.past < z.yuqori /\ z.yuqori <= asos.yuqori
  BY <1>1, <1>2, QatlanganL
<1>. HIDE DEF z
<1>4. shamlar[pq[1]].low \in Int /\ shamlar[pq[2]].high \in Int
  <2>1. pq[1] \in 1..Son /\ pq[2] \in 1..Son  BY <1>1, SwingJoyiL
  <2>. QED  BY <2>1, MusbatL
<1>5. 1000 * shamlar[pq[1]].low < z.past /\ z.yuqori < 1000 * shamlar[pq[2]].high
  BY <1>1, <1>3, <1>4
<1>. QED  BY <1>3, <1>5 DEF z

(* Small sequences put together, and the distances in one. *)
LEMMA UlashL ==
  ASSUME NEW x \in Int, NEW y \in Int, NEW z \in Int
  PROVE  <<x>> \o <<>> = <<x>> /\ <<x>> \o <<y>> = <<x, y>> /\ <<x>> \o <<y, z>> = <<x, y, z>>
<1>1. <<x>> \o <<>> = <<x>>  OBVIOUS
<1>a. /\ <<x>> \in Seq(Int) /\ <<y>> \in Seq(Int) /\ <<y, z>> \in Seq(Int)
      /\ <<x, y>> \in Seq(Int) /\ <<x, y, z>> \in Seq(Int)
  OBVIOUS
<1>b. /\ Len(<<x>>) = 1 /\ Len(<<y>>) = 1 /\ Len(<<y, z>>) = 2 /\ Len(<<x, y>>) = 2
      /\ Len(<<x, y, z>>) = 3
  OBVIOUS
<1>2. <<x>> \o <<y>> = <<x, y>>
  <2>. DEFINE u == <<x>> \o <<y>>
              v == <<x, y>>
  <2>1. /\ u \in Seq(Int) /\ Len(u) = 2
        /\ \A i \in 1..2 : u[i] = IF i <= 1 THEN <<x>>[i] ELSE <<y>>[i - 1]
    BY <1>a, <1>b, ConcatProperties
  <2>. HIDE DEF u
  <2>2. u[1] = x /\ u[2] = y  BY <2>1
  <2>3. \A i \in 1..2 : u[i] = v[i]
    <3>1. \A i \in 1..2 : i = 1 \/ i = 2  OBVIOUS
    <3>. QED  BY <2>2, <3>1
  <2>. HIDE DEF v
  <2>4. v \in Seq(Int) /\ Len(v) = 2  BY <1>a, <1>b DEF v
  <2>5. u = v  BY <2>1, <2>3, <2>4, SeqEqual
  <2>. QED  BY <2>5 DEF u, v
<1>3. <<x>> \o <<y, z>> = <<x, y, z>>
  <2>. DEFINE w == <<y, z>>
              u == <<x>> \o w
              v == <<x, y, z>>
  <2>0. w \in Seq(Int) /\ Len(w) = 2 /\ w[1] = y /\ w[2] = z  BY <1>a, <1>b
  <2>. HIDE DEF w
  <2>1. /\ u \in Seq(Int) /\ Len(u) = 3
        /\ \A i \in 1..3 : u[i] = IF i <= 1 THEN <<x>>[i] ELSE w[i - 1]
    <3>1. <<x>> \in Seq(Int) /\ Len(<<x>>) = 1  BY <1>a, <1>b
    <3>2. u \in Seq(Int) /\ Len(u) = Len(<<x>>) + Len(w)  BY <3>1, <2>0, ConcatProperties
    <3>3. \A i \in 1..(Len(<<x>>) + Len(w)) : u[i] = IF i <= Len(<<x>>) THEN <<x>>[i] ELSE w[i - Len(<<x>>)]
      BY <3>1, <2>0, ConcatProperties
    <3>. HIDE DEF u
    <3>. QED  BY <3>1, <3>2, <3>3, <2>0
  <2>. HIDE DEF u
  <2>2. u[1] = x /\ u[2] = y /\ u[3] = z  BY <2>0, <2>1
  <2>3. \A i \in 1..3 : u[i] = v[i]
    <3>1. \A i \in 1..3 : i = 1 \/ i = 2 \/ i = 3  OBVIOUS
    <3>. QED  BY <2>2, <3>1
  <2>. HIDE DEF v
  <2>4. v \in Seq(Int) /\ Len(v) = 3  BY <1>a, <1>b DEF v
  <2>5. u = v  BY <2>1, <2>3, <2>4, SeqEqual
  <2>. QED  BY <2>5 DEF u, v, w
<1>. QED  BY <1>1, <1>2, <1>3

Oraliqli(t, e) == \A k \in 2..Len(t) : 100 * (t[k] - t[k - 1]) >= e

LEMMA OraMasofaL ==
  ASSUME NEW a \in Int, NEW b \in Int, NEW c \in Int, NEW e \in Int,
         100 * (b - a) >= e, 100 * (c - b) >= e, NEW t \in {<<a>>, <<a, b>>, <<a, b, c>>}
  PROVE  Oraliqli(t, e)
<1>1. CASE t = <<a>>  BY <1>1 DEF Oraliqli
<1>2. CASE t = <<a, b>>
  <2>1. Len(t) = 2 /\ t[2] = b /\ t[1] = a  BY <1>2
  <2>2. \A k \in 2..Len(t) : k = 2 /\ k - 1 = 1  BY <2>1
  <2>. QED  BY <2>1, <2>2 DEF Oraliqli
<1>3. CASE t = <<a, b, c>>
  <2>1. Len(t) = 3 /\ t[3] = c /\ t[2] = b /\ t[1] = a  BY <1>3
  <2>2. \A k \in 2..Len(t) : (k = 2 /\ k - 1 = 1) \/ (k = 3 /\ k - 1 = 2)  BY <2>1
  <2>. QED  BY <2>1, <2>2 DEF Oraliqli
<1>. QED  BY <1>1, <1>2, <1>3

(* The image of a finite set is finite. *)
LEMMA TasvirL ==
  ASSUME NEW S, IsFiniteSet(S), NEW T, NEW f \in [S -> T], \A t \in T : \E s \in S : f[s] = t
  PROVE  IsFiniteSet(T)
<1>1. f \in Surjection(S, T)  BY DEF Surjection
<1>. QED  BY <1>1, FS_Surjection

(* Prices at finitely many places are finitely many. *)
LEMMA NarxlarCheklanganL ==
  ASSUME GInv
  PROVE  /\ IsFiniteSet({1000 * shamlar[i].high : i \in Yuqorilar})
         /\ {1000 * shamlar[i].high : i \in Yuqorilar} \subseteq Int
         /\ \A S \in SUBSET (1..Son) : IsFiniteSet(S) =>
              /\ IsFiniteSet({shamlar[i].high : i \in S}) /\ IsFiniteSet({shamlar[i].low : i \in S})
              /\ {shamlar[i].high : i \in S} \subseteq Int /\ {shamlar[i].low : i \in S} \subseteq Int
<1>2. \A i \in 1..Son : shamlar[i].high \in Int /\ shamlar[i].low \in Int  BY MusbatL
<1>3. IsFiniteSet({1000 * shamlar[i].high : i \in Yuqorilar})
  <2>. DEFINE T == {1000 * shamlar[i].high : i \in Yuqorilar}
              f == [i \in Yuqorilar |-> 1000 * shamlar[i].high]
  <2>1. f \in Surjection(Yuqorilar, T)  BY DEF Surjection
  <2>3. IsFiniteSet(Yuqorilar)  BY SwingJoyiL
  <2>. HIDE DEF f, T
  <2>2. IsFiniteSet(T)  BY <2>1, <2>3, FS_Surjection
  <2>. QED  BY <2>2 DEF T
<1>4. {1000 * shamlar[i].high : i \in Yuqorilar} \subseteq Int
  <2>1. \A i \in Yuqorilar : shamlar[i].high \in Int  BY <1>2, SwingJoyiL
  <2>. QED  BY <2>1
<1>5. ASSUME NEW S \in SUBSET (1..Son), IsFiniteSet(S)
      PROVE  /\ IsFiniteSet({shamlar[i].high : i \in S}) /\ IsFiniteSet({shamlar[i].low : i \in S})
             /\ {shamlar[i].high : i \in S} \subseteq Int /\ {shamlar[i].low : i \in S} \subseteq Int
  <2>. DEFINE T == {shamlar[i].high : i \in S}
              f == [i \in S |-> shamlar[i].high]
              U == {shamlar[i].low : i \in S}
              g == [i \in S |-> shamlar[i].low]
  <2>1. f \in Surjection(S, T)  BY DEF Surjection
  <2>5. g \in Surjection(S, U)  BY DEF Surjection
  <2>2. T \subseteq Int /\ U \subseteq Int  BY <1>2
  <2>. HIDE DEF f, T, g, U
  <2>3. IsFiniteSet(T)  BY <1>5, <2>1, FS_Surjection
  <2>4. IsFiniteSet(U)  BY <1>5, <2>5, FS_Surjection
  <2>. QED  BY <2>2, <2>3, <2>4, Zenon DEF T, U
<1>. QED  BY <1>3, <1>4, <1>5, Zenon

(* The targets: one, two or three, each a percent of the entry above the last. *)
LEMMA TpL ==
  ASSUME GInv, NEW e \in Int, _TpNuqtalari(e) # <<>>
  PROVE  \E a \in Int, b \in Int, c \in Int :
            /\ 100 * (b - a) >= e /\ 100 * (c - b) >= e
            /\ _TpNuqtalari(e) \in {<<a>>, <<a, b>>, <<a, b, c>>}
<1>. DEFINE N == {1000 * shamlar[i].high : i \in Yuqorilar}
            Uzoq(t) == {n \in N : 100 * (n - t) >= e}
            Birinchi == {n \in N : n > e}
            Uchinchi(t) == IF Uzoq(t) = {} THEN <<>> ELSE <<Min(Uzoq(t))>>
            Ikkinchi(t) == IF Uzoq(t) = {} THEN <<>>
                           ELSE <<Min(Uzoq(t))>> \o Uchinchi(Min(Uzoq(t)))
<1>1. _TpNuqtalari(e) =
        IF Birinchi = {} THEN <<>> ELSE <<Min(Birinchi)>> \o Ikkinchi(Min(Birinchi))
  BY DEF _TpNuqtalari
<1>2. IsFiniteSet(N) /\ N \subseteq Int  BY NarxlarCheklanganL
<1>. HIDE DEF N
<1>3. \A t \in Int : Uzoq(t) # {} => Min(Uzoq(t)) \in Int /\ 100 * (Min(Uzoq(t)) - t) >= e
  <2>. SUFFICES ASSUME NEW t \in Int, Uzoq(t) # {}
                PROVE  Min(Uzoq(t)) \in Int /\ 100 * (Min(Uzoq(t)) - t) >= e
    OBVIOUS
  <2>1. Uzoq(t) \subseteq N  OBVIOUS
  <2>2. IsFiniteSet(Uzoq(t)) /\ Uzoq(t) \subseteq Int  BY <1>2, <2>1, FS_Subset
  <2>3. \A n \in Uzoq(t) : 100 * (n - t) >= e  OBVIOUS
  <2>4. Min(Uzoq(t)) \in Uzoq(t)
    <3>. HIDE DEF Uzoq
    <3>. QED  BY <2>2, MaxMinL
  <2>. QED  BY <2>2, <2>3, <2>4
<1>4. Birinchi # {} => Min(Birinchi) \in Int
  <2>. SUFFICES ASSUME Birinchi # {} PROVE Min(Birinchi) \in Int  OBVIOUS
  <2>1. Birinchi \subseteq N  OBVIOUS
  <2>2. IsFiniteSet(Birinchi) /\ Birinchi \subseteq Int  BY <1>2, <2>1, FS_Subset
  <2>. HIDE DEF Birinchi
  <2>. QED  BY <2>2, MaxMinL
<1>. HIDE DEF Uzoq
<1>5. Birinchi # {}  BY <1>1
<1>. DEFINE a == Min(Birinchi)
<1>6. a \in Int /\ _TpNuqtalari(e) = <<a>> \o Ikkinchi(a)  BY <1>1, <1>4, <1>5
<1>. HIDE DEF a, Birinchi
<1>7. \A x, y \in Int : <<x>> \o <<>> = <<x>> /\ <<x>> \o <<y>> = <<x, y>>  BY UlashL
<1>8. \A x, y, z \in Int : <<x>> \o <<y, z>> = <<x, y, z>>  BY UlashL
<1>9. CASE Uzoq(a) = {}
  <2>1. _TpNuqtalari(e) = <<a>>
    <3>1. Ikkinchi(a) = <<>>  BY <1>9
    <3>. HIDE DEF Ikkinchi
    <3>. QED  BY <1>6, <1>7, <3>1
  <2>2. \E b \in Int, c \in Int : 100 * (b - a) >= e /\ 100 * (c - b) >= e
    <3>1. CASE e >= 0
      <4>1. 100 * ((a + e) - a) >= e /\ 100 * ((a + e + e) - (a + e)) >= e  BY <1>6, <3>1
      <4>2. a + e \in Int /\ a + e + e \in Int  BY <1>6
      <4>. QED  BY <4>1, <4>2
    <3>2. CASE e < 0
      <4>1. 100 * (a - a) >= e  BY <1>6, <3>2
      <4>. QED  BY <1>6, <4>1
    <3>. QED  BY <3>1, <3>2
  <2>. QED  BY <1>6, <2>1, <2>2
<1>10. CASE Uzoq(a) # {}
  <2>. DEFINE b == Min(Uzoq(a))
  <2>1. b \in Int /\ 100 * (b - a) >= e  BY <1>3, <1>6, <1>10
  <2>2. Ikkinchi(a) = <<b>> \o Uchinchi(b)  BY <1>10
  <2>. HIDE DEF b
  <2>3. CASE Uzoq(b) = {}
    <3>1. Ikkinchi(a) = <<b>>
      <4>1. Uchinchi(b) = <<>>  BY <2>3
      <4>. HIDE DEF Uchinchi, Ikkinchi
      <4>. QED  BY <1>7, <2>1, <2>2, <4>1
    <3>2. _TpNuqtalari(e) = <<a, b>>
      <4>. HIDE DEF Ikkinchi
      <4>. QED  BY <1>6, <1>7, <2>1, <3>1
    <3>3. \E c \in Int : 100 * (c - b) >= e
      <4>1. CASE e >= 0
        <5>1. b + e \in Int /\ 100 * ((b + e) - b) >= e  BY <2>1, <4>1
        <5>. QED  BY <5>1
      <4>2. CASE e < 0
        <5>1. 100 * (b - b) >= e  BY <2>1, <4>2
        <5>. QED  BY <2>1, <5>1
      <4>. QED  BY <4>1, <4>2
    <3>. QED  BY <1>6, <2>1, <3>2, <3>3
  <2>4. CASE Uzoq(b) # {}
    <3>. DEFINE c == Min(Uzoq(b))
    <3>1. c \in Int /\ 100 * (c - b) >= e  BY <1>3, <2>1, <2>4
    <3>2. Uchinchi(b) = <<c>>  BY <2>4
    <3>. HIDE DEF c, Uchinchi
    <3>3. Ikkinchi(a) = <<b, c>>
      <4>. HIDE DEF Ikkinchi
      <4>. QED  BY <1>7, <2>1, <2>2, <3>1, <3>2
    <3>4. _TpNuqtalari(e) = <<a, b, c>>
      <4>. HIDE DEF Ikkinchi
      <4>. QED  BY <1>6, <1>8, <2>1, <3>1, <3>3
    <3>. QED  BY <1>6, <2>1, <3>1, <3>4
  <2>. QED  BY <2>3, <2>4
<1>. QED  BY <1>9, <1>10

(* The zones that are handed on are not empty, but for the double bottom's. *)
LEMMA ZonalarL ==
  ASSUME GInv, NEW tarif \in ObTariflari, NEW zona \in Zonalar(tarif)
  PROVE  /\ zona.past \in Int /\ zona.yuqori \in Int /\ 0 < zona.past
         /\ zona.past <= zona.yuqori \/ (zona \in qosh_tub_topish /\ zona.yuqori < zona.past)
<1>1. PICK asos \in fib_zona :
        \/ zona = _QatlanganZona(asos, tarif)
        \/ zona \in qosh_tub_topish
        \/ zona \in oldingi_swing_zona
  BY DEF Zonalar
<1>2. CASE zona = _QatlanganZona(asos, tarif)
  <2>1. PICK pq \in oxirgi_impuls : TRUE  BY DEF fib_zona
  <2>2. /\ Pastlar # {} /\ asos.past \in Int /\ asos.yuqori \in Int /\ 0 < asos.past
        /\ asos.past < asos.yuqori
    BY ImpulsL
  <2>3. /\ zona.past \in Int /\ zona.yuqori \in Int /\ asos.past <= zona.past
        /\ zona.past < zona.yuqori
    BY <1>2, <2>2, QatlanganL
  <2>. QED  BY <2>2, <2>3
<1>3. CASE zona \in oldingi_swing_zona
  <2>1. PICK p \in Pastlar :
          zona = [past |-> 990 * shamlar[p].low, yuqori |-> 1010 * shamlar[p].low]
    BY <1>3 DEF oldingi_swing_zona
  <2>2. PICK l \in Int : l = shamlar[p].low /\ 0 < l
    <3>1. p \in 1..Son  BY SwingJoyiL
    <3>. QED  BY <3>1, MusbatL
  <2>3. zona.past = 990 * l /\ zona.yuqori = 1010 * l  BY <2>1, <2>2
  <2>. QED  BY <2>2, <2>3
<1>4. CASE zona \in qosh_tub_topish
  <2>. DEFINE a == Oldingi(Pastlar)
              b == Max(Pastlar)
              tub == Min({shamlar[a].low, shamlar[b].low})
              baland == Max({shamlar[a].low, shamlar[b].low})
              boyinlar == {shamlar[i].high : i \in Yuqorilar \cap (a..b)}
  <2>1. Cardinality(Pastlar) >= 2
    <3>1. ~(Cardinality(Pastlar) < 2)  BY <1>4 DEF qosh_tub_topish
    <3>2. Cardinality(Pastlar) \in Nat  BY SwingJoyiL, FS_CardinalityType
    <3>. QED  BY <3>1, <3>2
  <2>2. a \in 1..Son /\ b \in 1..Son
    <3>1. a \in Pastlar /\ b \in Pastlar
      <4>1. \A x \in Pastlar, y \in Pastlar : y <= x => x \in Pastlar  OBVIOUS
      <4>. QED  BY <2>1, <4>1, SwingJoyiL, IkkiOxirgiL
    <3>. QED  BY <3>1, SwingJoyiL
  <2>3. tub \in Int /\ 0 < tub
    <3>1. /\ shamlar[a].low \in Int /\ shamlar[b].low \in Int
          /\ 0 < shamlar[a].low /\ 0 < shamlar[b].low
      BY <2>2, MusbatL
    <3>2. tub \in {shamlar[a].low, shamlar[b].low}  BY <3>1, IkkidanL
    <3>. QED  BY <3>1, <3>2
  <2>4. ~(Cardinality(Pastlar) < 2)  BY <1>4 DEF qosh_tub_topish
  <2>5. qosh_tub_topish =
          {[past |-> 1000 * tub, yuqori |-> 1000 * n] :
                n \in {n \in boyinlar : n = Max(boyinlar) /\ (baland - tub) * 100 <= 3 * tub}}
    BY <2>4 DEF qosh_tub_topish
  <2>. HIDE DEF tub, baland
  <2>6. boyinlar \subseteq Int
    <3>1. \A i \in Yuqorilar : shamlar[i].high \in Int  BY SwingJoyiL, MusbatL
    <3>. QED  BY <3>1
  <2>. HIDE DEF boyinlar
  <2>7. PICK n \in boyinlar : zona = [past |-> 1000 * tub, yuqori |-> 1000 * n]  BY <1>4, <2>5
  <2>8. n \in Int /\ zona.past = 1000 * tub /\ zona.yuqori = 1000 * n  BY <2>6, <2>7
  <2>9. zona.past \in Int /\ zona.yuqori \in Int /\ 0 < zona.past  BY <2>3, <2>8
  <2>10. zona.past <= zona.yuqori \/ zona.yuqori < zona.past  BY <2>9
  <2>. QED  BY <1>4, <2>9, <2>10
<1>. QED  BY <1>1, <1>2, <1>3, <1>4

(* The nearest swing low under the entry is one price. *)
LEMMA LikvidlikL ==
  ASSUME GInv, NEW e \in Int, NEW n \in _LikvidlikPasti(e)
  PROVE  /\ n \in Int /\ 0 < n /\ 1000 * n < e
         /\ \A m \in _LikvidlikPasti(e) : m = n
         /\ Max(_LikvidlikPasti(e)) = n
<1>. DEFINE L == {shamlar[p].low : p \in Pastlar}
<1>1. \A m \in L : m \in Int /\ 0 < m
  <2>1. \A p \in Pastlar : shamlar[p].low \in Int /\ 0 < shamlar[p].low  BY SwingJoyiL, MusbatL
  <2>. QED  BY <2>1
<1>2. _LikvidlikPasti(e) = {k \in L : 1000 * k < e /\ \A m \in L : 1000 * m < e => m <= k}
  BY DEF _LikvidlikPasti
<1>. HIDE DEF L
<1>3. n \in Int /\ 0 < n /\ 1000 * n < e  BY <1>1, <1>2
<1>4. \A m \in _LikvidlikPasti(e) : m = n
  <2>. SUFFICES ASSUME NEW m \in _LikvidlikPasti(e) PROVE m = n  OBVIOUS
  <2>1. m <= n /\ n <= m  BY <1>2
  <2>2. m \in Int  BY <1>1, <1>2
  <2>. QED  BY <1>3, <2>1, <2>2
<1>5. _LikvidlikPasti(e) = {n}  BY <1>4
<1>6. Max({n}) = n
  <2>1. {n} = {n, n}  OBVIOUS
  <2>3. n \in Int  BY <1>3
  <2>2. Max({n, n}) \in {n, n}  BY <2>3, IkkidanL, Zenon
  <2>. QED  BY <2>1, <2>2
<1>. QED  BY <1>3, <1>4, <1>5, <1>6

(* What one signal's levels say. *)
LEMMA DarajaL ==
  ASSUME GInv, NEW tarif \in ObTariflari, NEW zona \in Zonalar(tarif), NEW d \in darajalar_qur(zona)
  PROVE  /\ d.entry \in Int /\ d.stop \in Int /\ 0 < d.stop /\ d.stop < d.entry
         /\ d.entry <= Narx /\ Narx < d.tplar[1]
         /\ d.entry <= zona.yuqori
         /\ \/ zona.past <= d.entry
            \/ zona \in qosh_tub_topish /\ zona.yuqori < zona.past
         /\ \E a \in Int, b \in Int, c \in Int :
              /\ 100 * (b - a) >= d.entry /\ 100 * (c - b) >= d.entry
              /\ d.tplar \in {<<a>>, <<a, b>>, <<a, b, c>>}
         /\ \A n \in _LikvidlikPasti(d.entry) : d.stop < 1000 * n
<1>. DEFINE e == KirishNarxi(zona)
            t == _TpNuqtalari(e)
            s == _StopDarajasi(zona)
<1>1. /\ d = [entry |-> e, stop |-> s, tplar |-> t]
      /\ Narx >= zona.past /\ s < e /\ t # <<>> /\ t[1] > Narx
  BY DEF darajalar_qur
<1>2. d.entry = e /\ d.stop = s /\ d.tplar = t  BY <1>1
<1>3. Narx \in Int
  <2>1. Son \in 1..Son  BY NarxlarL DEF GInv
  <2>. QED  BY <2>1, MusbatL DEF Narx
<1>4. /\ zona.past \in Int /\ zona.yuqori \in Int /\ 0 < zona.past
      /\ zona.past <= zona.yuqori \/ (zona \in qosh_tub_topish /\ zona.yuqori < zona.past)
  BY ZonalarL
<1>5. /\ e \in Int /\ e <= Narx /\ e <= zona.yuqori
      /\ zona.past <= e \/ (zona \in qosh_tub_topish /\ zona.yuqori < zona.past)
  <2>1. CASE Narx <= zona.yuqori  BY <1>1, <1>3, <1>4, <2>1 DEF KirishNarxi
  <2>2. CASE ~(Narx <= zona.yuqori)
    <3>1. e = zona.yuqori  BY <2>2 DEF KirishNarxi
    <3>2. e \in Int /\ e <= Narx /\ e <= zona.yuqori  BY <1>3, <1>4, <2>2, <3>1
    <3>. QED  BY <1>4, <3>1, <3>2
  <2>. QED  BY <2>1, <2>2
<1>6. \E a \in Int, b \in Int, c \in Int :
         100 * (b - a) >= e /\ 100 * (c - b) >= e /\ t \in {<<a>>, <<a, b>>, <<a, b, c>>}
  <2>. HIDE DEF e
  <2>. QED  BY <1>1, <1>5, TpL
<1>7. /\ s \in Int /\ 0 < s /\ \A n \in _LikvidlikPasti(e) : s < 1000 * n
  <2>1. CASE \E n \in _LikvidlikPasti(e) : zona.past >= 1000 * n
    <3>1. s = 997 * Max(_LikvidlikPasti(e))  BY <2>1 DEF _StopDarajasi
    <3>. HIDE DEF e
    <3>2. PICK n \in _LikvidlikPasti(e) : TRUE  BY <2>1
    <3>3. /\ n \in Int /\ 0 < n /\ s = 997 * n /\ \A m \in _LikvidlikPasti(e) : m = n
      BY <1>5, <3>1, <3>2, LikvidlikL
    <3>. HIDE DEF s
    <3>4. s \in Int /\ 0 < s /\ s < 1000 * n  BY <3>3
    <3>. QED  BY <3>3, <3>4
  <2>2. CASE ~ \E n \in _LikvidlikPasti(e) : zona.past >= 1000 * n
    <3>1. s = zona.past  BY <2>2 DEF _StopDarajasi
    <3>. HIDE DEF e
    <3>2. \A n \in _LikvidlikPasti(e) : n \in Int  BY <1>5, LikvidlikL
    <3>. HIDE DEF s
    <3>. QED  BY <1>4, <2>2, <3>1, <3>2
  <2>. QED  BY <2>1, <2>2
<1>. HIDE DEF e, s, t
<1>. QED  BY <1>1, <1>2, <1>5, <1>6, <1>7

(* Levels of a signal can be traded as they stand (zone_block.py,               *)
(* entry_stop_tp.py, scaling_out.py), for every chart and every setting.        *)
THEOREM DarajalarTeoremasi == GSpec => []DarajalarTogri
<1>1. ASSUME GInv PROVE DarajalarTogri
  <2>1. ZonaAsosda  BY <1>1, ZonaAsosdaL
  <2>2. DarajalarTartibi
    <3>. SUFFICES ASSUME NEW tarif \in ObTariflari, NEW zona \in Zonalar(tarif),
                         NEW d \in darajalar_qur(zona)
         PROVE  /\ 0 < d.stop /\ d.stop < d.entry /\ d.entry <= Narx /\ Narx < d.tplar[1]
                /\ d.entry <= zona.yuqori
                /\ \/ zona.past <= d.entry
                   \/ zona \in qosh_tub_topish /\ zona.yuqori < zona.past
                /\ \A k \in 2..Len(d.tplar) : 100 * (d.tplar[k] - d.tplar[k - 1]) >= d.entry
      BY DEF DarajalarTartibi
    <3>1. /\ 0 < d.stop /\ d.stop < d.entry /\ d.entry <= Narx /\ Narx < d.tplar[1]
          /\ d.entry <= zona.yuqori
          /\ \/ zona.past <= d.entry
             \/ zona \in qosh_tub_topish /\ zona.yuqori < zona.past
      BY <1>1, DarajaL
    <3>2. PICK a \in Int, b \in Int, c \in Int :
            /\ 100 * (b - a) >= d.entry /\ 100 * (c - b) >= d.entry
            /\ d.tplar \in {<<a>>, <<a, b>>, <<a, b, c>>}
      BY <1>1, DarajaL
    <3>3. \A k \in 2..Len(d.tplar) : 100 * (d.tplar[k] - d.tplar[k - 1]) >= d.entry
      <4>1. d.entry \in Int  BY <1>1, DarajaL
      <4>2. PICK e \in Int : e = d.entry  BY <4>1
      <4>5. PICK t \in {<<a>>, <<a, b>>, <<a, b, c>>} : t = d.tplar  BY <3>2
      <4>3. /\ t \in {<<a>>, <<a, b>>, <<a, b, c>>}
            /\ 100 * (b - a) >= e /\ 100 * (c - b) >= e
        BY <3>2, <4>2, <4>5
      <4>4. Oraliqli(t, e)  BY <4>3, OraMasofaL
      <4>. QED  BY <4>2, <4>4, <4>5 DEF Oraliqli
    <3>. QED  BY <3>1, <3>3
  <2>3. StopLikvidlikOstida  BY <1>1, DarajaL DEF StopLikvidlikOstida
  <2>4. SotuvButun
    <3>. SUFFICES ASSUME NEW tarif \in ObTariflari, NEW zona \in Zonalar(tarif),
                         NEW d \in darajalar_qur(zona)
         PROVE  LET n == Len(d.tplar) IN
                  /\ n \in 1..3
                  /\ ulush(1, n) + (IF n >= 2 THEN ulush(2, n) ELSE 0)
                       + (IF n >= 3 THEN ulush(3, n) ELSE 0) = 100
      BY DEF SotuvButun
    <3>1. \E a \in Int, b \in Int, c \in Int : d.tplar \in {<<a>>, <<a, b>>, <<a, b, c>>}
      BY <1>1, DarajaL
    <3>2. Len(d.tplar) \in {1, 2, 3}  BY <3>1
    <3>3. \A n \in {1, 2, 3} :
            ulush(1, n) + (IF n >= 2 THEN ulush(2, n) ELSE 0)
              + (IF n >= 3 THEN ulush(3, n) ELSE 0) = 100
      <4>1. ulush(1, 1) = 100  BY DEF ulush
      <4>2. ulush(1, 2) = 50 /\ ulush(2, 2) = 50  BY DEF ulush, ULUSHLAR
      <4>3. ulush(1, 3) = 50 /\ ulush(2, 3) = 30 /\ ulush(3, 3) = 20  BY DEF ulush, ULUSHLAR
      <4>. QED  BY <4>1, <4>2, <4>3
    <3>. DEFINE m == Len(d.tplar)
    <3>4. m \in {1, 2, 3}  BY <3>2
    <3>. HIDE DEF m
    <3>5. m \in 1..3 /\ ulush(1, m) + (IF m >= 2 THEN ulush(2, m) ELSE 0)
                          + (IF m >= 3 THEN ulush(3, m) ELSE 0) = 100
      BY <3>3, <3>4
    <3>. QED  BY <3>5 DEF m
  <2>. QED  BY <2>1, <2>2, <2>3, <2>4 DEF DarajalarTogri
<1>. QED  BY <1>1, GInvL, PTL

ByudjetTuri == [balance : Nat, limit : Nat, allocated : Nat, allocations : Seq(Nat),
                committed : Nat]

(* Beside what the runs check: the counters, and that no more is allocated than *)
(* there is, without which a grant may be cut and the ledgers part.             *)
RInv ==
    /\ RTypeOK
    /\ kun \in Nat /\ savdolar \in Nat
    /\ byudjet.allocated <= byudjet.limit
    /\ HisobTeng
    /\ UlushChegarasi

------------------------------------------------------------------------------
(* Arithmetic of shares. *)
LEMMA TaqsimotL ==
  ASSUME NEW c \in Nat, NEW q \in Nat
  PROVE  (c + 1) * q = c * q + q /\ c * q \in Nat
  OBVIOUS

LEMMA KopaytmaL ==
  ASSUME NEW k \in Nat \ {0}, NEW q \in Nat
  PROVE  q <= k * q
<1>1. PICK c \in Nat : k = c + 1
  <2>1. k - 1 \in Nat /\ k = (k - 1) + 1  OBVIOUS
  <2>. QED  BY <2>1
<1>2. (c + 1) * q = c * q + q /\ c * q \in Nat  BY TaqsimotL
<1>. QED  BY <1>1, <1>2

LEMMA BolinmaL ==
  ASSUME NEW n \in Nat, NEW k \in Nat \ {0}
  PROVE  /\ n \div k \in Nat
         /\ n \div k <= n
         /\ k * (n \div k) <= n
         /\ (n \div k) * k <= n
<1>1. n \div k \in Nat /\ n = k * (n \div k) + (n % k) /\ n % k \in Nat  OBVIOUS
<1>2. DEFINE q == n \div k
<1>3. q \in Nat  BY <1>1
<1>4. k * q <= n  BY <1>1, k * q \in Nat
<1>5. q * k = k * q  BY <1>3
<1>6. q <= k * q  BY <1>3, KopaytmaL
<1>. QED  BY <1>1, <1>3, <1>4, <1>5, <1>6

LEMMA FoizL ==
  ASSUME NEW n \in Nat, NEW u \in 0..100
  PROVE  (n * u) \div 100 \in Nat /\ (n * u) \div 100 <= n /\ 100 * ((n * u) \div 100) <= n * u
<1>1. n * u \in Nat  OBVIOUS
<1>2. n * u <= n * 100
  <2>1. 100 - u \in Nat  OBVIOUS
  <2>2. n * 100 = n * u + n * (100 - u)  OBVIOUS
  <2>3. n * (100 - u) \in Nat  BY <2>1
  <2>. QED  BY <2>2, <2>3, <1>1
<1>3. DEFINE q == (n * u) \div 100
<1>4. q \in Nat /\ 100 * q <= n * u  BY <1>1, BolinmaL
<1>5. q <= n  BY <1>1, <1>2, <1>4
<1>. QED  BY <1>4, <1>5

------------------------------------------------------------------------------
(* budget.py *)
LEMMA FarazL ==
  /\ ULUSH_PCT \in 0..100 /\ JOYLAR \in Nat /\ ENG_KAM \in Nat
  /\ MAX_HAJM_PCT \in 0..100 /\ STRATEGIYA_PCT \in 1..100
  /\ Stoplar \subseteq 1..100 /\ Foydalar \subseteq Nat /\ Miqdorlar \subseteq Nat \ {0}
  /\ Usullar \subseteq {"sequential_decay", "equal_split"} /\ Balanslar \subseteq Nat
  BY RiskFarazi

LEMMA PogonaL ==
  ASSUME NEW b \in Nat
  PROVE  resolve_daily_risk_pct(b) \in 0..100
<1>. DEFINE n == Len(Pogonalar)
            mos == {i \in DOMAIN Pogonalar : Pogonalar[i].max = 0 \/ b <= Pogonalar[i].max}
<1>1. /\ n \in Nat /\ n > 0
      /\ DOMAIN Pogonalar = 1..n
      /\ \A i \in 1..n : Pogonalar[i].pct \in 0..100
  <2>. DEFINE Turi == [max : Nat, pct : 0..100]
  <2>1. Pogonalar \in Seq(Turi) /\ Len(Pogonalar) > 0  BY RiskFarazi
  <2>2. \A p \in Turi : p.pct \in 0..100  OBVIOUS
  <2>. HIDE DEF Turi
  <2>3. n \in Nat /\ DOMAIN Pogonalar = 1..n /\ \A i \in 1..n : Pogonalar[i] \in Turi  BY <2>1
  <2>. QED  BY <2>1, <2>2, <2>3
<1>2. CASE mos = {}
  <2>2. resolve_daily_risk_pct(b) =
           IF mos = {} THEN Pogonalar[n].pct
           ELSE Pogonalar[CHOOSE i \in mos : \A j \in mos : i <= j].pct
    BY Zenon DEF resolve_daily_risk_pct
  <2>3. Pogonalar[n].pct \in 0..100  BY <1>1
  <2>. HIDE DEF mos
  <2>1. resolve_daily_risk_pct(b) = Pogonalar[n].pct  BY Zenon, <1>2, <2>2
  <2>. QED  BY Zenon, <2>3, <2>1
<1>3. CASE mos # {}
  <2>1. mos \subseteq Nat /\ mos \subseteq 1..n  BY <1>1
  <2>2. \E i \in mos : \A j \in mos : i <= j  BY <2>1, <1>3, EngKichikL
  <2>3. (CHOOSE i \in mos : \A j \in mos : i <= j) \in 1..n  BY <2>1, <2>2
  <2>. QED  BY <1>1, <1>3, <2>3 DEF resolve_daily_risk_pct
<1>. QED  BY <1>2, <1>3

LEMMA YangiByudjetL ==
  ASSUME NEW b \in Nat
  PROVE  /\ budget_for(b) \in ByudjetTuri
         /\ budget_for(b).allocated = 0
<1>1. b * resolve_daily_risk_pct(b) \in Nat  BY PogonaL
<1>2. <<>> \in Seq(Nat)  OBVIOUS
<1>. QED  BY <1>1, <1>2 DEF budget_for, ByudjetTuri

LEMMA QoldiqL ==
  ASSUME NEW d \in ByudjetTuri, d.allocated <= d.limit
  PROVE  /\ remaining_usd(d) = d.limit - d.allocated
         /\ remaining_usd(d) \in Nat
         /\ available_capital(d) \in Nat
  BY DEF ByudjetTuri, remaining_usd, available_capital, Kattasi

(* A share of n is at most n. *)
LEMMA BirUlushL ==
  ASSUME NEW d \in ByudjetTuri, NEW n \in Nat
  PROVE  BirUlush(n, d) \in Nat /\ BirUlush(n, d) <= n
<1>1. CASE usul = "sequential_decay"
  BY <1>1, FarazL, FoizL DEF BirUlush
<1>2. CASE usul # "sequential_decay"
  <2>. DEFINE k == Kattasi(1, JOYLAR - Len(d.allocations))
  <2>1. k \in Nat \ {0}
    <3>1. Len(d.allocations) \in Nat  BY DEF ByudjetTuri
    <3>. QED  BY <3>1, FarazL DEF Kattasi
  <2>2. n \div k \in Nat /\ n \div k <= n  BY <2>1, BolinmaL
  <2>. QED  BY <1>2, <2>2 DEF BirUlush
<1>. QED  BY <1>1, <1>2

LEMMA KeyingiUlushL ==
  ASSUME NEW d \in ByudjetTuri, d.allocated <= d.limit
  PROVE  /\ next_allocation(d) \in Nat
         /\ next_allocation(d) <= d.limit - d.allocated
         /\ next_capital_share(d) \in Nat
<1>1. remaining_usd(d) = d.limit - d.allocated /\ remaining_usd(d) \in Nat /\ available_capital(d) \in Nat
  BY QoldiqL
<1>2. BirUlush(remaining_usd(d), d) \in Nat /\ BirUlush(remaining_usd(d), d) <= remaining_usd(d)
  BY <1>1, BirUlushL
<1>3. BirUlush(available_capital(d), d) \in Nat  BY <1>1, BirUlushL
<1>. QED  BY <1>1, <1>2, <1>3 DEF next_allocation, next_capital_share

(* What is granted within the rest is granted whole. *)
LEMMA AjratishL ==
  ASSUME NEW d \in ByudjetTuri, d.allocated <= d.limit,
         NEW m \in Nat, m <= d.limit - d.allocated
  PROVE  /\ Berildi(d, m) = m
         /\ allocate(d, m) \in ByudjetTuri
         /\ allocate(d, m).allocated = d.allocated + m
         /\ allocate(d, m).limit = d.limit
         /\ allocate(d, m).balance = d.balance
<1>1. Berildi(d, m) = m  BY QoldiqL DEF Berildi, Kichigi
<1>2. CASE m = 0
  BY <1>1, <1>2 DEF allocate, ByudjetTuri
<1>3. CASE m > 0
  <2>1. allocate(d, m) = [d EXCEPT !.allocated = d.allocated + m, !.allocations = Append(d.allocations, m)]
    BY <1>1, <1>3 DEF allocate
  <2>2. d.allocations \in Seq(Nat) /\ d.allocated \in Nat  BY DEF ByudjetTuri
  <2>3. Append(d.allocations, m) \in Seq(Nat) /\ d.allocated + m \in Nat  BY <2>2
  <2>. QED  BY <1>1, <2>1, <2>2, <2>3 DEF ByudjetTuri
<1>. QED  BY <1>2, <1>3

LEMMA BandL ==
  ASSUME NEW d \in ByudjetTuri, NEW n \in Nat
  PROVE  /\ commit_capital(d, n) \in ByudjetTuri
         /\ commit_capital(d, n).allocated = d.allocated
         /\ commit_capital(d, n).limit = d.limit
         /\ release_capital(d, n) \in ByudjetTuri
         /\ release_capital(d, n).allocated = d.allocated
         /\ release_capital(d, n).limit = d.limit
<1>1. available_capital(d) \in Nat  BY DEF ByudjetTuri, available_capital, Kattasi
<1>2. d.committed + Kichigi(n, available_capital(d)) \in Nat  BY <1>1 DEF ByudjetTuri, Kichigi
<1>3. Kattasi(0, d.committed - n) \in Nat  BY DEF ByudjetTuri, Kattasi
<1>. QED  BY <1>2, <1>3 DEF commit_capital, release_capital, ByudjetTuri

LEMMA OlibL ==
  ASSUME NEW s \in Seq(Nat), NEW m, \E k \in DOMAIN s : s[k] = m
  PROVE  Olib(s, m) \in Seq(Nat)
<1>1. DOMAIN s = 1..Len(s) /\ Len(s) \in Nat /\ \A k \in 1..Len(s) : s[k] \in Nat  OBVIOUS
<1>2. Len(s) - 1 \in Nat  BY <1>1
<1>3. \A i : [k \in 1..(Len(s) - 1) |-> IF k < i THEN s[k] ELSE s[k + 1]] \in [1..(Len(s) - 1) -> Nat]
  <2>. TAKE i
  <2>1. \A k \in 1..(Len(s) - 1) : s[k] \in Nat /\ s[k + 1] \in Nat  BY <1>1
  <2>. QED  BY <2>1
<1>4. \A n \in Nat : [1..n -> Nat] \subseteq Seq(Nat)  BY SeqDef
<1>. QED  BY <1>2, <1>3, <1>4 DEF Olib

LEMMA QaytarishL ==
  ASSUME NEW d \in ByudjetTuri, NEW m \in Nat, m <= d.allocated
  PROVE  /\ release(d, m) \in ByudjetTuri
         /\ release(d, m).allocated = d.allocated - m
         /\ release(d, m).limit = d.limit
<1>. DEFINE q == IF \E k \in DOMAIN d.allocations : d.allocations[k] = m
                 THEN Olib(d.allocations, m) ELSE d.allocations
<1>1. d.allocations \in Seq(Nat)  BY DEF ByudjetTuri
<1>2. q \in Seq(Nat)  BY <1>1, OlibL
<1>3. Kattasi(0, d.allocated - m) = d.allocated - m /\ d.allocated - m \in Nat
  BY DEF ByudjetTuri, Kattasi
<1>4. release(d, m) = [d EXCEPT !.allocated = Kattasi(0, d.allocated - m), !.allocations = q]
  BY DEF release
<1>. HIDE DEF q
<1>. QED  BY <1>2, <1>3, <1>4 DEF ByudjetTuri

------------------------------------------------------------------------------
(* sizer.py: the size is never so large that its stop costs more than the share *)
(* it was measured on.                                                          *)
LEMMA HajmL ==
  ASSUME NEW d \in ByudjetTuri, d.allocated <= d.limit, NEW stop \in Stoplar
  PROVE  /\ suggest(d, stop) \in Nat
         /\ suggest(d, stop) * stop \in Nat
         /\ suggest(d, stop) * stop <= next_allocation(d)
<1>. DEFINE n == next_allocation(d)
            h == suggest(d, stop)
<1>1. stop \in Nat \ {0}  BY FarazL
<1>2. n \in Nat /\ next_capital_share(d) \in Nat /\ available_capital(d) \in Nat
  BY KeyingiUlushL, QoldiqL
<1>3. n \div stop \in Nat /\ (n \div stop) * stop <= n  BY <1>1, <1>2, BolinmaL
<1>4. (d.balance * MAX_HAJM_PCT) \div 100 \in Nat
  <2>1. d.balance \in Nat  BY DEF ByudjetTuri
  <2>. QED  BY <2>1, FarazL, FoizL
<1>5. h \in Nat /\ h <= n \div stop
  BY <1>2, <1>3, <1>4 DEF suggest, Kichigi
<1>6. h * stop <= (n \div stop) * stop
  <2>1. n \div stop - h \in Nat /\ n \div stop = h + (n \div stop - h)  BY <1>3, <1>5
  <2>2. \A a, b \in Nat : (a + b) * stop = a * stop + b * stop /\ b * stop \in Nat /\ a * stop \in Nat
    BY <1>1
  <2>3. (n \div stop) * stop = h * stop + (n \div stop - h) * stop  BY <2>1, <2>2, <1>5
  <2>4. (n \div stop - h) * stop \in Nat /\ h * stop \in Nat  BY <2>1, <2>2, <1>5
  <2>. QED  BY <2>3, <2>4
<1>7. h * stop \in Nat /\ (n \div stop) * stop \in Nat  BY <1>1, <1>3, <1>5
<1>8. h * stop <= n
  <2>. DEFINE x == h * stop
              y == (n \div stop) * stop
  <2>1. x \in Nat /\ y \in Nat /\ x <= y /\ y <= n  BY <1>3, <1>6, <1>7
  <2>. HIDE DEF x, y, n
  <2>2. x <= n  BY <2>1, <1>2
  <2>. QED  BY <2>2 DEF x
<1>. QED  BY <1>5, <1>7, <1>8

LEMMA YozilganL ==
  ASSUME NEW d \in ByudjetTuri, d.allocated <= d.limit, NEW stop \in Stoplar
  PROVE  /\ Yozilgan(d, stop) \in ByudjetTuri
         /\ Yozilgan(d, stop).allocated = d.allocated + suggest(d, stop) * stop
         /\ Yozilgan(d, stop).allocated <= d.limit
         /\ Yozilgan(d, stop).limit = d.limit
<1>. DEFINE h == suggest(d, stop)
            x == h * stop
            c == commit_capital(d, h)
<1>1. h \in Nat /\ x \in Nat /\ x <= next_allocation(d)  BY HajmL
<1>2. next_allocation(d) \in Nat /\ next_allocation(d) <= d.limit - d.allocated  BY KeyingiUlushL
<1>3. c \in ByudjetTuri /\ c.allocated = d.allocated /\ c.limit = d.limit  BY <1>1, BandL
<1>4. Kichigi(next_allocation(d), x) = x  BY <1>1, <1>2 DEF Kichigi
<1>5. d.limit \in Nat /\ d.allocated \in Nat  BY DEF ByudjetTuri
<1>6. x <= d.limit - d.allocated  BY <1>1, <1>2, <1>5
<1>7. Yozilgan(d, stop) = allocate(c, x)  BY <1>4 DEF Yozilgan
<1>. HIDE DEF c, x, h
<1>8. /\ allocate(c, x) \in ByudjetTuri
      /\ allocate(c, x).allocated = c.allocated + x
      /\ allocate(c, x).limit = c.limit
  BY <1>1, <1>3, <1>6, AjratishL
<1>. QED  BY <1>1, <1>3, <1>5, <1>6, <1>7, <1>8 DEF x, h

------------------------------------------------------------------------------
(* The invariant is inductive. *)
LEMMA BoshlanishL == RInit => RInv
<1>. SUFFICES ASSUME RInit PROVE RInv  OBVIOUS
<1>1. balans \in Nat  BY FarazL DEF RInit
<1>2. byudjet = budget_for(balans)  BY DEF RInit
<1>3. byudjet \in ByudjetTuri /\ byudjet.allocated = 0  BY <1>1, <1>2, YangiByudjetL
<1>4. byudjet.limit \in Nat  BY <1>3 DEF ByudjetTuri
<1>5. byudjet.limit * STRATEGIYA_PCT \in Nat  BY <1>4, FarazL
<1>6. RTypeOK  BY <1>1, <1>3 DEF RInit, RTypeOK, ByudjetTuri
<1>7. HisobTeng  BY <1>3 DEF RInit, HisobTeng
<1>8. UlushChegarasi  BY <1>5 DEF RInit, UlushChegarasi
<1>. QED  BY <1>3, <1>4, <1>6, <1>7, <1>8 DEF RInv, RInit

(* The budget a trade is measured on. *)
LEMMA ByudjetiL ==
  ASSUME RInv, NEW yangiKun \in BOOLEAN, yangiKun => balans >= 0
  PROVE  /\ Byudjeti(yangiKun) \in ByudjetTuri
         /\ Byudjeti(yangiKun).allocated = IF yangiKun THEN 0 ELSE byudjet.allocated
         /\ Byudjeti(yangiKun).allocated <= Byudjeti(yangiKun).limit
         /\ ~yangiKun => Byudjeti(yangiKun) = byudjet
<1>1. byudjet \in ByudjetTuri /\ balans \in Int  BY DEF RInv, RTypeOK, ByudjetTuri
<1>2. CASE ~yangiKun
  BY <1>1, <1>2 DEF Byudjeti, RInv
<1>3. CASE yangiKun
  <2>1. balans \in Nat  BY <1>1, <1>3
  <2>2. budget_for(balans) \in ByudjetTuri /\ budget_for(balans).allocated = 0
    BY <2>1, YangiByudjetL
  <2>3. Byudjeti(yangiKun) = [budget_for(balans) EXCEPT !.committed = byudjet.committed]
    BY <1>3 DEF Byudjeti
  <2>4. byudjet.committed \in Nat  BY <1>1 DEF ByudjetTuri
  <2>. DEFINE b == budget_for(balans)
  <2>5. /\ b \in ByudjetTuri /\ b.allocated = 0
        /\ Byudjeti(yangiKun) = [b EXCEPT !.committed = byudjet.committed]
    BY <2>2, <2>3
  <2>. HIDE DEF b
  <2>6. /\ Byudjeti(yangiKun) \in ByudjetTuri
        /\ Byudjeti(yangiKun).allocated = 0
    BY <2>4, <2>5 DEF ByudjetTuri
  <2>7. Byudjeti(yangiKun).limit \in Nat  BY <2>6 DEF ByudjetTuri
  <2>8. Byudjeti(yangiKun).allocated <= Byudjeti(yangiKun).limit  BY <2>6, <2>7
  <2>9. Byudjeti(yangiKun).allocated = IF yangiKun THEN 0 ELSE byudjet.allocated  BY <1>3, <2>6
  <2>. QED  BY <1>3, <2>6, <2>8, <2>9
<1>. QED  BY <1>2, <1>3

LEMMA SavdoOchildiL ==
  ASSUME RInv, NEW yangiKun \in BOOLEAN, NEW stop \in Stoplar, SavdoOchildi(yangiKun, stop)
  PROVE  RInv'
<1>. DEFINE d == Byudjeti(yangiKun)
            h == suggest(d, stop)
            x == h * stop
<1>1. /\ byudjet \in ByudjetTuri /\ balans \in Int /\ strategiya \in Nat /\ kunXavfi \in Nat
      /\ kun \in Nat /\ savdolar \in Nat /\ usul \in Usullar
      /\ byudjet.allocated = kunXavfi + strategiya
  BY DEF RInv, RTypeOK, ByudjetTuri, HisobTeng
<1>2. yangiKun => balans >= 0  BY DEF SavdoOchildi
<1>3. /\ d \in ByudjetTuri
      /\ d.allocated = IF yangiKun THEN 0 ELSE byudjet.allocated
      /\ d.allocated <= d.limit
      /\ ~yangiKun => d = byudjet
  BY <1>2, ByudjetiL
<1>4. stop \in Nat \ {0}  BY FarazL
<1>5. h \in Nat /\ x \in Nat  BY <1>3, HajmL
<1>6. /\ Yozilgan(d, stop) \in ByudjetTuri
      /\ Yozilgan(d, stop).allocated = d.allocated + x
      /\ Yozilgan(d, stop).allocated <= d.limit
      /\ Yozilgan(d, stop).limit = d.limit
  BY <1>3, YozilganL
<1>7. /\ byudjet' = IF h > 0 THEN Yozilgan(d, stop) ELSE d
      /\ ochiq' = ochiq \cup {p \in {[id |-> savdolar + 1, hajm |-> h, stop |-> stop]} : h > 0}
      /\ kun' = IF yangiKun THEN kun + 1 ELSE kun
      /\ savdolar' = savdolar + 1
      /\ kunXavfi' = (IF yangiKun THEN 0 ELSE kunXavfi) + Kattasi(0, h) * stop
      /\ strategiya' = IF yangiKun THEN 0 ELSE strategiya
      /\ usul' = usul /\ balans' = balans
  BY DEF SavdoOchildi
<1>8. Kattasi(0, h) * stop = x
  <2>1. Kattasi(0, h) = h  BY <1>5 DEF Kattasi
  <2>. QED  BY <2>1
<1>9. h = 0 => x = 0
  <2>1. 0 * stop = 0  BY <1>4
  <2>. QED  BY <2>1
<1>. HIDE DEF d, x, h
<1>10. /\ byudjet' \in ByudjetTuri
       /\ byudjet'.allocated = d.allocated + x
       /\ byudjet'.limit = d.limit
       /\ byudjet'.allocated <= byudjet'.limit
  <2>1. CASE h > 0  BY <1>6, <1>7, <2>1
  <2>2. CASE ~(h > 0)
    <3>1. h = 0 /\ x = 0  BY <1>5, <1>9, <2>2
    <3>2. byudjet' = d  BY <1>7, <2>2
    <3>3. d.allocated \in Nat  BY <1>3 DEF ByudjetTuri
    <3>. QED  BY <1>3, <3>1, <3>2, <3>3
  <2>. QED  BY <2>1, <2>2
<1>11. kunXavfi' \in Nat /\ strategiya' \in Nat /\ kun' \in Nat /\ savdolar' \in Nat
  BY <1>1, <1>5, <1>7, <1>8
<1>12. RTypeOK'
  <2>1. ochiq' \subseteq [id : 1..savdolar', hajm : Nat \ {0}, stop : Stoplar]
    <3>1. ochiq \subseteq [id : 1..savdolar, hajm : Nat \ {0}, stop : Stoplar]  BY DEF RInv, RTypeOK
    <3>2. 1..savdolar \subseteq 1..savdolar' /\ savdolar + 1 \in 1..savdolar'  BY <1>1, <1>7
    <3>3. ochiq \subseteq [id : 1..savdolar', hajm : Nat \ {0}, stop : Stoplar]  BY <3>1, <3>2
    <3>4. h > 0 => [id |-> savdolar + 1, hajm |-> h, stop |-> stop]
                      \in [id : 1..savdolar', hajm : Nat \ {0}, stop : Stoplar]
      BY <3>2, <1>5
    <3>. QED  BY <1>7, <3>3, <3>4
  <2>. QED  BY <1>1, <1>7, <1>10, <1>11, <2>1 DEF RTypeOK, ByudjetTuri
<1>13. HisobTeng'
  <2>1. byudjet'.allocated = d.allocated + x  BY <1>10
  <2>2. CASE yangiKun  BY <1>3, <1>5, <1>7, <1>8, <2>1, <2>2 DEF HisobTeng
  <2>3. CASE ~yangiKun  BY <1>1, <1>3, <1>5, <1>7, <1>8, <2>1, <2>3 DEF HisobTeng
  <2>. QED  BY <2>2, <2>3
<1>14. UlushChegarasi'
  <2>1. CASE yangiKun
    <3>1. byudjet'.limit \in Nat  BY <1>10 DEF ByudjetTuri
    <3>2. byudjet'.limit * STRATEGIYA_PCT \in Nat  BY <3>1, FarazL
    <3>. QED  BY <1>7, <2>1, <3>2 DEF UlushChegarasi
  <2>2. CASE ~yangiKun
    <3>1. byudjet'.limit = byudjet.limit /\ strategiya' = strategiya  BY <1>3, <1>7, <1>10, <2>2
    <3>. QED  BY <3>1 DEF RInv, UlushChegarasi
  <2>. QED  BY <2>1, <2>2
<1>. QED  BY <1>10, <1>11, <1>12, <1>13, <1>14 DEF RInv

LEMMA SavdoYopildiL ==
  ASSUME RInv, NEW p \in ochiq, NEW natija \in Foydalar \cup {-p.stop}, SavdoYopildi(p, natija)
  PROVE  RInv'
<1>1. /\ byudjet \in ByudjetTuri /\ balans \in Int
      /\ ochiq \subseteq [id : 1..savdolar, hajm : Nat \ {0}, stop : Stoplar]
  BY DEF RInv, RTypeOK, ByudjetTuri
<1>2. p.hajm \in Nat /\ p.stop \in Nat
  <2>1. p \in [id : 1..savdolar, hajm : Nat \ {0}, stop : Stoplar]  BY <1>1
  <2>2. p.hajm \in Nat /\ p.stop \in Stoplar  BY <2>1
  <2>3. Stoplar \subseteq 1..100  BY FarazL
  <2>4. p.stop \in 1..100  BY <2>2, <2>3
  <2>. QED  BY <2>2, <2>4
<1>3. natija \in Int  BY <1>2, FarazL
<1>4. /\ release_capital(byudjet, p.hajm) \in ByudjetTuri
      /\ release_capital(byudjet, p.hajm).allocated = byudjet.allocated
      /\ release_capital(byudjet, p.hajm).limit = byudjet.limit
  BY <1>1, <1>2, BandL
<1>5. p.hajm * natija \in Int  BY <1>2, <1>3
<1>6. (p.hajm * natija) \div 100 \in Int  BY <1>5
<1>7. balans' \in Int  BY <1>1, <1>6 DEF SavdoYopildi
<1>8. /\ byudjet' = release_capital(byudjet, p.hajm)
      /\ ochiq' \subseteq ochiq
      /\ UNCHANGED <<usul, kun, strategiya, savdolar, kunXavfi>>
  BY DEF SavdoYopildi
<1>. QED  BY <1>1, <1>4, <1>7, <1>8 DEF RInv, RTypeOK, ByudjetTuri, HisobTeng, UlushChegarasi

LEMMA OldiL ==
  ASSUME RInv, NEW m \in Miqdorlar, StrategiyaOldi(m)
  PROVE  RInv'
<1>. DEFINE g == Kichigi(m, strategy_remaining(byudjet))
            q == (byudjet.limit * STRATEGIYA_PCT) \div 100
<1>1. /\ byudjet \in ByudjetTuri /\ strategiya \in Nat /\ kunXavfi \in Nat
      /\ byudjet.allocated <= byudjet.limit
      /\ byudjet.allocated = kunXavfi + strategiya
  BY DEF RInv, RTypeOK, ByudjetTuri, HisobTeng
<1>2. byudjet.limit \in Nat /\ byudjet.allocated \in Nat  BY <1>1 DEF ByudjetTuri
<1>3. q \in Nat /\ 100 * q <= byudjet.limit * STRATEGIYA_PCT /\ byudjet.limit * STRATEGIYA_PCT \in Nat
  BY <1>2, FarazL, FoizL
<1>4. remaining_usd(byudjet) = byudjet.limit - byudjet.allocated  BY <1>1, QoldiqL
<1>5. m \in Nat  BY FarazL
<1>6. g > 0 => g \in Nat /\ g <= byudjet.limit - byudjet.allocated /\ g <= q - strategiya
  <2>1. strategy_remaining(byudjet) = Kichigi(Kattasi(0, q - strategiya), byudjet.limit - byudjet.allocated)
    BY <1>4 DEF strategy_remaining
  <2>. HIDE DEF q
  <2>. QED  BY <1>1, <1>2, <1>3, <1>5, <2>1 DEF Kichigi, Kattasi
<1>7. /\ g > 0
      /\ byudjet' = allocate(byudjet, g)
      /\ strategiya' = strategiya + Berildi(byudjet, g)
      /\ UNCHANGED <<usul, kun, balans, ochiq, savdolar, kunXavfi>>
  BY DEF StrategiyaOldi
<1>. HIDE DEF g, q
<1>8. /\ Berildi(byudjet, g) = g
      /\ byudjet' \in ByudjetTuri
      /\ byudjet'.allocated = byudjet.allocated + g
      /\ byudjet'.limit = byudjet.limit
  BY <1>1, <1>6, <1>7, AjratishL
<1>9. strategiya' = strategiya + g /\ strategiya' \in Nat  BY <1>1, <1>6, <1>7, <1>8
<1>10. 100 * strategiya' <= byudjet.limit * STRATEGIYA_PCT
  <2>1. strategiya' <= q  BY <1>1, <1>3, <1>6, <1>7, <1>9
  <2>. QED  BY <1>3, <1>9, <2>1
<1>11. RTypeOK'  BY <1>7, <1>8, <1>9 DEF RInv, RTypeOK, ByudjetTuri
<1>12. HisobTeng'  BY <1>1, <1>6, <1>7, <1>8, <1>9 DEF HisobTeng
<1>13. UlushChegarasi'  BY <1>8, <1>10 DEF UlushChegarasi
<1>14. byudjet'.allocated <= byudjet'.limit  BY <1>2, <1>6, <1>7, <1>8
<1>. QED  BY <1>7, <1>11, <1>12, <1>13, <1>14 DEF RInv

LEMMA QaytardiL ==
  ASSUME RInv, NEW m \in Miqdorlar, StrategiyaQaytardi(m)
  PROVE  RInv'
<1>1. /\ byudjet \in ByudjetTuri /\ strategiya \in Nat /\ kunXavfi \in Nat
      /\ byudjet.allocated <= byudjet.limit
      /\ byudjet.allocated = kunXavfi + strategiya
      /\ 100 * strategiya <= byudjet.limit * STRATEGIYA_PCT
  BY DEF RInv, RTypeOK, ByudjetTuri, HisobTeng, UlushChegarasi
<1>2. byudjet.limit \in Nat /\ byudjet.allocated \in Nat  BY <1>1 DEF ByudjetTuri
<1>3. byudjet.limit * STRATEGIYA_PCT \in Nat  BY <1>2, FarazL
<1>4. m \in Nat  BY FarazL
<1>5. /\ m <= strategiya
      /\ byudjet' = release(byudjet, m)
      /\ strategiya' = Kattasi(0, strategiya - m)
      /\ UNCHANGED <<usul, kun, balans, ochiq, savdolar, kunXavfi>>
  BY DEF StrategiyaQaytardi
<1>6. m <= byudjet.allocated  BY <1>1, <1>2, <1>4, <1>5
<1>7. /\ byudjet' \in ByudjetTuri
      /\ byudjet'.allocated = byudjet.allocated - m
      /\ byudjet'.limit = byudjet.limit
  BY <1>1, <1>4, <1>5, <1>6, QaytarishL
<1>8. strategiya' = strategiya - m /\ strategiya' \in Nat  BY <1>1, <1>4, <1>5 DEF Kattasi
<1>9. RTypeOK'  BY <1>5, <1>7, <1>8 DEF RInv, RTypeOK, ByudjetTuri
<1>10. HisobTeng'
  <2>1. byudjet'.allocated = kunXavfi + strategiya - m  BY <1>1, <1>2, <1>4, <1>7
  <2>2. kunXavfi' = kunXavfi /\ strategiya' = strategiya - m  BY <1>5, <1>8
  <2>. QED  BY <1>1, <1>4, <2>1, <2>2 DEF HisobTeng
<1>11. UlushChegarasi'
  <2>. DEFINE y == byudjet.limit * STRATEGIYA_PCT
  <2>1. y \in Nat /\ 100 * strategiya <= y  BY <1>1, <1>3
  <2>2. byudjet'.limit * STRATEGIYA_PCT = y  BY <1>7
  <2>. HIDE DEF y
  <2>3. 100 * strategiya' <= y  BY <1>1, <1>4, <1>8, <2>1
  <2>. QED  BY <2>2, <2>3 DEF UlushChegarasi
<1>12. byudjet'.allocated <= byudjet'.limit  BY <1>1, <1>2, <1>4, <1>7
<1>. QED  BY <1>5, <1>9, <1>10, <1>11, <1>12 DEF RInv

LEMMA RQadamL == RInv /\ [RNext]_rvars => RInv'
<1>. SUFFICES ASSUME RInv, [RNext]_rvars PROVE RInv'  OBVIOUS
<1>1. ASSUME NEW yangiKun \in BOOLEAN, NEW stop \in Stoplar, SavdoOchildi(yangiKun, stop) PROVE RInv'
  BY <1>1, SavdoOchildiL
<1>2. ASSUME NEW p \in ochiq, NEW natija \in Foydalar \cup {-p.stop}, SavdoYopildi(p, natija) PROVE RInv'
  BY <1>2, SavdoYopildiL
<1>3. ASSUME NEW m \in Miqdorlar, StrategiyaOldi(m) PROVE RInv'  BY <1>3, OldiL
<1>4. ASSUME NEW m \in Miqdorlar, StrategiyaQaytardi(m) PROVE RInv'  BY <1>4, QaytardiL
<1>5. ASSUME NEW stop \in Stoplar, ObunachiKirdi(stop) PROVE RInv'
  BY <1>5 DEF ObunachiKirdi, RInv, RTypeOK, HisobTeng, UlushChegarasi
<1>6. CASE UNCHANGED rvars
  BY <1>6 DEF rvars, RInv, RTypeOK, HisobTeng, UlushChegarasi
<1>. QED  BY <1>1, <1>2, <1>3, <1>4, <1>5, <1>6 DEF RNext, HisobNext

LEMMA RInvL == RSpec => []RInv
  BY BoshlanishL, RQadamL, PTL DEF RSpec

------------------------------------------------------------------------------
(* Types are kept: no ledger goes below zero, whatever is given back. *)
THEOREM RTurTeoremasi == RSpec => []RTypeOK
<1>1. RInv => RTypeOK  BY DEF RInv
<1>. QED  BY <1>1, RInvL, PTL

(* What is allocated is what the day's trades risk and the strategy holds *)
(* (StrategyBudget, PositionSizer.suggest).                               *)
THEOREM HisobTeoremasi == RSpec => []HisobTeng
<1>1. RInv => HisobTeng  BY DEF RInv
<1>. QED  BY <1>1, RInvL, PTL

(* Everything opened on a budget may be stopped at once without going beyond *)
(* the day's limit (budget.py:15-17).                                        *)
THEOREM LimitTeoremasi == RSpec => []KunlikLimit
<1>1. RInv => KunlikLimit  BY DEF RInv, HisobTeng, KunlikLimit
<1>. QED  BY <1>1, RInvL, PTL

(* A strategy stays within its share (StrategyBudget.remaining_usd). *)
THEOREM UlushTeoremasi == RSpec => []UlushChegarasi
<1>1. RInv => UlushChegarasi  BY DEF RInv
<1>. QED  BY <1>1, RInvL, PTL

(* What is at stake is in the ledger and within the limits (budget.py). *)
THEOREM ByudjetTeoremasi == RSpec => []ByudjetTogri
  BY RTurTeoremasi, LimitTeoremasi, HisobTeoremasi, UlushTeoremasi, PTL DEF ByudjetTogri

------------------------------------------------------------------------------
(* Running sums of the numbers q[1], ..., q[n]. *)
Yig(f, q, n) == f = [k \in 0..n |-> IF k = 0 THEN 0 ELSE f[k - 1] + q[k]]

(* A running sum is a function. *)
LEMMA YigBorL ==
  ASSUME NEW q, NEW n \in Nat
  PROVE  \E f : Yig(f, q, n)
<1>. DEFINE T == {m \in Nat : ~\E f : Yig(f, q, m)}
<1>1. ASSUME T # {} PROVE FALSE
  <2>1. PICK m \in T : \A y \in T : m <= y
    <3>1. T \subseteq Nat  OBVIOUS
    <3>. HIDE DEF T
    <3>. QED  BY <1>1, <3>1, EngKichikL
  <2>2. m \in Nat /\ ~\E f : Yig(f, q, m)  OBVIOUS
  <2>3. CASE m = 0
    <3>. DEFINE f == [k \in 0..0 |-> 0]
    <3>1. f = [k \in 0..0 |-> IF k = 0 THEN 0 ELSE f[k - 1] + q[k]]  OBVIOUS
    <3>. HIDE DEF f
    <3>2. Yig(f, q, 0)  BY <3>1 DEF Yig
    <3>. QED  BY <2>2, <2>3, <3>2
  <2>4. CASE m # 0
    <3>1. m - 1 \in Nat /\ m - 1 < m  BY <2>2, <2>4
    <3>2. m - 1 \notin T  BY <2>1, <3>1
    <3>3. PICK f : Yig(f, q, m - 1)  BY <3>1, <3>2
    <3>. DEFINE g == [k \in 0..m |-> IF k < m THEN f[k] ELSE f[m - 1] + q[m]]
    <3>4. \A k \in 0..(m - 1) : f[k] = IF k = 0 THEN 0 ELSE f[k - 1] + q[k]  BY <3>3 DEF Yig
    <3>5. ASSUME NEW k \in 0..m
          PROVE  g[k] = IF k = 0 THEN 0 ELSE g[k - 1] + q[k]
      <4>1. CASE k = 0
        <5>1. 0 \in 0..(m - 1) /\ 0 < m  BY <3>1
        <5>2. g[0] = f[0]  BY <5>1
        <5>. QED  BY <3>4, <4>1, <5>1, <5>2
      <4>2. CASE k \in 1..(m - 1)
        <5>1. k \in 0..(m - 1) /\ k < m /\ k - 1 \in 0..m /\ k - 1 < m /\ k # 0  BY <2>2, <3>1, <4>2
        <5>2. g[k] = f[k] /\ g[k - 1] = f[k - 1]  BY <5>1
        <5>. QED  BY <3>4, <5>1, <5>2
      <4>3. CASE k = m
        <5>1. ~(k < m) /\ m - 1 \in 0..m /\ m - 1 < m /\ k # 0  BY <2>2, <2>4, <3>1, <4>3
        <5>2. g[k] = f[m - 1] + q[m] /\ g[m - 1] = f[m - 1]  BY <4>3, <5>1
        <5>. QED  BY <4>3, <5>1, <5>2
      <4>. QED  BY <2>2, <4>1, <4>2, <4>3
    <3>6. g = [k \in 0..m |-> g[k]]  OBVIOUS
    <3>. HIDE DEF g
    <3>7. Yig(g, q, m)  BY <3>5, <3>6 DEF Yig
    <3>. QED  BY <2>2, <3>7
  <2>. QED  BY <2>3, <2>4
<1>. QED  BY <1>1

(* q is r but for e more at i; f is g but for e more from i on. *)
Ortiq(q, r, N, i, e) ==
    \A k \in 1..N : q[k] \in Nat /\ r[k] \in Nat /\ q[k] = r[k] + (IF k = i THEN e ELSE 0)
Ortiqlar(f, g, N, i, e) ==
    \A k \in 0..N : f[k] \in Nat /\ g[k] \in Nat /\ f[k] = g[k] + (IF k >= i THEN e ELSE 0)

(* Two sums that differ in one number, or in none (e = 0), differ by it from there on. *)
LEMMA YigTaqqosL ==
  ASSUME NEW m \in Nat, NEW n \in Nat, NEW N \in Nat, N <= m, N <= n,
         NEW q, NEW r, NEW f, NEW g, Yig(f, q, m), Yig(g, r, n),
         NEW i \in Nat \ {0}, NEW e \in Nat,
         Ortiq(q, r, N, i, e)
  PROVE  Ortiqlar(f, g, N, i, e)
<1>. DEFINE Togri(k) == f[k] \in Nat /\ g[k] \in Nat /\ f[k] = g[k] + (IF k >= i THEN e ELSE 0)
            T == {k \in 0..N : ~Togri(k)}
<1>1. /\ \A k \in 0..m : f[k] = IF k = 0 THEN 0 ELSE f[k - 1] + q[k]
      /\ \A k \in 0..n : g[k] = IF k = 0 THEN 0 ELSE g[k - 1] + r[k]
  BY DEF Yig
<1>2. ASSUME T # {} PROVE FALSE
  <2>1. PICK k \in T : \A y \in T : k <= y
    <3>1. T \subseteq Nat  OBVIOUS
    <3>. HIDE DEF T
    <3>. QED  BY <1>2, <3>1, EngKichikL
  <2>2. k \in 0..N /\ ~Togri(k)  OBVIOUS
  <2>3. k \in 0..m /\ k \in 0..n /\ k \in Nat  BY <2>2
  <2>4. CASE k = 0
    <3>1. f[0] = 0 /\ g[0] = 0  BY <1>1, <2>3, <2>4
    <3>2. ~(0 >= i)  OBVIOUS
    <3>. QED  BY <2>2, <2>4, <3>1, <3>2
  <2>5. CASE k # 0
    <3>1. k - 1 \in 0..N /\ k - 1 < k /\ k - 1 \in Nat /\ k \in 1..N  BY <2>2, <2>3, <2>5
    <3>2. k - 1 \notin T  BY <2>1, <2>3, <3>1
    <3>3. Togri(k - 1)  BY <3>1, <3>2
    <3>4. f[k] = f[k - 1] + q[k] /\ g[k] = g[k - 1] + r[k]  BY <1>1, <2>3, <2>5
    <3>5. q[k] \in Nat /\ r[k] \in Nat /\ q[k] = r[k] + (IF k = i THEN e ELSE 0)  BY <3>1 DEF Ortiq
    <3>. DEFINE a == f[k - 1]
                b == g[k - 1]
                x == q[k]
                y == r[k]
    <3>6. a \in Nat /\ b \in Nat /\ a = b + (IF k - 1 >= i THEN e ELSE 0)  BY <3>3
    <3>7. x \in Nat /\ y \in Nat /\ x = y + (IF k = i THEN e ELSE 0)  BY <3>5
    <3>8. f[k] = a + x /\ g[k] = b + y  BY <3>4
    <3>. HIDE DEF a, b, x, y
    <3>9. a + x \in Nat /\ b + y \in Nat /\ a + x = b + y + (IF k >= i THEN e ELSE 0)
      <4>1. CASE k < i  BY <2>3, <3>6, <3>7, <4>1
      <4>2. CASE k = i  BY <2>3, <3>6, <3>7, <4>2
      <4>3. CASE k > i  BY <2>3, <3>6, <3>7, <4>3
      <4>. QED  BY <2>3, <4>1, <4>2, <4>3
    <3>. QED  BY <2>2, <3>8, <3>9
  <2>. QED  BY <2>4, <2>5
<1>3. T = {}  BY <1>2
<1>. QED  BY <1>3 DEF Ortiqlar

------------------------------------------------------------------------------
(* The capital in trades as such a sum. *)
Hajmlari(S, n) == [k \in 1..n |-> Hajmi(S, k)]

(* ... and it is one. *)
LEMMA KapitalYigL ==
  ASSUME NEW S, NEW n \in Nat
  PROVE  \E f : Yig(f, Hajmlari(S, n), n) /\ Kapital(S, n) = f[n]
<1>. DEFINE Q(f) == f = [k \in 0..n |-> IF k = 0 THEN 0 ELSE f[k - 1] + Hajmi(S, k)]
            c == CHOOSE f : Q(f)
<1>1. PICK f : Yig(f, Hajmlari(S, n), n)  BY YigBorL
<1>2. \A k \in 0..n : k # 0 => Hajmlari(S, n)[k] = Hajmi(S, k)  BY DEF Hajmlari
<1>3. ASSUME NEW u PROVE Yig(u, Hajmlari(S, n), n) <=> Q(u)
  BY <1>2 DEF Yig
<1>4. Kapital(S, n) = c[n]  BY DEF Kapital
<1>5. Q(f)  BY <1>1, <1>3
<1>6. Q(c)
  <2>. HIDE DEF Q
  <2>. QED  BY <1>5
<1>. HIDE DEF c, Q
<1>7. Yig(c, Hajmlari(S, n), n)  BY <1>3, <1>6
<1>. QED  BY <1>4, <1>7

SavdolarTuri(n) == [id : 1..n, hajm : Nat \ {0}, stop : Stoplar]
YagonaId(S) == \A p, r \in S : p.id = r.id => p = r

(* The size of a trade is a number. *)
LEMMA HajmiL ==
  ASSUME NEW n \in Nat, NEW S \in SUBSET SavdolarTuri(n), NEW k
  PROVE  Hajmi(S, k) \in Nat
<1>1. CASE \E p \in S : p.id = k
  <2>1. PICK p \in S : p = CHOOSE s \in S : s.id = k  BY <1>1
  <2>2. p.hajm \in Nat  BY DEF SavdolarTuri
  <2>. QED  BY <1>1, <2>1, <2>2 DEF Hajmi
<1>. QED  BY <1>1 DEF Hajmi

(* What the trades with the next id add. *)
LEMMA KeyingiHajmL ==
  ASSUME NEW n \in Nat, NEW S \in SUBSET SavdolarTuri(n), NEW R,
         \A k \in 1..n : Hajmi(R, k) = Hajmi(S, k), Hajmi(R, n + 1) \in Nat
  PROVE  Kapital(S, n) \in Nat /\ Kapital(R, n + 1) = Kapital(S, n) + Hajmi(R, n + 1)
<1>1. PICK f : Yig(f, Hajmlari(R, n + 1), n + 1) /\ Kapital(R, n + 1) = f[n + 1]  BY KapitalYigL
<1>2. PICK g : Yig(g, Hajmlari(S, n), n) /\ Kapital(S, n) = g[n]  BY KapitalYigL
<1>. DEFINE q == Hajmlari(R, n + 1)
            r == Hajmlari(S, n)
<1>3. /\ \A k \in 1..n : q[k] \in Nat /\ r[k] \in Nat /\ q[k] = r[k] + (IF k = 1 THEN 0 ELSE 0)
      /\ q[n + 1] = Hajmi(R, n + 1)
  <2>1. \A k \in 1..n : k \in 1..(n + 1) /\ Hajmi(S, k) \in Nat /\ Hajmi(R, k) = Hajmi(S, k)
    BY HajmiL
  <2>2. n + 1 \in 1..(n + 1)  OBVIOUS
  <2>. QED  BY <2>1, <2>2 DEF Hajmlari
<1>4. Yig(f, q, n + 1) /\ Yig(g, r, n)  BY <1>1, <1>2
<1>. HIDE DEF q, r
<1>5. Ortiqlar(f, g, n, 1, 0)
  <2>1. PICK m \in Nat : m = n + 1  OBVIOUS
  <2>2. m \in Nat /\ n <= m /\ n <= n /\ 1 \in Nat \ {0} /\ 0 \in Nat  BY <2>1
  <2>3. Ortiq(q, r, n, 1, 0)  BY <1>3 DEF Ortiq
  <2>4. Yig(f, q, m) /\ Yig(g, r, n)  BY <1>4, <2>1
  <2>. QED  BY <2>2, <2>3, <2>4, YigTaqqosL
<1>6. f[n] \in Nat /\ g[n] \in Nat /\ f[n] = g[n]
  <2>1. n \in 0..n  OBVIOUS
  <2>. QED  BY <1>5, <2>1 DEF Ortiqlar
<1>7. f[n + 1] = f[n] + q[n + 1]
  <2>1. \A k \in 0..(n + 1) : f[k] = IF k = 0 THEN 0 ELSE f[k - 1] + q[k]  BY <1>4 DEF Yig
  <2>2. n + 1 \in 0..(n + 1) /\ n + 1 # 0 /\ (n + 1) - 1 = n  OBVIOUS
  <2>3. f[n + 1] = f[(n + 1) - 1] + q[n + 1]  BY <2>1, <2>2
  <2>. QED  BY <2>2, <2>3
<1>. QED  BY <1>1, <1>2, <1>3, <1>6, <1>7

(* A trade opens. *)
LEMMA QoshishL ==
  ASSUME NEW n \in Nat, NEW S \in SUBSET SavdolarTuri(n), NEW p, p.id = n + 1, p.hajm \in Nat
  PROVE  /\ Kapital(S, n) \in Nat
         /\ Kapital(S, n + 1) = Kapital(S, n)
         /\ Kapital(S \cup {p}, n + 1) = Kapital(S, n) + p.hajm
<1>1. \A s \in S : s.id \in 1..n /\ s.id # n + 1  BY DEF SavdolarTuri
<1>2. Hajmi(S, n + 1) = 0  BY <1>1 DEF Hajmi
<1>3. Kapital(S, n) \in Nat /\ Kapital(S, n + 1) = Kapital(S, n) + 0
  BY <1>2, KeyingiHajmL
<1>. DEFINE R == S \cup {p}
<1>4. \A k \in 1..n : Hajmi(R, k) = Hajmi(S, k)
  <2>. SUFFICES ASSUME NEW k \in 1..n PROVE Hajmi(R, k) = Hajmi(S, k)  OBVIOUS
  <2>1. p.id # k  OBVIOUS
  <2>2. {s \in R : s.id = k} = {s \in S : s.id = k}  BY <2>1
  <2>3. \A u : (u \in R /\ u.id = k) <=> (u \in S /\ u.id = k)  BY <2>1
  <2>4. (CHOOSE u : u \in R /\ u.id = k) = (CHOOSE u : u \in S /\ u.id = k)  BY <2>3
  <2>. QED  BY <2>3, <2>4 DEF Hajmi
<1>5. Hajmi(R, n + 1) = p.hajm
  <2>1. \A s \in R : s.id = n + 1 => s = p  BY <1>1
  <2>2. p \in R /\ p.id = n + 1  OBVIOUS
  <2>. HIDE DEF R
  <2>3. (CHOOSE s \in R : s.id = n + 1) = p  BY <2>1, <2>2
  <2>. QED  BY <2>2, <2>3 DEF Hajmi
<1>. HIDE DEF R
<1>6. Kapital(R, n + 1) = Kapital(S, n) + p.hajm  BY <1>4, <1>5, KeyingiHajmL
<1>. QED  BY <1>3, <1>6 DEF R

(* A trade closes. *)
LEMMA AyirishL ==
  ASSUME NEW n \in Nat, NEW S \in SUBSET SavdolarTuri(n), YagonaId(S), NEW p \in S
  PROVE  /\ Kapital(S \ {p}, n) \in Nat
         /\ Kapital(S, n) = Kapital(S \ {p}, n) + p.hajm
<1>. DEFINE R == S \ {p}
            q == Hajmlari(S, n)
            r == Hajmlari(R, n)
            i == p.id
            e == p.hajm
<1>1. i \in 1..n /\ e \in Nat /\ R \in SUBSET SavdolarTuri(n)  BY DEF SavdolarTuri
<1>2. \A k \in 1..n : q[k] \in Nat /\ r[k] \in Nat /\ q[k] = r[k] + (IF k = i THEN e ELSE 0)
  <2>. SUFFICES ASSUME NEW k \in 1..n
                PROVE  q[k] \in Nat /\ r[k] \in Nat /\ q[k] = r[k] + (IF k = i THEN e ELSE 0)
    OBVIOUS
  <2>1. q[k] = Hajmi(S, k) /\ r[k] = Hajmi(R, k)  BY DEF Hajmlari
  <2>2. Hajmi(S, k) \in Nat /\ Hajmi(R, k) \in Nat  BY <1>1, HajmiL
  <2>3. CASE k = i
    <3>1. \A s \in S : s.id = k => s = p  BY <2>3 DEF YagonaId
    <3>2. (CHOOSE s \in S : s.id = k) = p  BY <2>3, <3>1
    <3>3. Hajmi(S, k) = e  BY <2>3, <3>2 DEF Hajmi
    <3>4. Hajmi(R, k) = 0  BY <3>1 DEF Hajmi
    <3>. QED  BY <1>1, <2>1, <2>3, <3>3, <3>4
  <2>4. CASE k # i
    <3>1. \A u : (u \in R /\ u.id = k) <=> (u \in S /\ u.id = k)  BY <2>4
    <3>2. (CHOOSE u : u \in R /\ u.id = k) = (CHOOSE u : u \in S /\ u.id = k)  BY <3>1
    <3>3. Hajmi(R, k) = Hajmi(S, k)  BY <3>1, <3>2 DEF Hajmi
    <3>. QED  BY <2>1, <2>2, <2>4, <3>3
  <2>. QED  BY <2>3, <2>4
<1>3. PICK f : Yig(f, q, n) /\ Kapital(S, n) = f[n]  BY KapitalYigL
<1>4. PICK g : Yig(g, r, n) /\ Kapital(R, n) = g[n]  BY KapitalYigL
<1>. HIDE DEF R, q, r, i, e
<1>5. Ortiqlar(f, g, n, i, e)
  <2>1. n <= n /\ i \in Nat \ {0} /\ e \in Nat  BY <1>1
  <2>2. Ortiq(q, r, n, i, e)  BY <1>2 DEF Ortiq
  <2>3. Yig(f, q, n) /\ Yig(g, r, n)  BY <1>3, <1>4
  <2>. QED  BY <2>1, <2>2, <2>3, YigTaqqosL
<1>6. n >= i /\ n \in 0..n  BY <1>1
<1>7. f[n] \in Nat /\ g[n] \in Nat /\ f[n] = g[n] + e  BY <1>5, <1>6 DEF Ortiqlar
<1>. QED  BY <1>3, <1>4, <1>7 DEF R, e

------------------------------------------------------------------------------
(* The capital that is bound is that of the open trades, no two with one id. *)
KapitalInv == RInv /\ YagonaId(ochiq) /\ KapitalOchiqlardan
Qarzsiz ==
    KapitalOchiqlardan' /\ \A p \in ochiq' \ ochiq : Kapital(ochiq', savdolar') <= byudjet'.balance

(* What the proofs below need of the types. *)
LEMMA KapitalTuriL ==
  ASSUME RInv
  PROVE  /\ savdolar \in Nat /\ ochiq \in SUBSET SavdolarTuri(savdolar) /\ byudjet \in ByudjetTuri
         /\ byudjet.committed \in Nat
  BY DEF RInv, RTypeOK, SavdolarTuri, ByudjetTuri

(* A grant touches neither the capital that is bound nor the balance. *)
LEMMA AjratishKapitaliL ==
  ASSUME NEW d \in ByudjetTuri, NEW m
  PROVE  /\ allocate(d, m).committed = d.committed /\ allocate(d, m).balance = d.balance
         /\ release(d, m).committed = d.committed /\ release(d, m).balance = d.balance
  BY DEF allocate, release, ByudjetTuri

(* A size is bound within what is free. *)
LEMMA HajmKapitaliL ==
  ASSUME NEW d \in ByudjetTuri, d.allocated <= d.limit, NEW stop \in Stoplar
  PROVE  /\ suggest(d, stop) \in Nat
         /\ suggest(d, stop) > 0 => d.committed + suggest(d, stop) <= d.balance
         /\ Yozilgan(d, stop).committed = d.committed + suggest(d, stop)
         /\ Yozilgan(d, stop).balance = d.balance
<1>. DEFINE h == suggest(d, stop)
            a == available_capital(d)
            c == commit_capital(d, h)
<1>1. h \in Nat  BY HajmL
<1>2. d.committed \in Nat /\ d.balance \in Nat  BY DEF ByudjetTuri
<1>3. a \in Nat /\ (a > 0 => a = d.balance - d.committed)  BY <1>2 DEF available_capital, Kattasi
<1>4. h <= a
  <2>1. next_capital_share(d) \in Nat /\ next_allocation(d) \in Nat  BY KeyingiUlushL
  <2>2. next_allocation(d) \div stop \in Nat
    <3>1. stop \in Nat \ {0}  BY FarazL
    <3>. QED  BY <2>1, <3>1, BolinmaL
  <2>3. (d.balance * MAX_HAJM_PCT) \div 100 \in Nat  BY <1>2, FarazL, FoizL
  <2>. DEFINE x == next_allocation(d) \div stop
              y == (d.balance * MAX_HAJM_PCT) \div 100
              z == next_capital_share(d)
  <2>4. h = Kichigi(x, Kichigi(y, Kichigi(a, z)))  BY DEF suggest
  <2>5. x \in Nat /\ y \in Nat /\ z \in Nat  BY <2>1, <2>2, <2>3
  <2>. HIDE DEF x, y, z, a, h
  <2>. QED  BY <1>3, <2>4, <2>5 DEF Kichigi
<1>5. h > 0 => d.committed + h <= d.balance
  <2>. HIDE DEF a, h
  <2>. QED  BY <1>1, <1>2, <1>3, <1>4
<1>6. c.committed = d.committed + h /\ c.balance = d.balance /\ c \in ByudjetTuri
  <2>1. Kichigi(h, a) = h  BY <1>1, <1>3, <1>4 DEF Kichigi
  <2>2. c = [d EXCEPT !.committed = d.committed + Kichigi(h, a)]  BY DEF commit_capital
  <2>3. c \in ByudjetTuri  BY <1>1, BandL
  <2>. HIDE DEF a, h, c
  <2>. QED  BY <2>1, <2>2, <2>3 DEF ByudjetTuri
<1>7. Yozilgan(d, stop) = allocate(c, Kichigi(next_allocation(d), h * stop))  BY DEF Yozilgan
<1>. HIDE DEF c
<1>8. Yozilgan(d, stop).committed = c.committed /\ Yozilgan(d, stop).balance = c.balance
  BY <1>6, <1>7, AjratishKapitaliL
<1>. QED  BY <1>1, <1>5, <1>6, <1>8

(* A trade opens, on this budget or on a new one. *)
LEMMA KapitalOchildiL ==
  ASSUME KapitalInv, NEW yangiKun \in BOOLEAN, NEW stop \in Stoplar, SavdoOchildi(yangiKun, stop)
  PROVE  YagonaId(ochiq') /\ Qarzsiz
<1>. DEFINE d == Byudjeti(yangiKun)
            h == suggest(d, stop)
            p == [id |-> savdolar + 1, hajm |-> h, stop |-> stop]
<1>1. RInv /\ YagonaId(ochiq) /\ byudjet.committed = Kapital(ochiq, savdolar)
  BY DEF KapitalInv, KapitalOchiqlardan
<1>2. /\ savdolar \in Nat /\ ochiq \in SUBSET SavdolarTuri(savdolar) /\ byudjet \in ByudjetTuri
      /\ byudjet.committed \in Nat
  BY <1>1, KapitalTuriL
<1>3. yangiKun => balans >= 0  BY DEF SavdoOchildi
<1>4. d \in ByudjetTuri /\ d.allocated <= d.limit  BY <1>1, <1>3, ByudjetiL
<1>5. d.committed = byudjet.committed
  <2>1. CASE yangiKun
    <3>. DEFINE b == budget_for(balans)
    <3>1. balans \in Nat  BY <1>1, <1>3, <2>1 DEF RInv, RTypeOK
    <3>2. b \in ByudjetTuri /\ d = [b EXCEPT !.committed = byudjet.committed]
      BY <2>1, <3>1, YangiByudjetL DEF Byudjeti
    <3>. HIDE DEF b, d
    <3>. QED  BY <3>2 DEF ByudjetTuri
  <2>2. CASE ~yangiKun  BY <2>2 DEF Byudjeti
  <2>. QED  BY <2>1, <2>2
<1>6. /\ h \in Nat
      /\ (h > 0 => d.committed + h <= d.balance)
      /\ Yozilgan(d, stop).committed = d.committed + h
      /\ Yozilgan(d, stop).balance = d.balance
  BY <1>4, HajmKapitaliL
<1>7. /\ byudjet' = IF h > 0 THEN Yozilgan(d, stop) ELSE d
      /\ ochiq' = ochiq \cup {s \in {p} : h > 0}
      /\ savdolar' = savdolar + 1
  BY DEF SavdoOchildi
<1>8. p.id = savdolar + 1 /\ p.hajm = h  OBVIOUS
<1>. HIDE DEF d, h, p
<1>9. /\ Kapital(ochiq, savdolar + 1) = Kapital(ochiq, savdolar)
      /\ Kapital(ochiq \cup {p}, savdolar + 1) = Kapital(ochiq, savdolar) + h
  <2>1. p.hajm \in Nat  BY <1>6, <1>8
  <2>2. /\ Kapital(ochiq, savdolar + 1) = Kapital(ochiq, savdolar)
        /\ Kapital(ochiq \cup {p}, savdolar + 1) = Kapital(ochiq, savdolar) + p.hajm
    BY <1>2, <1>8, <2>1, QoshishL
  <2>. QED  BY <1>8, <2>2
<1>10. CASE h > 0
  <2>1. ochiq' = ochiq \cup {p} /\ byudjet' = Yozilgan(d, stop)  BY <1>7, <1>10
  <2>2. byudjet'.committed = Kapital(ochiq \cup {p}, savdolar + 1)  BY <1>1, <1>5, <1>6, <1>9, <2>1
  <2>3. byudjet'.committed = Kapital(ochiq', savdolar')  BY <1>7, <2>1, <2>2
  <2>4. byudjet'.committed <= byudjet'.balance  BY <1>6, <1>10, <2>1
  <2>5. YagonaId(ochiq')
    <3>1. \A s \in ochiq : s.id \in 1..savdolar  BY <1>2 DEF SavdolarTuri
    <3>2. savdolar + 1 \notin 1..savdolar  BY <1>2
    <3>. QED  BY <1>1, <1>8, <2>1, <3>1, <3>2 DEF YagonaId
  <2>. QED  BY <2>3, <2>4, <2>5 DEF Qarzsiz, KapitalOchiqlardan
<1>11. CASE ~(h > 0)
  <2>1. ochiq' = ochiq /\ byudjet' = d  BY <1>7, <1>11
  <2>2. byudjet'.committed = Kapital(ochiq', savdolar')  BY <1>1, <1>5, <1>7, <1>9, <2>1
  <2>. QED  BY <1>1, <2>1, <2>2 DEF Qarzsiz, KapitalOchiqlardan
<1>. QED  BY <1>10, <1>11

(* A trade closes: its capital comes free once. *)
LEMMA KapitalYopildiL ==
  ASSUME KapitalInv, NEW p \in ochiq, NEW natija, SavdoYopildi(p, natija)
  PROVE  YagonaId(ochiq') /\ Qarzsiz
<1>1. RInv /\ YagonaId(ochiq) /\ byudjet.committed = Kapital(ochiq, savdolar)
  BY DEF KapitalInv, KapitalOchiqlardan
<1>2. /\ savdolar \in Nat /\ ochiq \in SUBSET SavdolarTuri(savdolar) /\ byudjet \in ByudjetTuri
      /\ byudjet.committed \in Nat
  BY <1>1, KapitalTuriL
<1>3. p.hajm \in Nat  BY <1>2 DEF SavdolarTuri
<1>4. byudjet' = release_capital(byudjet, p.hajm) /\ ochiq' = ochiq \ {p} /\ savdolar' = savdolar
  BY DEF SavdoYopildi
<1>5. /\ Kapital(ochiq \ {p}, savdolar) \in Nat
      /\ Kapital(ochiq, savdolar) = Kapital(ochiq \ {p}, savdolar) + p.hajm
  BY <1>1, <1>2, AyirishL
<1>6. byudjet'.committed = Kattasi(0, byudjet.committed - p.hajm)
  BY <1>2, <1>4 DEF release_capital, ByudjetTuri
<1>7. byudjet'.committed = Kapital(ochiq \ {p}, savdolar)
  <2>. DEFINE k == Kapital(ochiq \ {p}, savdolar)
              e == p.hajm
              c == byudjet.committed
  <2>1. k \in Nat /\ e \in Nat /\ c = k + e  BY <1>1, <1>3, <1>5
  <2>2. byudjet'.committed = Kattasi(0, c - e)  BY <1>6
  <2>. HIDE DEF k, e, c
  <2>. QED  BY <2>1, <2>2 DEF Kattasi, k
<1>8. byudjet'.committed = Kapital(ochiq', savdolar')  BY <1>4, <1>7
<1>9. YagonaId(ochiq')  BY <1>1, <1>4 DEF YagonaId
<1>. QED  BY <1>4, <1>8, <1>9 DEF Qarzsiz, KapitalOchiqlardan

(* The invariant, and the action property with it. *)
LEMMA KapitalQadamL == KapitalInv /\ [RNext]_rvars => KapitalInv' /\ Qarzsiz
<1>. SUFFICES ASSUME KapitalInv, [RNext]_rvars PROVE KapitalInv' /\ Qarzsiz  OBVIOUS
<1>1. RInv'  BY RQadamL DEF KapitalInv
<1>2. RInv /\ YagonaId(ochiq) /\ byudjet.committed = Kapital(ochiq, savdolar) /\ byudjet \in ByudjetTuri
  BY KapitalTuriL DEF KapitalInv, KapitalOchiqlardan
<1>3. ASSUME ochiq' = ochiq, savdolar' = savdolar, byudjet'.committed = byudjet.committed
      PROVE  YagonaId(ochiq') /\ Qarzsiz
  BY <1>2, <1>3 DEF Qarzsiz, KapitalOchiqlardan
<1>4. ASSUME NEW yangiKun \in BOOLEAN, NEW stop \in Stoplar, SavdoOchildi(yangiKun, stop)
      PROVE  YagonaId(ochiq') /\ Qarzsiz
  BY <1>4, KapitalOchildiL
<1>5. ASSUME NEW p \in ochiq, NEW natija \in Foydalar \cup {-p.stop}, SavdoYopildi(p, natija)
      PROVE  YagonaId(ochiq') /\ Qarzsiz
  BY <1>5, KapitalYopildiL
<1>6. ASSUME NEW m \in Miqdorlar, StrategiyaOldi(m) PROVE YagonaId(ochiq') /\ Qarzsiz
  <2>1. /\ byudjet' = allocate(byudjet, Kichigi(m, strategy_remaining(byudjet)))
        /\ ochiq' = ochiq /\ savdolar' = savdolar
    BY <1>6 DEF StrategiyaOldi
  <2>2. byudjet'.committed = byudjet.committed  BY <1>2, <2>1, AjratishKapitaliL
  <2>. QED  BY <1>3, <2>1, <2>2
<1>7. ASSUME NEW m \in Miqdorlar, StrategiyaQaytardi(m) PROVE YagonaId(ochiq') /\ Qarzsiz
  <2>1. byudjet' = release(byudjet, m) /\ ochiq' = ochiq /\ savdolar' = savdolar
    BY <1>7 DEF StrategiyaQaytardi
  <2>2. byudjet'.committed = byudjet.committed  BY <1>2, <2>1, AjratishKapitaliL
  <2>. QED  BY <1>3, <2>1, <2>2
<1>8. ASSUME NEW stop \in Stoplar, ObunachiKirdi(stop) PROVE YagonaId(ochiq') /\ Qarzsiz
  BY <1>3, <1>8 DEF ObunachiKirdi
<1>9. ASSUME UNCHANGED rvars PROVE YagonaId(ochiq') /\ Qarzsiz  BY <1>3, <1>9 DEF rvars
<1>10. YagonaId(ochiq') /\ Qarzsiz
  <2>1. CASE HisobNext  BY <1>4, <1>5, <1>6, <1>7, <2>1 DEF HisobNext
  <2>2. CASE \E stop \in Stoplar : ObunachiKirdi(stop)  BY <1>8, <2>2
  <2>. QED  BY <1>9, <2>1, <2>2 DEF RNext
<1>11. KapitalOchiqlardan'  BY <1>10 DEF Qarzsiz
<1>. QED  BY <1>1, <1>10, <1>11 DEF KapitalInv, YagonaId

(* At first nothing is bound. *)
LEMMA KapitalBoshL == RInit => KapitalInv
<1>. SUFFICES ASSUME RInit PROVE KapitalInv  OBVIOUS
<1>1. RInv  BY BoshlanishL
<1>2. ochiq = {} /\ savdolar = 0 /\ byudjet.committed = 0  BY DEF RInit, budget_for
<1>3. Kapital(ochiq, savdolar) = 0
  <2>1. PICK f : Yig(f, Hajmlari({}, 0), 0) /\ Kapital({}, 0) = f[0]  BY KapitalYigL
  <2>2. f[0] = 0  BY <2>1 DEF Yig
  <2>. QED  BY <1>2, <2>1, <2>2
<1>. QED  BY <1>1, <1>2, <1>3 DEF KapitalInv, YagonaId, KapitalOchiqlardan

(* No trade is opened on borrowed money, over any number of days, trades and balances: *)
(* the capital bound is that of the open trades, and one that opens fits with them     *)
(* into the balance of its budget (scripts/zanjir_hisob.py:157).                       *)
THEOREM QarzsizTeoremasi == RSpec => QarzsizOchiladi
<1>1. KapitalInv /\ [RNext]_rvars => KapitalInv' /\ Qarzsiz  BY KapitalQadamL
<1>2. RInit => KapitalInv  BY KapitalBoshL
<1>. QED  BY <1>1, <1>2, PTL DEF RSpec, QarzsizOchiladi, Qarzsiz

(******************************* The chain of blocks ****************************)

BlokTuri == [ha : Nat, yoq : Nat, tosiq : BOOLEAN, kam : {1, 2}]

B(y, n) == zanjir[y].bloklar[n]
U(y) == zanjir[y].uzildi
L(y) == Len(zanjir[y].bloklar)

Z(y) == zanjir[y].zona

YuruvchiTuri == [bloklar : Seq(BlokTuri), uzildi : 0..4, zona : Manbalar]

BTuri ==
    /\ tosiq \in BOOLEAN /\ otadi \in BOOLEAN /\ bosqich \in 0..4
    /\ oquvchi \in {"zanjir", "kuzatuv"}
    /\ ochirilgan \in [blok : 1..4, nima : {"ha", "yoq", "hammasi"}] \cup
                        [blok : {0}, nima : AltNomlari]
    /\ \A y \in Yuruvchilar : zanjir[y] \in YuruvchiTuri
    /\ U("kuzatuv") = 0
    /\ \A y \in Yuruvchilar : U(y) <= bosqich

\* The walkers read the same checks of the first block.
BirinchiBlok ==
    bosqich >= 1 =>
       /\ B("asosiy", 1).tosiq = tosiq /\ B("asosiy", 1).kam = 1
       /\ B("alternativ", 1) = B("asosiy", 1)
       /\ B("ikkilik", 1) = [B("asosiy", 1) EXCEPT !.kam = 2]
       /\ B("soya", 1) = (IF ochirilgan.blok = 1 THEN Ochirilgani(B("asosiy", 1))
                          ELSE B("asosiy", 1))

\* A zone other than the one found comes of a weak third block, and "two of four" goes
\* on from none.
ZonaTogri ==
    /\ Z("asosiy") = "fibonacci" /\ Z("ikkilik") = "fibonacci"
    /\ bosqich < 3 => Z("alternativ") = "fibonacci" /\ Z("soya") = "fibonacci"
    /\ U("ikkilik") = 0 => Z("alternativ") = "fibonacci"

\* A stricter walker breaks off no later, but for the fourth block in another zone.
Oraliqda ==
    /\ U("asosiy") # 0 /\ U("alternativ") = 0 =>
          U("asosiy") = 4 /\ Z("alternativ") # "fibonacci" /\ olchanmadi(B("asosiy", 1))
    /\ U("alternativ") # 0 => U("ikkilik") # 0

Soyada ==
    /\ ochirilgan.nima = "yoq" /\ U("alternativ") = 0 /\ Z("soya") = Z("alternativ") => U("soya") = 0
    /\ ochirilgan.nima = "hammasi" => tosiq \/ U("soya") # ochirilgan.blok
    /\ tosiq /\ bosqich >= 1 => U("soya") = 1

Ishonchli(b) == 5 * b.ha >= 2 * (b.ha + b.yoq)

IshonchHozir ==
    U("alternativ") = 0 => \A n \in 2..bosqich : Ishonchli(B("alternativ", n))

\* Of the chain's walkers, who walk when the candles are theirs.
ZanjirInv ==
    /\ BTypeOK /\ BirinchiBlok /\ ZonaTogri /\ Oraliqda /\ Soyada /\ IshonchHozir
    /\ TasdiqBepulOvoz

BInv ==
    /\ BTuri /\ KuzatuvUzilmaydi
    /\ oquvchi = "zanjir" => ZanjirInv
    /\ oquvchi = "kuzatuv" =>
          \A y \in Yuruvchilar \ {"kuzatuv"} : zanjir[y] = [bloklar |-> <<>>, uzildi |-> 0, zona |-> "fibonacci"]

\* The names of the alternatives, and of those of the third block.
LEMMA AltNomL ==
  /\ \A n \in 1..4 : \A i \in DOMAIN alternativlar[n] : alternativlar[n][i] \in AltNomlari
  /\ {"ha", "yoq", "hammasi"} \cap AltNomlari = {}
<1>1. \A n \in 1..4 : n = 1 \/ n = 2 \/ n = 3 \/ n = 4  OBVIOUS
<1>2. /\ alternativlar[1] = <<>> /\ alternativlar[2] = <<"trend_flag", "qosh_tub">>
      /\ alternativlar[3] = <<"qosh_tub", "oldingi_swing">>
      /\ alternativlar[4] = <<"hajm_sakrashi", "tez_harakat", "qayta_sinov">>
  BY DEF alternativlar
<1>3. ASSUME NEW n \in 1..4, NEW i \in DOMAIN alternativlar[n]
      PROVE  alternativlar[n][i] \notin {"ha", "yoq", "hammasi"}
  <2>1. CASE n = 1
    <3>1. DOMAIN <<>> = {}  OBVIOUS
    <3>. QED  BY <1>2, <2>1, <3>1
  <2>2. CASE n = 2
    <3>1. i = 1 \/ i = 2  BY <1>2, <2>2
    <3>. QED  BY <1>2, <2>2, <3>1
  <2>3. CASE n = 3
    <3>1. i = 1 \/ i = 2  BY <1>2, <2>3
    <3>. QED  BY <1>2, <2>3, <3>1
  <2>4. CASE n = 4
    <3>1. i = 1 \/ i = 2 \/ i = 3  BY <1>2, <2>4
    <3>. QED  BY <1>2, <2>4, <3>1
  <2>. QED  BY <1>1, <2>1, <2>2, <2>3, <2>4
<1>. QED  BY <1>3 DEF AltNomlari

\* The places of the alternatives of a block that hold and are not switched off.
BorOrinlar(y, n, tp) ==
    {i \in DOMAIN alternativlar[n] :
        /\ alternativlar[n][i] \in tp
        /\ ~(y = "soya" /\ ochirilgan.nima = alternativlar[n][i])}

Birinchisi(bor) == CHOOSE i \in bor : \A k \in bor : i <= k

LEMMA GolibOrinL ==
  ASSUME NEW y, NEW n, NEW tp
  PROVE  Golib(y, n, tp) =
            (IF BorOrinlar(y, n, tp) = {} THEN "yoq"
             ELSE alternativlar[n][Birinchisi(BorOrinlar(y, n, tp))])
BY DEF Golib, BorOrinlar, Birinchisi

LEMMA GolibL ==
  ASSUME NEW y, NEW tp
  PROVE  Golib(y, 3, tp) \in {"yoq", "qosh_tub", "oldingi_swing"}
<1>1. alternativlar[3] = <<"qosh_tub", "oldingi_swing">>  BY DEF alternativlar
<1>2. PICK bor : bor = BorOrinlar(y, 3, tp)  OBVIOUS
<1>3. bor \subseteq {1, 2}
  <2>1. DOMAIN alternativlar[3] = {1, 2}  BY <1>1
  <2>. QED  BY <1>2, <2>1 DEF BorOrinlar
<1>4. ASSUME bor # {} PROVE Birinchisi(bor) \in {1, 2}
  <2>1. \E i \in bor : \A k \in bor : i <= k
    <3>1. CASE 1 \in bor  BY <1>3, <3>1
    <3>2. CASE 1 \notin bor
      <4>1. \A k \in bor : k = 2  BY <1>3, <3>2
      <4>2. PICK i \in bor : TRUE  BY <1>4
      <4>3. i = 2 /\ \A k \in bor : i <= k  BY <4>1, <4>2
      <4>. QED  BY <4>3
    <3>. QED  BY <3>1, <3>2
  <2>2. Birinchisi(bor) \in bor  BY <2>1, Zenon DEF Birinchisi
  <2>. QED  BY <1>3, <2>2
<1>5. \A e \in {1, 2} : alternativlar[3][e] \in {"qosh_tub", "oldingi_swing"}  BY <1>1
<1>6. Golib(y, 3, tp) = (IF bor = {} THEN "yoq" ELSE alternativlar[3][Birinchisi(bor)])
  BY <1>2, GolibOrinL
<1>. QED  BY <1>4, <1>5, <1>6

\* Where a failed check is switched off, every alternative is there.
LEMMA GolibSoyaL ==
  ASSUME BTuri, ochirilgan.nima = "yoq", NEW n \in 1..4, NEW tp
  PROVE  Golib("soya", n, tp) = Golib("alternativ", n, tp)
<1>1. \A i \in DOMAIN alternativlar[n] : ochirilgan.nima # alternativlar[n][i]  BY AltNomL
<1>2. BorOrinlar("soya", n, tp) = BorOrinlar("alternativ", n, tp)  BY <1>1 DEF BorOrinlar
<1>. QED  BY <1>2, GolibOrinL

------------------------------------------------------------------------------
(* What the counts of a block decide.                                           *)

Yetarli(b) == b.ha + b.yoq = 0 \/ b.ha >= b.kam \/ b.yoq = 0

LEMMA OtdiL ==
  ASSUME NEW b \in BlokTuri
  PROVE  /\ otdi(b) <=> (~b.tosiq /\ Yetarli(b))
         /\ olchanmadi(b) <=> b.ha + b.yoq = 0
<1>1. b.ha \in Nat /\ b.yoq \in Nat /\ b.kam \in {1, 2}  BY DEF BlokTuri
<1>2. b.ha = b.ha + b.yoq <=> b.yoq = 0  BY <1>1
<1>3. olchanmadi(b) <=> b.ha + b.yoq = 0  BY DEF olchanmadi, maxraj
<1>4. (olchanmadi(b) \/ b.ha >= b.kam \/ b.ha = maxraj(b)) <=> Yetarli(b)
  BY <1>2, <1>3 DEF Yetarli, maxraj
<1>. QED  BY <1>3, <1>4 DEF otdi

LEMMA ZaifL ==
  ASSUME NEW b \in BlokTuri
  PROVE  blok_tasnifi_zaif(b) <=> b.ha = 1 /\ b.yoq >= 1
<1>1. b.ha \in Nat /\ b.yoq \in Nat  BY DEF BlokTuri
<1>. QED  BY <1>1 DEF blok_tasnifi_zaif, olchanmadi, maxraj, KUCHLI_ENG_KAM

\* A weak block is saved by an alternative or fails; any other is as it was.
Qutqarilgan(b, alt) ==
    IF ~blok_tasnifi_zaif(b) THEN b
    ELSE IF alt THEN [b EXCEPT !.ha = @ + 1]
    ELSE [b EXCEPT !.kam = KUCHLI_ENG_KAM]

LEMMA QutqarL ==
  ASSUME NEW b \in BlokTuri, b.kam = 1, NEW alt \in BOOLEAN
  PROVE  /\ Qutqarilgan(b, alt) \in BlokTuri
         /\ Qutqarilgan(b, alt).tosiq = b.tosiq
         /\ Qutqarilgan(b, alt).yoq = b.yoq
         /\ b.ha = 1 /\ b.yoq >= 1 /\ alt => Qutqarilgan(b, alt).ha = 2 /\ Qutqarilgan(b, alt).kam = 1
         /\ b.ha = 1 /\ b.yoq >= 1 /\ ~alt => Qutqarilgan(b, alt).ha = 1 /\ Qutqarilgan(b, alt).kam = 2
         /\ ~(b.ha = 1 /\ b.yoq >= 1) => Qutqarilgan(b, alt) = b
<1>1. PICK h \in Nat, q \in Nat, t \in BOOLEAN :
         b = [ha |-> h, yoq |-> q, tosiq |-> t, kam |-> 1]
  <2>1. b = [ha |-> b.ha, yoq |-> b.yoq, tosiq |-> b.tosiq, kam |-> 1]  BY DEF BlokTuri
  <2>. QED  BY <2>1 DEF BlokTuri
<1>2. CASE ~(h = 1 /\ q >= 1)
  <2>1. ~blok_tasnifi_zaif(b)  BY <1>1, <1>2, ZaifL
  <2>2. Qutqarilgan(b, alt) = b  BY <2>1 DEF Qutqarilgan
  <2>. QED  BY <1>1, <1>2, <2>2
<1>3. CASE h = 1 /\ q >= 1 /\ alt
  <2>1. blok_tasnifi_zaif(b)  BY <1>1, <1>3, ZaifL
  <2>2. Qutqarilgan(b, alt) = [ha |-> 2, yoq |-> q, tosiq |-> t, kam |-> 1]
    BY <1>1, <1>3, <2>1 DEF Qutqarilgan
  <2>3. /\ Qutqarilgan(b, alt) \in BlokTuri /\ Qutqarilgan(b, alt).tosiq = t /\ Qutqarilgan(b, alt).yoq = q
        /\ Qutqarilgan(b, alt).ha = 2 /\ Qutqarilgan(b, alt).kam = 1
    BY <2>2 DEF BlokTuri
  <2>4. b.ha = 1 /\ b.yoq = q /\ b.tosiq = t /\ b.yoq >= 1  BY <1>1, <1>3
  <2>. QED  BY <1>3, <2>3, <2>4
<1>4. CASE h = 1 /\ q >= 1 /\ ~alt
  <2>1. blok_tasnifi_zaif(b)  BY <1>1, <1>4, ZaifL
  <2>2. Qutqarilgan(b, alt) = [ha |-> 1, yoq |-> q, tosiq |-> t, kam |-> 2]
    BY <1>1, <1>4, <2>1 DEF Qutqarilgan, KUCHLI_ENG_KAM
  <2>. QED  BY <1>1, <1>4, <2>2 DEF BlokTuri
<1>. QED  BY <1>2, <1>3, <1>4

\* What is switched off takes votes away, and a hard stop stays.
LEMMA OchirilganL ==
  ASSUME BTuri, NEW b \in BlokTuri
  PROVE  /\ Ochirilgani(b) \in BlokTuri
         /\ Ochirilgani(b).tosiq = b.tosiq /\ Ochirilgani(b).kam = b.kam
         /\ Ochirilgani(b).ha <= b.ha /\ Ochirilgani(b).yoq <= b.yoq
         /\ ochirilgan.nima = "yoq" => Ochirilgani(b).ha = b.ha
         /\ ochirilgan.nima = "hammasi" => Ochirilgani(b).ha = 0 /\ Ochirilgani(b).yoq = 0
<1>1. PICK h \in Nat, q \in Nat, t \in BOOLEAN, k \in {1, 2} :
         b = [ha |-> h, yoq |-> q, tosiq |-> t, kam |-> k]
  <2>1. b = [ha |-> b.ha, yoq |-> b.yoq, tosiq |-> b.tosiq, kam |-> b.kam]  BY DEF BlokTuri
  <2>. QED  BY <2>1 DEF BlokTuri
<1>2. CASE ochirilgan.nima = "ha" /\ h > 0
  <2>1. Ochirilgani(b) = [ha |-> h - 1, yoq |-> q, tosiq |-> t, kam |-> k]
    BY <1>1, <1>2 DEF Ochirilgani
  <2>2. h - 1 \in Nat /\ h - 1 <= h  BY <1>2
  <2>. QED  BY <1>1, <1>2, <2>1, <2>2 DEF BlokTuri
<1>3. CASE ochirilgan.nima = "yoq" /\ q > 0
  <2>1. Ochirilgani(b) = [ha |-> h, yoq |-> q - 1, tosiq |-> t, kam |-> k]
    BY <1>1, <1>3 DEF Ochirilgani
  <2>2. q - 1 \in Nat /\ q - 1 <= q /\ h <= h  BY <1>3
  <2>. QED  BY <1>1, <1>3, <2>1, <2>2 DEF BlokTuri
<1>4. CASE ochirilgan.nima = "hammasi"
  <2>1. Ochirilgani(b) = [ha |-> 0, yoq |-> 0, tosiq |-> t, kam |-> k]
    BY <1>1, <1>4 DEF Ochirilgani
  <2>. QED  BY <1>1, <1>4, <2>1 DEF BlokTuri
<1>5. CASE /\ ~(ochirilgan.nima = "ha" /\ h > 0) /\ ~(ochirilgan.nima = "yoq" /\ q > 0)
           /\ ochirilgan.nima # "hammasi"
  <2>1. Ochirilgani(b) = b  BY <1>1, <1>5 DEF Ochirilgani
  <2>. QED  BY <1>1, <1>5, <2>1
<1>. QED  BY <1>2, <1>3, <1>4, <1>5

\* The fourth block has the first one's verdict for a vote, where the first passed.
MosOvoz(x, b) ==
    CASE fundamental_hamon_mos(b, b) = "ha"  -> [x EXCEPT !.ha = @ + 1]
      [] fundamental_hamon_mos(b, b) = "yoq" -> [x EXCEPT !.yoq = @ + 1]
      [] OTHER                               -> x

LEMMA MosOvozL ==
  ASSUME NEW x \in BlokTuri, NEW b \in BlokTuri
  PROVE  /\ MosOvoz(x, b) \in BlokTuri
         /\ MosOvoz(x, b).tosiq = x.tosiq /\ MosOvoz(x, b).kam = x.kam
         /\ otdi(b) => MosOvoz(x, b) =
                (IF olchanmadi(b) THEN x ELSE [x EXCEPT !.ha = @ + 1])
<1>1. PICK h \in Nat, q \in Nat, t \in BOOLEAN, k \in {1, 2} :
         x = [ha |-> h, yoq |-> q, tosiq |-> t, kam |-> k]
  <2>1. x = [ha |-> x.ha, yoq |-> x.yoq, tosiq |-> x.tosiq, kam |-> x.kam]  BY DEF BlokTuri
  <2>. QED  BY <2>1 DEF BlokTuri
<1>2. fundamental_hamon_mos(b, b) =
         (IF olchanmadi(b) THEN "malumot_yoq" ELSE IF otdi(b) THEN "ha" ELSE "yoq")
  <2>1. b.ha >= b.ha - 1  BY DEF BlokTuri
  <2>2. otdi(b) => ~b.tosiq  BY DEF otdi
  <2>3. CASE olchanmadi(b)  BY <2>3 DEF fundamental_hamon_mos
  <2>4. CASE ~olchanmadi(b) /\ otdi(b)  BY <2>1, <2>2, <2>4 DEF fundamental_hamon_mos
  <2>5. CASE ~olchanmadi(b) /\ ~otdi(b)  BY <2>5 DEF fundamental_hamon_mos
  <2>. QED  BY <2>3, <2>4, <2>5
<1>3. CASE olchanmadi(b)
  <2>1. MosOvoz(x, b) = x  BY <1>2, <1>3 DEF MosOvoz
  <2>. QED  BY <1>3, <2>1
<1>4. CASE ~olchanmadi(b) /\ otdi(b)
  <2>1. MosOvoz(x, b) = [x EXCEPT !.ha = @ + 1]  BY <1>2, <1>4 DEF MosOvoz
  <2>2. MosOvoz(x, b) = [ha |-> h + 1, yoq |-> q, tosiq |-> t, kam |-> k]
    BY <1>1, <2>1
  <2>3. MosOvoz(x, b) \in BlokTuri  BY <2>2 DEF BlokTuri
  <2>. QED  BY <1>1, <1>4, <2>1, <2>2, <2>3
<1>5. CASE ~olchanmadi(b) /\ ~otdi(b)
  <2>2. MosOvoz(x, b) = [ha |-> h, yoq |-> q + 1, tosiq |-> t, kam |-> k]
    BY <1>1, <1>2, <1>5 DEF MosOvoz
  <2>3. MosOvoz(x, b) \in BlokTuri  BY <2>2 DEF BlokTuri
  <2>. QED  BY <1>1, <1>5, <2>2, <2>3
<1>. QED  BY <1>3, <1>4, <1>5

\* The vote of the walker's zone comes before it.
Pastki(x, p) ==
    [ha |-> x.ha + (IF p THEN 1 ELSE 0), yoq |-> x.yoq + (IF p THEN 0 ELSE 1),
     tosiq |-> x.tosiq, kam |-> x.kam]

LEMMA PastkiL ==
  ASSUME NEW x \in BlokTuri, NEW p
  PROVE  /\ Pastki(x, p) \in BlokTuri /\ Pastki(x, p).tosiq = x.tosiq /\ Pastki(x, p).kam = x.kam
         /\ Pastki(x, p).ha + Pastki(x, p).yoq = x.ha + x.yoq + 1
<1>1. x.ha \in Nat /\ x.yoq \in Nat /\ x.tosiq \in BOOLEAN /\ x.kam \in {1, 2}  BY DEF BlokTuri
<1>2. CASE p
  <2>1. Pastki(x, p) = [ha |-> x.ha + 1, yoq |-> x.yoq, tosiq |-> x.tosiq, kam |-> x.kam]
    BY <1>1, <1>2 DEF Pastki
  <2>. QED  BY <1>1, <2>1 DEF BlokTuri
<1>3. CASE ~p
  <2>1. Pastki(x, p) = [ha |-> x.ha, yoq |-> x.yoq + 1, tosiq |-> x.tosiq, kam |-> x.kam]
    BY <1>1, <1>3 DEF Pastki
  <2>. QED  BY <1>1, <2>1 DEF BlokTuri
<1>. QED  BY <1>2, <1>3

LEMMA TasdiqlashL ==
  ASSUME NEW y, NEW x \in BlokTuri, NEW b, NEW td
  PROVE  tasdiqlash_blok(y, x, b, td) = MosOvoz(Pastki(x, Z(y) \in td), b)
<1>. DEFINE m == fundamental_hamon_mos(b, b)
            p == Z(y) \in td
<1>1. PICK h \in Nat, q \in Nat, t \in BOOLEAN, k \in {1, 2} :
         x = [ha |-> h, yoq |-> q, tosiq |-> t, kam |-> k]
  <2>1. x = [ha |-> x.ha, yoq |-> x.yoq, tosiq |-> x.tosiq, kam |-> x.kam]  BY DEF BlokTuri
  <2>. QED  BY <2>1 DEF BlokTuri
<1>2. tasdiqlash_blok(y, x, b, td) =
         [x EXCEPT !.ha = @ + (IF p THEN 1 ELSE 0) + (IF m = "ha" THEN 1 ELSE 0),
                   !.yoq = @ + (IF p THEN 0 ELSE 1) + (IF m = "yoq" THEN 1 ELSE 0)]
  BY DEF tasdiqlash_blok, pastki_tf_tasdigi, Z
<1>3. tasdiqlash_blok(y, x, b, td) =
         [ha |-> h + (IF p THEN 1 ELSE 0) + (IF m = "ha" THEN 1 ELSE 0),
          yoq |-> q + (IF p THEN 0 ELSE 1) + (IF m = "yoq" THEN 1 ELSE 0), tosiq |-> t, kam |-> k]
  BY <1>1, <1>2
<1>4. PICK u \in Nat, w \in Nat :
         u = h + (IF p THEN 1 ELSE 0) /\ w = q + (IF p THEN 0 ELSE 1)
  OBVIOUS
<1>5. Pastki(x, p) = [ha |-> u, yoq |-> w, tosiq |-> t, kam |-> k]  BY <1>1, <1>4 DEF Pastki
<1>6. tasdiqlash_blok(y, x, b, td) =
         [ha |-> u + (IF m = "ha" THEN 1 ELSE 0), yoq |-> w + (IF m = "yoq" THEN 1 ELSE 0),
          tosiq |-> t, kam |-> k]
  BY <1>3, <1>4
<1>. HIDE DEF p
<1>7. CASE m = "ha"
  <2>1. MosOvoz(Pastki(x, p), b) = [ha |-> u + 1, yoq |-> w, tosiq |-> t, kam |-> k]
    BY <1>5, <1>7 DEF MosOvoz
  <2>. QED  BY <1>6, <1>7, <2>1 DEF p
<1>8. CASE m = "yoq"
  <2>1. MosOvoz(Pastki(x, p), b) = [ha |-> u, yoq |-> w + 1, tosiq |-> t, kam |-> k]
    BY <1>5, <1>8 DEF MosOvoz
  <2>. QED  BY <1>6, <1>8, <2>1 DEF p
<1>9. CASE m # "ha" /\ m # "yoq"
  <2>1. MosOvoz(Pastki(x, p), b) = [ha |-> u, yoq |-> w, tosiq |-> t, kam |-> k]
    BY <1>5, <1>9 DEF MosOvoz
  <2>. QED  BY <1>6, <1>9, <2>1 DEF p
<1>. QED  BY <1>7, <1>8, <1>9

------------------------------------------------------------------------------
(* The block a walker makes.                                                    *)

XomBlok(n, s) == [ha |-> s.ha, yoq |-> s.yoq, tosiq |-> n = 1 /\ tosiq, kam |-> 1]

LEMMA XomL ==
  ASSUME BTuri, NEW n \in 1..4, NEW s \in Sanoqlar
  PROVE  /\ XomBlok(n, s) \in BlokTuri /\ XomBlok(n, s).kam = 1
         /\ XomBlok(n, s).tosiq = (n = 1 /\ tosiq)
         /\ XomBlok(n, s).ha = s.ha /\ XomBlok(n, s).yoq = s.yoq
         /\ s.ha \in Nat /\ s.yoq \in Nat /\ s.ha + s.yoq <= 4
<1>1. s \in [ha : 0..4, yoq : 0..4] /\ s.ha + s.yoq <= 4  BY BloklarFarazi
<1>2. s.ha \in Nat /\ s.yoq \in Nat  BY <1>1
<1>3. PICK t \in BOOLEAN : t = (n = 1 /\ tosiq)  BY DEF BTuri
<1>4. XomBlok(n, s) = [ha |-> s.ha, yoq |-> s.yoq, tosiq |-> t, kam |-> 1]
  BY <1>3 DEF XomBlok
<1>. QED  BY <1>1, <1>2, <1>3, <1>4 DEF BlokTuri

\* The checks of block n as walker y sees them: the fourth's in its zone.
Korgan(y, n, s, td) ==
    IF n = 4 THEN Pastki(XomBlok(n, s), Z(y) \in td) ELSE XomBlok(n, s)

LEMMA KorganL ==
  ASSUME BTuri, NEW y, NEW n \in 1..4, NEW s \in Sanoqlar, NEW td
  PROVE  /\ Korgan(y, n, s, td) \in BlokTuri /\ Korgan(y, n, s, td).kam = 1
         /\ Korgan(y, n, s, td).tosiq = (n = 1 /\ tosiq)
         /\ n # 4 => Korgan(y, n, s, td).ha + Korgan(y, n, s, td).yoq <= 4
         /\ n = 4 /\ s.ha + s.yoq \in 1..2
               => Korgan(y, n, s, td).ha + Korgan(y, n, s, td).yoq <= 3
<1>1. PICK x \in BlokTuri : x = XomBlok(n, s)  BY XomL
<1>2. /\ x.kam = 1 /\ x.tosiq = (n = 1 /\ tosiq) /\ x.ha = s.ha /\ x.yoq = s.yoq
      /\ s.ha \in Nat /\ s.yoq \in Nat /\ s.ha + s.yoq <= 4
  BY <1>1, XomL
<1>3. CASE n # 4
  <2>1. Korgan(y, n, s, td) = x  BY <1>1, <1>3 DEF Korgan
  <2>. QED  BY <1>2, <1>3, <2>1
<1>4. CASE n = 4
  <2>1. PICK p : p = (Z(y) \in td)  OBVIOUS
  <2>2. Korgan(y, n, s, td) = Pastki(x, p)  BY <1>1, <1>4, <2>1 DEF Korgan
  <2>3. /\ Pastki(x, p) \in BlokTuri /\ Pastki(x, p).tosiq = x.tosiq /\ Pastki(x, p).kam = x.kam
        /\ Pastki(x, p).ha + Pastki(x, p).yoq = x.ha + x.yoq + 1
    BY PastkiL
  <2>4. s.ha + s.yoq \in 1..2 => x.ha + x.yoq + 1 <= 3  BY <1>2
  <2>. QED  BY <1>2, <1>4, <2>2, <2>3, <2>4
<1>. QED  BY <1>3, <1>4

\* The checks of block n as walker y has them, before its own settings.
Asl(y, n, s, td) ==
    IF n = 4 THEN tasdiqlash_blok(y, XomBlok(n, s), B(y, 1), td) ELSE XomBlok(n, s)

LEMMA AslL ==
  ASSUME BTuri, NEW y, NEW n \in 1..4, NEW s \in Sanoqlar, NEW td
  PROVE  Asl(y, n, s, td) =
            (IF n = 4 THEN MosOvoz(Korgan(y, n, s, td), B(y, 1)) ELSE Korgan(y, n, s, td))
<1>1. PICK x \in BlokTuri : x = XomBlok(n, s)  BY XomL
<1>2. tasdiqlash_blok(y, x, B(y, 1), td) = MosOvoz(Pastki(x, Z(y) \in td), B(y, 1))
  BY TasdiqlashL
<1>. QED  BY <1>1, <1>2 DEF Asl, Korgan

\* The next block of walker y, with what an alternative makes of it, and its zone.
YBlok(y, n, s, tp, td) == qutqar(y, n, Blok(y, n, s, td), tp)
YZona(y, n, s, tp, td) == zona_bilan(y, n, Blok(y, n, s, td), tp)

AltBor(y, n, tp) == Golib(y, n, tp) # "yoq"

LEMMA BlokAslL ==
  ASSUME NEW y, NEW n, NEW s, NEW td
  PROVE  Blok(y, n, s, td) = blok_sozla(y, n, Asl(y, n, s, td))
BY DEF Blok, Asl, XomBlok, B

LEMMA BlokYasashL ==
  ASSUME NEW y, NEW n, NEW s, NEW tp, NEW td
  PROVE  YBlok(y, n, s, tp, td) =
            (IF n > 1 /\ y \in Alternativli
             THEN Qutqarilgan(blok_sozla(y, n, Asl(y, n, s, td)), AltBor(y, n, tp))
             ELSE blok_sozla(y, n, Asl(y, n, s, td)))
<1>1. Blok(y, n, s, td) = blok_sozla(y, n, Asl(y, n, s, td))  BY BlokAslL
<1>2. PICK b : b = blok_sozla(y, n, Asl(y, n, s, td))  OBVIOUS
<1>3. qutqar(y, n, b, tp) =
         (IF n > 1 /\ y \in Alternativli THEN Qutqarilgan(b, AltBor(y, n, tp)) ELSE b)
  BY DEF qutqar, Qutqariladi, Qutqarilgan, AltBor
<1>. QED  BY <1>1, <1>2, <1>3 DEF YBlok

\* A zone comes of a weak third block, of a walker that has alternatives.
LEMMA ZonaL ==
  ASSUME BTuri, NEW y \in Yuruvchilar, NEW n, NEW b, NEW tp
  PROVE  /\ zona_bilan(y, n, b, tp) \in Manbalar
         /\ n # 3 \/ y \notin Alternativli \/ ~blok_tasnifi_zaif(b) => zona_bilan(y, n, b, tp) = Z(y)
<1>1. Z(y) \in Manbalar  BY DEF BTuri, YuruvchiTuri, Z
<1>2. CASE n = 3 /\ Qutqariladi(y, n, b) /\ Golib(y, n, tp) # "yoq"
  <2>1. Golib(y, 3, tp) \in {"yoq", "qosh_tub", "oldingi_swing"}  BY GolibL
  <2>2. zona_bilan(y, n, b, tp) = Golib(y, 3, tp)  BY <1>2 DEF zona_bilan
  <2>. QED  BY <1>2, <2>1, <2>2 DEF Manbalar, Qutqariladi
<1>3. CASE ~(n = 3 /\ Qutqariladi(y, n, b) /\ Golib(y, n, tp) # "yoq")
  <2>1. zona_bilan(y, n, b, tp) = Z(y)  BY <1>3 DEF zona_bilan, Z
  <2>. QED  BY <1>1, <2>1
<1>. QED  BY <1>2, <1>3

LEMMA SozlaL ==
  ASSUME NEW y, NEW n, NEW a \in BlokTuri, a.kam = 1
  PROVE  /\ y = "soya" /\ n = ochirilgan.blok => blok_sozla(y, n, a) = Ochirilgani(a)
         /\ y = "soya" /\ n # ochirilgan.blok => blok_sozla(y, n, a) = a
         /\ y \notin {"soya", "ikkilik"} => blok_sozla(y, n, a) = a
         /\ y = "ikkilik" => blok_sozla(y, n, a) = [a EXCEPT !.kam = 2]
<1>1. [a EXCEPT !.kam = 1] = a  BY DEF BlokTuri
<1>. QED  BY <1>1 DEF blok_sozla

\* Who still walks has a block for each step.
LEMMA UzunlikL ==
  ASSUME BInv, NEW y \in Yuruvchilar, Yuradi(y)
  PROVE  Len(zanjir[y].bloklar) = bosqich
<1>1. CASE y = "kuzatuv"
  <2>1. otadi /\ oquvchi = "kuzatuv"  BY <1>1 DEF Yuradi
  <2>2. Len(zanjir["kuzatuv"].bloklar) = bosqich  BY <2>1 DEF BInv, KuzatuvUzilmaydi
  <2>. QED  BY <1>1, <2>2
<1>2. CASE y # "kuzatuv"
  <2>1. zanjir[y].uzildi = 0 /\ oquvchi # "kuzatuv"  BY <1>2 DEF Yuradi
  <2>2. y \in Yuruvchilar \ {"kuzatuv"}  BY <1>2
  <2>3. oquvchi = "zanjir"  BY <2>1 DEF BInv, BTuri
  <2>4. BTypeOK  BY <2>3 DEF BInv, ZanjirInv
  <2>. QED  BY <2>1, <2>2, <2>4 DEF BTypeOK
<1>. QED  BY <1>1, <1>2

\* What holds of walker y's block n, made from the checks s.
LEMMA AslTuriL ==
  ASSUME BInv, bosqich < 4, NEW y \in Yuruvchilar, NEW s \in Sanoqlar, NEW td, Yuradi(y)
  PROVE  /\ Asl(y, bosqich + 1, s, td) \in BlokTuri /\ Asl(y, bosqich + 1, s, td).kam = 1
         /\ Asl(y, bosqich + 1, s, td).tosiq = (bosqich + 1 = 1 /\ tosiq)
<1>. DEFINE n == bosqich + 1
<1>1. BTuri /\ n \in 1..4  BY DEF BInv, BTuri
<1>2. PICK x \in BlokTuri : x = Korgan(y, n, s, td) /\ x.kam = 1 /\ x.tosiq = (n = 1 /\ tosiq)
  BY <1>1, KorganL
<1>3. CASE n # 4  BY <1>1, <1>2, <1>3, AslL
<1>4. CASE n = 4
  <2>1. Len(zanjir[y].bloklar) = 3
    <3>1. bosqich = 3  BY <1>1, <1>4 DEF BTuri
    <3>. QED  BY <3>1, UzunlikL
  <2>2. zanjir[y].bloklar \in Seq(BlokTuri)  BY <1>1 DEF BTuri, YuruvchiTuri
  <2>3. PICK b \in BlokTuri : b = B(y, 1)  BY <2>1, <2>2 DEF B
  <2>4. Asl(y, n, s, td) = MosOvoz(x, b)  BY <1>1, <1>2, <1>4, <2>3, AslL
  <2>5. /\ MosOvoz(x, b) \in BlokTuri
        /\ MosOvoz(x, b).tosiq = x.tosiq /\ MosOvoz(x, b).kam = x.kam
    BY MosOvozL
  <2>. QED  BY <1>2, <2>4, <2>5
<1>. QED  BY <1>3, <1>4

LEMMA YangiBlokTuriL ==
  ASSUME BInv, bosqich < 4, NEW y \in Yuruvchilar, NEW s \in Sanoqlar, NEW tp, NEW td,
         Yuradi(y)
  PROVE  YBlok(y, bosqich + 1, s, tp, td) \in BlokTuri
<1>. DEFINE n == bosqich + 1
            a == Asl(y, n, s, td)
            v == AltBor(y, n, tp)
<1>1. a \in BlokTuri /\ a.kam = 1  BY AslTuriL
<1>2. blok_sozla(y, n, a) \in BlokTuri /\ (y # "ikkilik" => blok_sozla(y, n, a).kam = 1)
  <2>1. Ochirilgani(a) \in BlokTuri /\ Ochirilgani(a).kam = 1
    <3>. HIDE DEF a
    <3>. QED  BY <1>1, OchirilganL DEF BInv
  <2>2. [a EXCEPT !.kam = 2] \in BlokTuri  BY <1>1 DEF BlokTuri
  <2>. HIDE DEF a, n
  <2>. QED  BY <1>1, <2>1, <2>2, SozlaL
<1>3. v \in BOOLEAN  BY DEF AltBor
<1>4. y \in Alternativli => y # "ikkilik"  BY DEF Alternativli
<1>5. y \in Alternativli => Qutqarilgan(blok_sozla(y, n, a), v) \in BlokTuri
  <2>. HIDE DEF n, a, v
  <2>. QED  BY <1>2, <1>3, <1>4, QutqarL
<1>6. YBlok(y, n, s, tp, td) = (IF n > 1 /\ y \in Alternativli
             THEN Qutqarilgan(blok_sozla(y, n, a), v) ELSE blok_sozla(y, n, a))
  BY BlokYasashL
<1>. HIDE DEF a, v
<1>. QED  BY <1>2, <1>5, <1>6

\* A step: some checks s of the next block, the alternatives tp of it that hold and the
\* zones td in which the lower timeframe confirms.
Qadami(s, tp, td) ==
    /\ bosqich < 4 /\ bosqich' = bosqich + 1
    /\ bosqich + 1 = 4 => s.ha + s.yoq \in 1..2
    /\ zanjir' = [y \in Yuruvchilar |->
                 IF ~Yuradi(y) THEN zanjir[y]
                 ELSE [bloklar |-> Append(zanjir[y].bloklar, YBlok(y, bosqich + 1, s, tp, td)),
                       uzildi |-> Uzilish(y, bosqich + 1, YBlok(y, bosqich + 1, s, tp, td)),
                       zona |-> YZona(y, bosqich + 1, s, tp, td)]]
    /\ UNCHANGED <<tosiq, oquvchi, ochirilgan, otadi>>

\* Who walks has one block more, the others are as they were.
LEMMA NatijaL ==
  ASSUME BInv, NEW s \in Sanoqlar, NEW tp, NEW td, Qadami(s, tp, td), NEW y \in Yuruvchilar
  PROVE  /\ ~Yuradi(y) => zanjir'[y] = zanjir[y]
         /\ Yuradi(y) =>
              /\ L(y) = bosqich
              /\ zanjir'[y].bloklar \in Seq(BlokTuri) /\ Len(zanjir'[y].bloklar) = bosqich + 1
              /\ \A k \in 1..bosqich : zanjir'[y].bloklar[k] = B(y, k)
              /\ zanjir'[y].bloklar[bosqich + 1] = YBlok(y, bosqich + 1, s, tp, td)
              /\ zanjir'[y].uzildi = Uzilish(y, bosqich + 1, YBlok(y, bosqich + 1, s, tp, td))
              /\ zanjir'[y].zona = YZona(y, bosqich + 1, s, tp, td)
              /\ zanjir'[y] \in YuruvchiTuri
<1>1. CASE ~Yuradi(y)  BY <1>1 DEF Qadami
<1>2. CASE Yuradi(y)
  <2>1. PICK b \in BlokTuri : b = YBlok(y, bosqich + 1, s, tp, td)
    BY <1>2, YangiBlokTuriL DEF Qadami
  <2>2. PICK z : z = YZona(y, bosqich + 1, s, tp, td)  OBVIOUS
  <2>3. z \in Manbalar  BY <2>2, ZonaL DEF BInv, YZona
  <2>4. zanjir'[y] = [bloklar |-> Append(zanjir[y].bloklar, b),
                      uzildi |-> Uzilish(y, bosqich + 1, b), zona |-> z]
    BY <1>2, <2>1, <2>2 DEF Qadami
  <2>5. zanjir[y].bloklar \in Seq(BlokTuri) /\ bosqich \in 0..3
    BY DEF BInv, BTuri, YuruvchiTuri, Qadami
  <2>6. Len(zanjir[y].bloklar) = bosqich  BY <1>2, UzunlikL
  <2>7. Uzilish(y, bosqich + 1, b) \in 0..4  BY <2>5 DEF Uzilish
  <2>8. PICK q : q = Append(zanjir[y].bloklar, b)  OBVIOUS
  <2>9. /\ q \in Seq(BlokTuri) /\ Len(q) = bosqich + 1 /\ q[bosqich + 1] = b
        /\ \A k \in 1..bosqich : q[k] = zanjir[y].bloklar[k]
    BY <2>5, <2>6, <2>8
  <2>10. /\ zanjir'[y].bloklar = q /\ zanjir'[y].uzildi = Uzilish(y, bosqich + 1, b)
         /\ zanjir'[y].zona = z /\ zanjir'[y] \in YuruvchiTuri
    BY <2>3, <2>4, <2>7, <2>8, <2>9 DEF YuruvchiTuri
  <2>. QED  BY <1>2, <2>1, <2>2, <2>6, <2>9, <2>10 DEF L, B
<1>. QED  BY <1>1, <1>2

------------------------------------------------------------------------------
(* The same checks, read strictly and less so.                                  *)

\* An alternative saves no block that the strategy's rule stops, stops none that
\* "two of four" lets through, and leaves a passed block two fifths of the votes.
LEMMA QattiqlikL ==
  ASSUME NEW a \in BlokTuri, a.kam = 1, NEW alt \in BOOLEAN
  PROVE  /\ otdi(Qutqarilgan(a, alt)) => otdi(a)
         /\ otdi([a EXCEPT !.kam = 2]) => otdi(a) /\ otdi(Qutqarilgan(a, alt))
         /\ otdi(Qutqarilgan(a, alt)) /\ a.ha + a.yoq <= 4 => Ishonchli(Qutqarilgan(a, alt))
         /\ otdi([a EXCEPT !.kam = 2]) => ~blok_tasnifi_zaif(a)
<1>. DEFINE q == Qutqarilgan(a, alt)
            k == [a EXCEPT !.kam = 2]
<1>1. k \in BlokTuri /\ k.ha = a.ha /\ k.yoq = a.yoq /\ k.tosiq = a.tosiq /\ k.kam = 2
  BY DEF BlokTuri
<1>2. /\ q \in BlokTuri /\ q.tosiq = a.tosiq /\ q.yoq = a.yoq
      /\ a.ha = 1 /\ a.yoq >= 1 /\ alt => q.ha = 2 /\ q.kam = 1
      /\ a.ha = 1 /\ a.yoq >= 1 /\ ~alt => q.ha = 1 /\ q.kam = 2
      /\ ~(a.ha = 1 /\ a.yoq >= 1) => q = a
  BY QutqarL
<1>3. a.ha \in Nat /\ a.yoq \in Nat  BY DEF BlokTuri
<1>4. (a.ha = 1 /\ a.yoq >= 1) \/ (q.ha = a.ha /\ q.kam = 1)  BY <1>2
<1>. HIDE DEF q, k
<1>5. q.ha \in Nat /\ q.yoq \in Nat  BY <1>2 DEF BlokTuri
<1>6. Yetarli(q) => Yetarli(a)
  BY <1>2, <1>3, <1>4, <1>5 DEF Yetarli
<1>7. Yetarli(k) => Yetarli(a) /\ ~(a.ha = 1 /\ a.yoq >= 1)
  BY <1>1, <1>3 DEF Yetarli
<1>8. Yetarli(k) => Yetarli(q)
  BY <1>2, <1>7
<1>9. Yetarli(q) /\ a.ha + a.yoq <= 4 => Ishonchli(q)
  <2>1. CASE a.ha = 1 /\ a.yoq >= 1
    <3>1. q.ha = 2 \/ (q.ha = 1 /\ q.kam = 2)  BY <1>2, <2>1
    <3>. QED  BY <1>2, <1>3, <2>1, <3>1 DEF Yetarli, Ishonchli
  <2>2. CASE ~(a.ha = 1 /\ a.yoq >= 1)
    <3>1. q.ha = a.ha /\ q.kam = 1 /\ q.yoq = a.yoq  BY <1>2, <1>4, <2>2
    <3>. QED  BY <1>3, <2>2, <3>1 DEF Yetarli, Ishonchli
  <2>. QED  BY <2>1, <2>2
<1>10. /\ otdi(q) <=> (~q.tosiq /\ Yetarli(q))
       /\ otdi(k) <=> (~k.tosiq /\ Yetarli(k))
       /\ otdi(a) <=> (~a.tosiq /\ Yetarli(a))
  BY <1>1, <1>2, OtdiL
<1>11. (~q.tosiq <=> ~a.tosiq) /\ (~k.tosiq <=> ~a.tosiq)  BY <1>1, <1>2
<1>12. /\ otdi(q) => otdi(a)
       /\ otdi(k) => otdi(a) /\ otdi(q)
       /\ otdi(q) /\ a.ha + a.yoq <= 4 => Ishonchli(q)
       /\ otdi(k) => ~blok_tasnifi_zaif(a)
  BY <1>6, <1>7, <1>8, <1>9, <1>10, <1>11, ZaifL
<1>. QED  BY <1>12 DEF q, k

\* A check that says no and is switched off stops nothing.
LEMMA KamRadL ==
  ASSUME NEW a \in BlokTuri, NEW d \in BlokTuri, a.kam = 1, d.kam = 1, NEW alt \in BOOLEAN,
         d.tosiq = a.tosiq, d.ha = a.ha, d.yoq <= a.yoq
  PROVE  /\ otdi(a) => otdi(d)
         /\ otdi(Qutqarilgan(a, alt)) => otdi(Qutqarilgan(d, alt))
<1>. DEFINE q == Qutqarilgan(a, alt)
            r == Qutqarilgan(d, alt)
<1>1. a.ha \in Nat /\ a.yoq \in Nat /\ d.yoq \in Nat  BY DEF BlokTuri
<1>2. Yetarli(a) => Yetarli(d)  BY <1>1 DEF Yetarli
<1>3. /\ q \in BlokTuri /\ q.tosiq = a.tosiq /\ q.yoq = a.yoq
      /\ a.ha = 1 /\ a.yoq >= 1 /\ alt => q.ha = 2 /\ q.kam = 1
      /\ a.ha = 1 /\ a.yoq >= 1 /\ ~alt => q.ha = 1 /\ q.kam = 2
      /\ ~(a.ha = 1 /\ a.yoq >= 1) => q = a
  BY QutqarL
<1>4. /\ r \in BlokTuri /\ r.tosiq = d.tosiq /\ r.yoq = d.yoq
      /\ d.ha = 1 /\ d.yoq >= 1 /\ alt => r.ha = 2 /\ r.kam = 1
      /\ d.ha = 1 /\ d.yoq >= 1 /\ ~alt => r.ha = 1 /\ r.kam = 2
      /\ ~(d.ha = 1 /\ d.yoq >= 1) => r = d
  BY QutqarL
<1>. HIDE DEF q, r
<1>5. Yetarli(q) => Yetarli(r)
  <2>1. CASE d.ha = 1 /\ d.yoq >= 1 /\ alt
    <3>1. r.ha = 2 /\ r.kam = 1  BY <1>4, <2>1
    <3>. QED  BY <3>1 DEF Yetarli
  <2>2. CASE d.ha = 1 /\ d.yoq >= 1 /\ ~alt
    <3>1. a.ha = 1 /\ a.yoq >= 1  BY <1>1, <2>2
    <3>2. q.ha = 1 /\ q.kam = 2 /\ q.yoq = a.yoq  BY <1>3, <2>2, <3>1
    <3>. QED  BY <1>1, <3>1, <3>2 DEF Yetarli
  <2>3. CASE ~(d.ha = 1 /\ d.yoq >= 1)
    <3>1. r = d  BY <1>4, <2>3
    <3>2. CASE a.ha = 1 /\ a.yoq >= 1
      <4>1. d.yoq = 0  BY <1>1, <2>3, <3>2
      <4>. QED  BY <3>1, <4>1 DEF Yetarli
    <3>3. CASE ~(a.ha = 1 /\ a.yoq >= 1)
      <4>1. q = a  BY <1>3, <3>3
      <4>. QED  BY <1>2, <3>1, <4>1
    <3>. QED  BY <3>2, <3>3
  <2>4. alt = TRUE \/ alt = FALSE  OBVIOUS
  <2>. QED  BY <2>1, <2>2, <2>3, <2>4
<1>6. /\ otdi(a) <=> (~a.tosiq /\ Yetarli(a))
      /\ otdi(d) <=> (~d.tosiq /\ Yetarli(d))
      /\ otdi(q) <=> (~q.tosiq /\ Yetarli(q))
      /\ otdi(r) <=> (~r.tosiq /\ Yetarli(r))
  BY <1>3, <1>4, OtdiL
<1>7. (otdi(a) => otdi(d)) /\ (otdi(q) => otdi(r))
  BY <1>2, <1>3, <1>4, <1>5, <1>6
<1>. QED  BY <1>7 DEF q, r

------------------------------------------------------------------------------
(* Walkers side by side.                                                        *)

\* A walker of the chain's candles goes on until it breaks off.
LEMMA YuradiL ==
  ASSUME oquvchi = "zanjir", NEW y \in Yuruvchilar \ {"kuzatuv"}
  PROVE  Yuradi(y) <=> U(y) = 0
BY DEF Yuradi, U

\* The first block, once walked, of whoever still walks has passed.
LEMMA BirinchiOtganL ==
  ASSUME BInv, oquvchi = "zanjir", NEW y \in Yuruvchilar \ {"kuzatuv"}, Yuradi(y), bosqich >= 1
  PROVE  B(y, 1) \in BlokTuri /\ otdi(B(y, 1))
<1>1. BTuri /\ BTypeOK /\ bosqich \in 0..4  BY DEF BInv, BTuri, ZanjirInv
<1>2. zanjir[y].uzildi = 0 /\ Len(zanjir[y].bloklar) = bosqich
  BY UzunlikL DEF Yuradi
<1>3. zanjir[y].bloklar \in Seq(BlokTuri)  BY <1>1 DEF BTuri, YuruvchiTuri
<1>4. 1 \in 1..Len(zanjir[y].bloklar)  BY <1>1, <1>2
<1>5. otdi(zanjir[y].bloklar[1])  BY <1>1, <1>2, <1>4 DEF BTypeOK
<1>. QED  BY <1>3, <1>4, <1>5 DEF B

\* The fourth block's own checks and the vote of the first.
LEMMA ToAslL ==
  ASSUME BInv, oquvchi = "zanjir", bosqich < 4, NEW y \in Yuruvchilar \ {"kuzatuv"}, Yuradi(y),
         NEW s \in Sanoqlar, NEW td
  PROVE  Asl(y, bosqich + 1, s, td) =
            (IF bosqich + 1 = 4 /\ ~olchanmadi(B(y, 1))
             THEN [Korgan(y, bosqich + 1, s, td) EXCEPT !.ha = @ + 1]
             ELSE Korgan(y, bosqich + 1, s, td))
<1>. DEFINE n == bosqich + 1
<1>1. BTuri /\ n \in 1..4  BY DEF BInv, BTuri
<1>2. PICK x \in BlokTuri : x = Korgan(y, n, s, td)  BY <1>1, KorganL
<1>3. CASE n # 4  BY <1>1, <1>3, AslL
<1>4. CASE n = 4
  <2>1. bosqich >= 1  BY <1>1, <1>4 DEF BTuri
  <2>2. PICK b \in BlokTuri : b = B(y, 1) /\ otdi(b)  BY <2>1, BirinchiOtganL
  <2>3. MosOvoz(x, b) = (IF olchanmadi(b) THEN x ELSE [x EXCEPT !.ha = @ + 1])
    BY <2>2, MosOvozL
  <2>4. Asl(y, n, s, td) = MosOvoz(x, b)  BY <1>1, <1>2, <1>4, <2>2, AslL
  <2>. QED  BY <1>2, <1>4, <2>2, <2>3, <2>4
<1>. QED  BY <1>3, <1>4

\* Two walkers whose first blocks measured alike and whose zones are one have the
\* same checks.
LEMMA BirXilAslL ==
  ASSUME BInv, oquvchi = "zanjir", bosqich < 4, NEW s \in Sanoqlar, NEW td,
         NEW y \in Yuruvchilar \ {"kuzatuv"}, NEW w \in Yuruvchilar \ {"kuzatuv"},
         Yuradi(y), Yuradi(w), Z(y) = Z(w),
         bosqich >= 1 => (olchanmadi(B(y, 1)) <=> olchanmadi(B(w, 1)))
  PROVE  Asl(y, bosqich + 1, s, td) = Asl(w, bosqich + 1, s, td)
<1>1. bosqich + 1 = 4 => bosqich >= 1  BY DEF BInv, BTuri
<1>2. Korgan(y, bosqich + 1, s, td) = Korgan(w, bosqich + 1, s, td)  BY DEF Korgan
<1>3. PICK k : k = Korgan(y, bosqich + 1, s, td)  OBVIOUS
<1>4. Asl(y, bosqich + 1, s, td) =
         (IF bosqich + 1 = 4 /\ ~olchanmadi(B(y, 1)) THEN [k EXCEPT !.ha = @ + 1] ELSE k)
  BY <1>3, ToAslL
<1>5. Asl(w, bosqich + 1, s, td) =
         (IF bosqich + 1 = 4 /\ ~olchanmadi(B(w, 1)) THEN [k EXCEPT !.ha = @ + 1] ELSE k)
  BY <1>2, <1>3, ToAslL
<1>. QED  BY <1>1, <1>4, <1>5

\* The blocks the strategy's chain, the alternative one and "two of four" make of the
\* same checks.
Solishtirildi(a, n, s, tp, td) ==
    /\ a.kam = 1 /\ a.tosiq = (n = 1 /\ tosiq) /\ a.ha + a.yoq <= 4
    /\ a = Asl("alternativ", n, s, td)
    /\ Blok("alternativ", n, s, td) = a
    /\ Z("alternativ") = "fibonacci" => YBlok("asosiy", n, s, tp, td) = a
    /\ YBlok("alternativ", n, s, tp, td) =
          (IF n > 1 THEN Qutqarilgan(a, AltBor("alternativ", n, tp)) ELSE a)
    /\ Yuradi("ikkilik") => YBlok("ikkilik", n, s, tp, td) = [a EXCEPT !.kam = 2]

LEMMA SolishtirL ==
  ASSUME BInv, oquvchi = "zanjir", bosqich < 4, NEW s \in Sanoqlar, NEW tp, NEW td,
         bosqich + 1 = 4 => s.ha + s.yoq \in 1..2, Yuradi("alternativ")
  PROVE  Yuradi("asosiy") /\ \E a \in BlokTuri : Solishtirildi(a, bosqich + 1, s, tp, td)
<1>. DEFINE n == bosqich + 1
<1>1. /\ BTuri /\ BTypeOK /\ BirinchiBlok /\ ZonaTogri /\ Oraliqda /\ n \in 1..4
      /\ bosqich \in 0..4
  BY DEF BInv, BTuri, ZanjirInv
<1>2. {"asosiy", "ikkilik", "alternativ"} \subseteq Yuruvchilar \ {"kuzatuv"}
  BY DEF Yuruvchilar
<1>3. Yuradi("asosiy")
  <2>1. U("alternativ") = 0 /\ U("asosiy") <= bosqich  BY <1>1, <1>2, YuradiL DEF BTuri
  <2>2. U("asosiy") # 4
    <3>1. U("asosiy") \in 0..4  BY <1>1, <1>2 DEF BTuri, YuruvchiTuri, U
    <3>. QED  BY <1>1, <2>1, <3>1
  <2>3. U("asosiy") = 0  BY <1>1, <2>1, <2>2 DEF Oraliqda
  <2>. QED  BY <1>2, <2>3, YuradiL
<1>4. PICK a : a = Asl("alternativ", n, s, td)  OBVIOUS
<1>5. a \in BlokTuri /\ a.kam = 1 /\ a.tosiq = (n = 1 /\ tosiq)
  BY <1>2, <1>4, AslTuriL
<1>6. Z("alternativ") = "fibonacci" => Asl("asosiy", n, s, td) = a
  <2>1. bosqich >= 1 => B("alternativ", 1) = B("asosiy", 1)  BY <1>1 DEF BirinchiBlok
  <2>2. Z("asosiy") = "fibonacci"  BY <1>1 DEF ZonaTogri
  <2>. QED  BY <1>2, <1>3, <1>4, <2>1, <2>2, BirXilAslL
<1>7. Yuradi("ikkilik") => Asl("ikkilik", n, s, td) = a
  <2>. SUFFICES ASSUME Yuradi("ikkilik") PROVE Asl("ikkilik", n, s, td) = a  OBVIOUS
  <2>1. ASSUME bosqich >= 1
        PROVE  olchanmadi(B("ikkilik", 1)) <=> olchanmadi(B("alternativ", 1))
    <3>1. B("alternativ", 1) \in BlokTuri  BY <1>2, <2>1, BirinchiOtganL
    <3>2. B("ikkilik", 1) = [B("alternativ", 1) EXCEPT !.kam = 2]
      BY <1>1, <2>1 DEF BirinchiBlok
    <3>3. B("ikkilik", 1).ha = B("alternativ", 1).ha /\ B("ikkilik", 1).yoq = B("alternativ", 1).yoq
      BY <3>1, <3>2 DEF BlokTuri
    <3>. QED  BY <3>3 DEF olchanmadi, maxraj
  <2>2. Z("ikkilik") = Z("alternativ")
    <3>1. U("ikkilik") = 0  BY <1>2, YuradiL
    <3>. QED  BY <1>1, <3>1 DEF ZonaTogri
  <2>. QED  BY <1>2, <1>4, <2>1, <2>2, BirXilAslL
<1>8. a.ha + a.yoq <= 4
  <2>1. PICK x \in BlokTuri : x = Korgan("alternativ", n, s, td)  BY <1>1, KorganL
  <2>2. (n # 4 => x.ha + x.yoq <= 4) /\ (n = 4 => x.ha + x.yoq <= 3)  BY <1>1, <2>1, KorganL
  <2>3. a = (IF n = 4 /\ ~olchanmadi(B("alternativ", 1)) THEN [x EXCEPT !.ha = @ + 1] ELSE x)
    BY <1>2, <1>4, <2>1, ToAslL
  <2>4. x.ha \in Nat /\ x.yoq \in Nat  BY DEF BlokTuri
  <2>5. CASE n = 4 /\ ~olchanmadi(B("alternativ", 1))
    <3>1. a.ha = x.ha + 1 /\ a.yoq = x.yoq  BY <2>3, <2>5 DEF BlokTuri
    <3>. QED  BY <2>2, <2>4, <2>5, <3>1
  <2>6. CASE ~(n = 4 /\ ~olchanmadi(B("alternativ", 1)))
    <3>1. a = x  BY <2>3, <2>6
    <3>. QED  BY <2>2, <2>4, <3>1
  <2>. QED  BY <2>5, <2>6
<1>9. /\ blok_sozla("asosiy", n, a) = a /\ blok_sozla("alternativ", n, a) = a
      /\ blok_sozla("ikkilik", n, a) = [a EXCEPT !.kam = 2]
  BY <1>5, SozlaL
<1>10. /\ "asosiy" \notin Alternativli /\ "ikkilik" \notin Alternativli
       /\ "alternativ" \in Alternativli
  BY DEF Alternativli
<1>11. Z("alternativ") = "fibonacci" => YBlok("asosiy", n, s, tp, td) = a
  BY <1>6, <1>9, <1>10, BlokYasashL
<1>12. Blok("alternativ", n, s, td) = a  BY <1>4, <1>9, BlokAslL
<1>13. YBlok("alternativ", n, s, tp, td) =
          (IF n > 1 THEN Qutqarilgan(a, AltBor("alternativ", n, tp)) ELSE a)
  BY <1>4, <1>9, <1>10, BlokYasashL
<1>14. Yuradi("ikkilik") => YBlok("ikkilik", n, s, tp, td) = [a EXCEPT !.kam = 2]
  BY <1>7, <1>9, <1>10, BlokYasashL
<1>. HIDE DEF n
<1>15. Solishtirildi(a, n, s, tp, td)
  BY <1>4, <1>5, <1>8, <1>11, <1>12, <1>13, <1>14 DEF Solishtirildi
<1>. QED  BY <1>3, <1>5, <1>15 DEF n

\* The shadow's block, from the checks it has.
LEMMA SoyaBloklL ==
  ASSUME BInv, bosqich < 4, NEW s \in Sanoqlar, NEW tp, NEW td, Yuradi("soya"),
         NEW a, a = Asl("soya", bosqich + 1, s, td)
  PROVE  /\ a \in BlokTuri /\ a.kam = 1 /\ a.tosiq = (bosqich + 1 = 1 /\ tosiq)
         /\ \E d \in BlokTuri, v \in BOOLEAN :
               /\ d = (IF bosqich + 1 = ochirilgan.blok THEN Ochirilgani(a) ELSE a)
               /\ d.kam = 1
               /\ v <=> AltBor("soya", bosqich + 1, tp)
               /\ YBlok("soya", bosqich + 1, s, tp, td) =
                     (IF bosqich + 1 > 1 THEN Qutqarilgan(d, v) ELSE d)
<1>. DEFINE n == bosqich + 1
<1>1. BTuri /\ "soya" \in Yuruvchilar /\ "soya" \in Alternativli
  BY DEF BInv, Yuruvchilar, Alternativli
<1>2. a \in BlokTuri /\ a.kam = 1 /\ a.tosiq = (n = 1 /\ tosiq)  BY <1>1, AslTuriL
<1>3. Ochirilgani(a) \in BlokTuri /\ Ochirilgani(a).kam = 1  BY <1>1, <1>2, OchirilganL
<1>4. PICK d : d = (IF n = ochirilgan.blok THEN Ochirilgani(a) ELSE a)  OBVIOUS
<1>5. d \in BlokTuri /\ d.kam = 1  BY <1>2, <1>3, <1>4
<1>6. blok_sozla("soya", n, a) = d  BY <1>2, <1>4, SozlaL
<1>7. PICK v \in BOOLEAN : v = AltBor("soya", n, tp)  BY DEF AltBor
<1>8. YBlok("soya", n, s, tp, td) = (IF n > 1 THEN Qutqarilgan(d, v) ELSE d)
  BY <1>1, <1>6, <1>7, BlokYasashL
<1>. QED  BY <1>2, <1>4, <1>5, <1>7, <1>8

------------------------------------------------------------------------------
(* The step.                                                                    *)

\* Of who walks: where it is broken off now, and its zone.
LEMMA UzilishL ==
  ASSUME BInv, oquvchi = "zanjir", NEW s \in Sanoqlar, NEW tp, NEW td, Qadami(s, tp, td),
         NEW y \in Yuruvchilar \ {"kuzatuv"}
  PROVE  /\ U(y) # 0 => U(y)' = U(y) /\ Z(y)' = Z(y)
         /\ U(y) = 0 => /\ Yuradi(y)
                        /\ otdi(YBlok(y, bosqich + 1, s, tp, td)) => U(y)' = 0
                        /\ ~otdi(YBlok(y, bosqich + 1, s, tp, td)) => U(y)' = bosqich + 1
                        /\ Z(y)' = YZona(y, bosqich + 1, s, tp, td)
<1>1. Yuradi(y) <=> U(y) = 0  BY YuradiL
<1>2. U(y) # 0 => zanjir'[y] = zanjir[y]  BY <1>1, NatijaL
<1>3. U(y) = 0 => /\ U(y)' = Uzilish(y, bosqich + 1, YBlok(y, bosqich + 1, s, tp, td))
                  /\ Z(y)' = YZona(y, bosqich + 1, s, tp, td)
  BY <1>1, NatijaL DEF U, Z
<1>4. U(y) # 0 => U(y)' = U(y) /\ Z(y)' = Z(y)  BY <1>2 DEF U, Z
<1>. QED  BY <1>1, <1>3, <1>4 DEF Uzilish

\* Only the third block gives a zone.
LEMMA ZonaTurganL ==
  ASSUME BInv, oquvchi = "zanjir", NEW s \in Sanoqlar, NEW tp, NEW td, Qadami(s, tp, td),
         NEW y \in Yuruvchilar \ {"kuzatuv"}, bosqich # 2 \/ y \notin Alternativli
  PROVE  Z(y)' = Z(y)
<1>1. CASE U(y) # 0  BY <1>1, UzilishL
<1>2. CASE U(y) = 0
  <2>1. Z(y)' = YZona(y, bosqich + 1, s, tp, td)  BY <1>2, UzilishL
  <2>2. bosqich \in 0..4  BY DEF BInv, BTuri
  <2>3. bosqich + 1 # 3 \/ y \notin Alternativli  BY <2>2
  <2>. QED  BY <2>1, <2>3, ZonaL DEF YZona, BInv
<1>. QED  BY <1>1, <1>2

LEMMA BTuriSaqlanadiL ==
  ASSUME BInv, NEW s \in Sanoqlar, NEW tp, NEW td, Qadami(s, tp, td)
  PROVE  BTuri' /\ KuzatuvUzilmaydi' /\ (oquvchi = "zanjir" => BTypeOK')
<1>1. /\ BTuri /\ KuzatuvUzilmaydi /\ bosqich \in 0..3 /\ bosqich' = bosqich + 1
      /\ tosiq' = tosiq /\ oquvchi' = oquvchi /\ ochirilgan' = ochirilgan /\ otadi' = otadi
  BY DEF BInv, BTuri, Qadami
<1>2. "kuzatuv" \in Yuruvchilar  BY DEF Yuruvchilar
<1>3. \A y \in Yuruvchilar : zanjir'[y] \in YuruvchiTuri
  <2>. SUFFICES ASSUME NEW y \in Yuruvchilar PROVE zanjir'[y] \in YuruvchiTuri  OBVIOUS
  <2>1. CASE Yuradi(y)  BY <2>1, NatijaL
  <2>2. CASE ~Yuradi(y)  BY <1>1, <2>2, NatijaL DEF BTuri
  <2>. QED  BY <2>1, <2>2
<1>4. U("kuzatuv")' = 0
  <2>1. U("kuzatuv") = 0  BY <1>1 DEF BTuri
  <2>2. CASE Yuradi("kuzatuv")  BY <1>2, <2>2, NatijaL DEF U, Uzilish
  <2>3. CASE ~Yuradi("kuzatuv")  BY <1>2, <2>1, <2>3, NatijaL DEF U
  <2>. QED  BY <2>2, <2>3
<1>5. \A y \in Yuruvchilar : U(y)' <= bosqich'
  <2>. SUFFICES ASSUME NEW y \in Yuruvchilar PROVE U(y)' <= bosqich'  OBVIOUS
  <2>1. U(y) <= bosqich /\ U(y) \in 0..4  BY <1>1 DEF BTuri, YuruvchiTuri, U
  <2>2. U(y)' \in {U(y), 0, bosqich + 1}
    <3>1. CASE Yuradi(y)  BY <3>1, NatijaL DEF U, Uzilish
    <3>2. CASE ~Yuradi(y)  BY <3>2, NatijaL DEF U
    <3>. QED  BY <3>1, <3>2
  <2>. QED  BY <1>1, <2>1, <2>2
<1>6. BTuri'  BY <1>1, <1>3, <1>4, <1>5 DEF BTuri
<1>7. ASSUME oquvchi = "zanjir" PROVE BTypeOK'
  <2>. SUFFICES ASSUME NEW y \in Yuruvchilar \ {"kuzatuv"}
                PROVE  /\ Len(zanjir'[y].bloklar) =
                             IF zanjir'[y].uzildi = 0 THEN bosqich' ELSE zanjir'[y].uzildi
                       /\ \A k \in 1..Len(zanjir'[y].bloklar) :
                             otdi(zanjir'[y].bloklar[k]) <=> k # zanjir'[y].uzildi
                       /\ zanjir'[y].zona \in Manbalar
    BY <1>1, <1>7 DEF BTypeOK, otdi, olchanmadi, maxraj
  <2>1. /\ Len(zanjir[y].bloklar) = IF zanjir[y].uzildi = 0 THEN bosqich ELSE zanjir[y].uzildi
        /\ \A k \in 1..Len(zanjir[y].bloklar) : otdi(zanjir[y].bloklar[k]) <=> k # zanjir[y].uzildi
    <3>1. BTypeOK  BY <1>7 DEF BInv, ZanjirInv
    <3>. QED  BY <1>7, <3>1 DEF BTypeOK
  <2>2. zanjir'[y].zona \in Manbalar  BY <1>3 DEF YuruvchiTuri
  <2>3. CASE ~Yuradi(y)
    <3>1. zanjir'[y] = zanjir[y] /\ zanjir[y].uzildi # 0  BY <1>7, <2>3, NatijaL DEF Yuradi
    <3>. QED  BY <2>1, <2>2, <3>1
  <2>4. CASE Yuradi(y)
    <3>. DEFINE n == bosqich + 1
                b == YBlok(y, n, s, tp, td)
    <3>1. /\ zanjir[y].uzildi = 0 /\ Len(zanjir[y].bloklar) = bosqich
          /\ Len(zanjir'[y].bloklar) = n
          /\ \A k \in 1..bosqich : zanjir'[y].bloklar[k] = zanjir[y].bloklar[k]
          /\ zanjir'[y].bloklar[n] = b
      BY <2>4, NatijaL DEF Yuradi, L, B
    <3>2. zanjir'[y].uzildi = (IF otdi(b) THEN 0 ELSE n)
      BY <2>4, NatijaL DEF Uzilish
    <3>3. \A k \in 1..bosqich : otdi(zanjir'[y].bloklar[k])
      BY <1>1, <2>1, <3>1
    <3>4. \A k \in 1..n : k = n \/ (k \in 1..bosqich /\ k # n /\ k # 0)  BY <1>1
    <3>5. n # 0  BY <1>1
    <3>6. bosqich' = n  BY <1>1
    <3>. HIDE DEF b, n
    <3>7. ASSUME NEW k \in 1..n PROVE otdi(zanjir'[y].bloklar[k]) <=> k # zanjir'[y].uzildi
      <4>1. CASE k = n  BY <3>1, <3>2, <3>5, <4>1
      <4>2. CASE k # n
        <5>1. k \in 1..bosqich /\ k # 0  BY <3>4, <4>2
        <5>. QED  BY <3>2, <3>3, <4>2, <5>1
      <4>. QED  BY <4>1, <4>2
    <3>8. Len(zanjir'[y].bloklar) = (IF zanjir'[y].uzildi = 0 THEN n ELSE zanjir'[y].uzildi)
      BY <3>1, <3>2, <3>5
    <3>. QED  BY <2>2, <3>1, <3>6, <3>7, <3>8
  <2>. QED  BY <2>3, <2>4
<1>8. KuzatuvUzilmaydi'
  <2>1. U("kuzatuv") = 0  BY <1>1 DEF BTuri
  <2>2. Yuradi("kuzatuv") <=> oquvchi = "kuzatuv" /\ otadi  BY <2>1 DEF Yuradi, U
  <2>3. CASE oquvchi = "kuzatuv" /\ otadi
    <3>1. Len(zanjir'["kuzatuv"].bloklar) = bosqich + 1  BY <1>2, <2>2, <2>3, NatijaL
    <3>. QED  BY <1>1, <2>3, <3>1 DEF KuzatuvUzilmaydi
  <2>4. CASE ~(oquvchi = "kuzatuv" /\ otadi)
    <3>1. zanjir'["kuzatuv"] = zanjir["kuzatuv"]  BY <1>2, <2>2, <2>4, NatijaL
    <3>. QED  BY <1>1, <2>4, <3>1 DEF KuzatuvUzilmaydi
  <2>. QED  BY <2>3, <2>4
<1>. QED  BY <1>6, <1>7, <1>8

LEMMA BirinchiSaqlanadiL ==
  ASSUME BInv, oquvchi = "zanjir", NEW s \in Sanoqlar, NEW tp, NEW td, Qadami(s, tp, td)
  PROVE  BirinchiBlok'
<1>1. /\ BTuri /\ BirinchiBlok /\ ZonaTogri /\ bosqich \in 0..3 /\ bosqich' = bosqich + 1
      /\ bosqich < 4 /\ (bosqich + 1 = 4 => s.ha + s.yoq \in 1..2)
      /\ tosiq' = tosiq /\ ochirilgan' = ochirilgan /\ otadi' = otadi
  BY DEF BInv, BTuri, Qadami, ZanjirInv
<1>2. {"asosiy", "ikkilik", "alternativ", "soya"} \subseteq Yuruvchilar \ {"kuzatuv"}
  BY DEF Yuruvchilar
<1>3. CASE bosqich = 0
  <2>1. \A y \in Yuruvchilar : U(y) = 0
    <3>1. \A y \in Yuruvchilar : U(y) \in 0..4 /\ U(y) <= 0
      BY <1>1, <1>3 DEF BTuri, YuruvchiTuri, U
    <3>. QED  BY <3>1
  <2>2. \A y \in Yuruvchilar \ {"kuzatuv"} : Yuradi(y)  BY <2>1, YuradiL
  <2>3. \A y \in Yuruvchilar : Yuradi(y) => B(y, 1)' = YBlok(y, 1, s, tp, td)
    BY <1>3, NatijaL DEF B
  <2>4. PICK a \in BlokTuri : Solishtirildi(a, bosqich + 1, s, tp, td)
    BY <1>1, <1>2, <2>2, SolishtirL
  <2>5. Z("alternativ") = "fibonacci"  BY <1>1, <1>3 DEF ZonaTogri
  <2>6. Solishtirildi(a, 1, s, tp, td)  BY <1>3, <2>4
  <2>7. /\ a.kam = 1 /\ a.tosiq = (1 = 1 /\ tosiq)
        /\ a = Asl("alternativ", 1, s, td)
        /\ YBlok("asosiy", 1, s, tp, td) = a
        /\ YBlok("alternativ", 1, s, tp, td) = a
        /\ YBlok("ikkilik", 1, s, tp, td) = [a EXCEPT !.kam = 2]
    BY <1>2, <2>2, <2>5, <2>6 DEF Solishtirildi
  <2>8. /\ B("asosiy", 1)' = a /\ B("alternativ", 1)' = a
        /\ B("ikkilik", 1)' = [a EXCEPT !.kam = 2]
    BY <1>2, <2>2, <2>3, <2>7
  <2>9. Asl("soya", bosqich + 1, s, td) = a  BY <1>3, <2>7 DEF Asl
  <2>10. PICK d \in BlokTuri :
           /\ d = (IF 1 = ochirilgan.blok THEN Ochirilgani(a) ELSE a)
           /\ YBlok("soya", 1, s, tp, td) = d
    BY <1>1, <1>2, <1>3, <2>2, <2>9, SoyaBloklL
  <2>11. B("soya", 1)' = (IF ochirilgan.blok = 1 THEN Ochirilgani(a) ELSE a)
    BY <1>2, <2>2, <2>3, <2>10
  <2>12. a.tosiq = tosiq
    <3>1. tosiq \in BOOLEAN  BY <1>1 DEF BTuri
    <3>. QED  BY <2>7, <3>1
  <2>13. Ochirilgani(B("asosiy", 1))' = Ochirilgani(a)  BY <1>1, <2>8 DEF Ochirilgani
  <2>. QED  BY <1>1, <2>7, <2>8, <2>11, <2>12, <2>13 DEF BirinchiBlok
<1>4. CASE bosqich >= 1
  <2>1. \A y \in Yuruvchilar : B(y, 1)' = B(y, 1)
    <3>1. 1 \in 1..bosqich  BY <1>1, <1>4
    <3>2. \A y \in Yuruvchilar : Yuradi(y) => B(y, 1)' = B(y, 1)  BY <3>1, NatijaL DEF B
    <3>3. \A y \in Yuruvchilar : ~Yuradi(y) => B(y, 1)' = B(y, 1)  BY NatijaL DEF B
    <3>. QED  BY <3>2, <3>3
  <2>2. Ochirilgani(B("asosiy", 1))' = Ochirilgani(B("asosiy", 1))
    BY <1>1, <1>2, <2>1 DEF Ochirilgani
  <2>. QED  BY <1>1, <1>2, <1>4, <2>1, <2>2 DEF BirinchiBlok
<1>. QED  BY <1>1, <1>3, <1>4

\* The fourth block has the first one's vote, where the first was measured.
LEMMA TasdiqSaqlanadiL ==
  ASSUME BInv, oquvchi = "zanjir", NEW s \in Sanoqlar, NEW tp, NEW td, Qadami(s, tp, td)
  PROVE  TasdiqBepulOvoz'
<1>1. /\ BTuri /\ BirinchiBlok /\ TasdiqBepulOvoz
      /\ bosqich \in 0..3 /\ bosqich' = bosqich + 1 /\ bosqich < 4
      /\ \A y \in Yuruvchilar : U(y) <= bosqich /\ U(y) \in 0..4
  BY DEF BInv, BTuri, YuruvchiTuri, Qadami, U, ZanjirInv
<1>2. "asosiy" \in Yuruvchilar \ {"kuzatuv"} /\ "asosiy" \notin {"soya", "ikkilik"}
      /\ "asosiy" \notin Alternativli
  BY DEF Yuruvchilar, Alternativli
<1>. SUFFICES ASSUME U("asosiy")' = 4 PROVE olchanmadi(B("asosiy", 1)')
  BY DEF TasdiqBepulOvoz, U, B, olchanmadi, maxraj
<1>3. U("asosiy") = 0 /\ bosqich = 3
  <2>1. U("asosiy") # 4  BY <1>1, <1>2
  <2>2. U("asosiy") = 0  BY <1>2, <2>1, UzilishL
  <2>3. U("asosiy")' \in {0, bosqich + 1}  BY <1>2, <2>2, UzilishL
  <2>. QED  BY <1>1, <2>2, <2>3
<1>4. Yuradi("asosiy") /\ ~otdi(YBlok("asosiy", 4, s, tp, td))
  <2>1. /\ Yuradi("asosiy")
        /\ otdi(YBlok("asosiy", bosqich + 1, s, tp, td)) => U("asosiy")' = 0
    BY <1>2, <1>3, UzilishL
  <2>. QED  BY <1>3, <2>1
<1>5. B("asosiy", 1)' = B("asosiy", 1)
  <2>1. 1 \in 1..bosqich  BY <1>3
  <2>. QED  BY <1>2, <1>4, <2>1, NatijaL DEF B
<1>. SUFFICES ASSUME ~olchanmadi(B("asosiy", 1)) PROVE FALSE  BY <1>5
<1>6. PICK x \in BlokTuri : x = Korgan("asosiy", 4, s, td) /\ x.kam = 1 /\ x.tosiq = FALSE
  <2>1. 4 \in 1..4 /\ 4 # 1  OBVIOUS
  <2>. QED  BY <1>1, <2>1, KorganL
<1>7. Asl("asosiy", 4, s, td) = [x EXCEPT !.ha = @ + 1]
  BY <1>1, <1>2, <1>3, <1>4, <1>6, ToAslL
<1>8. PICK a \in BlokTuri : a = [x EXCEPT !.ha = @ + 1]
  <2>1. x = [ha |-> x.ha, yoq |-> x.yoq, tosiq |-> x.tosiq, kam |-> x.kam] /\ x.ha + 1 \in Nat
    BY DEF BlokTuri
  <2>2. [x EXCEPT !.ha = @ + 1] = [ha |-> x.ha + 1, yoq |-> x.yoq, tosiq |-> x.tosiq, kam |-> x.kam]
    BY <2>1
  <2>3. [x EXCEPT !.ha = @ + 1] \in BlokTuri  BY <2>1, <2>2 DEF BlokTuri
  <2>. QED  BY <2>3
<1>9. a.ha = x.ha + 1 /\ a.kam = 1 /\ a.tosiq = FALSE  BY <1>6, <1>8 DEF BlokTuri
<1>10. YBlok("asosiy", 4, s, tp, td) = a
  <2>1. Asl("asosiy", 4, s, td) = a  BY <1>7, <1>8
  <2>2. blok_sozla("asosiy", 4, a) = a  BY <1>2, <1>9, SozlaL
  <2>. QED  BY <1>2, <2>1, <2>2, BlokYasashL
<1>11. Yetarli(a)
  <2>1. x.ha \in Nat  BY DEF BlokTuri
  <2>. QED  BY <1>9, <2>1 DEF Yetarli
<1>. QED  BY <1>4, <1>9, <1>10, <1>11, OtdiL

\* The alternative chain, the strategy's and "two of four", a step on.
LEMMA OraliqdaSaqlanadiL ==
  ASSUME BInv, oquvchi = "zanjir", NEW s \in Sanoqlar, NEW tp, NEW td, Qadami(s, tp, td)
  PROVE  Oraliqda' /\ IshonchHozir' /\ ZonaTogri'
<1>1. /\ BTuri /\ BTypeOK /\ Oraliqda /\ IshonchHozir /\ ZonaTogri
      /\ bosqich \in 0..3 /\ bosqich' = bosqich + 1
      /\ bosqich < 4 /\ (bosqich + 1 = 4 => s.ha + s.yoq \in 1..2)
  BY DEF BInv, BTuri, Qadami, ZanjirInv
<1>2. {"asosiy", "ikkilik", "alternativ", "soya"} \subseteq Yuruvchilar \ {"kuzatuv"}
  BY DEF Yuruvchilar
<1>3. /\ Z("asosiy")' = "fibonacci" /\ Z("ikkilik")' = "fibonacci"
      /\ bosqich' < 3 => Z("alternativ")' = "fibonacci" /\ Z("soya")' = "fibonacci"
  <2>1. "asosiy" \notin Alternativli /\ "ikkilik" \notin Alternativli  BY DEF Alternativli
  <2>2. Z("asosiy")' = Z("asosiy") /\ Z("ikkilik")' = Z("ikkilik")
    BY <1>2, <2>1, ZonaTurganL
  <2>3. ASSUME bosqich' < 3
        PROVE  Z("alternativ")' = "fibonacci" /\ Z("soya")' = "fibonacci"
    <3>1. bosqich # 2 /\ bosqich < 3  BY <1>1, <2>3
    <3>2. Z("alternativ")' = Z("alternativ") /\ Z("soya")' = Z("soya")
      BY <1>2, <3>1, ZonaTurganL
    <3>. QED  BY <1>1, <3>1, <3>2 DEF ZonaTogri
  <2>. QED  BY <1>1, <2>2, <2>3 DEF ZonaTogri
<1>4. CASE U("alternativ") # 0
  <2>1. U("alternativ")' # 0 /\ Z("alternativ")' = Z("alternativ")  BY <1>2, <1>4, UzilishL
  <2>2. U("ikkilik") # 0 /\ U("ikkilik")' # 0
    <3>1. U("ikkilik") # 0  BY <1>1, <1>4 DEF Oraliqda
    <3>. QED  BY <1>2, <3>1, UzilishL
  <2>3. Oraliqda'  BY <2>1, <2>2 DEF Oraliqda
  <2>4. IshonchHozir'  BY <2>1 DEF IshonchHozir
  <2>5. ZonaTogri'  BY <1>3, <2>2 DEF ZonaTogri
  <2>. QED  BY <2>3, <2>4, <2>5
<1>5. CASE U("alternativ") = 0
  <2>1. Yuradi("alternativ")  BY <1>2, <1>5, YuradiL
  <2>2. Yuradi("asosiy")  BY <1>1, <2>1, SolishtirL
  <2>3. U("asosiy") = 0  BY <1>2, <2>2, YuradiL
  <2>4. PICK a \in BlokTuri : Solishtirildi(a, bosqich + 1, s, tp, td)
    BY <1>1, <2>1, SolishtirL
  <2>5. PICK v \in BOOLEAN : v = AltBor("alternativ", bosqich + 1, tp)  BY DEF AltBor
  <2>6. /\ a.kam = 1 /\ a.ha + a.yoq <= 4
        /\ Blok("alternativ", bosqich + 1, s, td) = a
        /\ Z("alternativ") = "fibonacci" => YBlok("asosiy", bosqich + 1, s, tp, td) = a
        /\ YBlok("alternativ", bosqich + 1, s, tp, td) =
              (IF bosqich + 1 > 1 THEN Qutqarilgan(a, v) ELSE a)
        /\ Yuradi("ikkilik") =>
              YBlok("ikkilik", bosqich + 1, s, tp, td) = [a EXCEPT !.kam = 2]
    BY <2>4, <2>5 DEF Solishtirildi
  <2>7. PICK q : q = YBlok("alternativ", bosqich + 1, s, tp, td)  OBVIOUS
  <2>8. /\ otdi(q) => otdi(a)
        /\ otdi([a EXCEPT !.kam = 2]) => otdi(q) /\ ~blok_tasnifi_zaif(a)
        /\ otdi(q) /\ bosqich >= 1 => Ishonchli(q)
    <3>1. /\ otdi(Qutqarilgan(a, v)) => otdi(a)
          /\ otdi([a EXCEPT !.kam = 2]) => otdi(a) /\ otdi(Qutqarilgan(a, v))
          /\ otdi(Qutqarilgan(a, v)) /\ a.ha + a.yoq <= 4 => Ishonchli(Qutqarilgan(a, v))
          /\ otdi([a EXCEPT !.kam = 2]) => ~blok_tasnifi_zaif(a)
      BY <2>6, QattiqlikL
    <3>2. CASE bosqich + 1 > 1  BY <2>6, <2>7, <3>1, <3>2
    <3>3. CASE ~(bosqich + 1 > 1)
      <4>1. ~(bosqich >= 1)  BY <1>1, <3>3
      <4>2. q = a  BY <2>6, <2>7, <3>3
      <4>. QED  BY <3>1, <4>1, <4>2
    <3>. QED  BY <3>2, <3>3
  <2>9. /\ otdi(q) => U("alternativ")' = 0
        /\ ~otdi(q) => U("alternativ")' = bosqich + 1
        /\ Z("alternativ")' = YZona("alternativ", bosqich + 1, s, tp, td)
    BY <1>2, <1>5, <2>7, UzilishL
  <2>10. U("alternativ")' = 0 <=> otdi(q)  BY <1>1, <2>9
\* "Two of four" goes on only over a block that was not weak.
  <2>11. ASSUME U("ikkilik")' = 0
         PROVE  otdi(q) /\ Z("alternativ")' = "fibonacci"
    <3>1. U("ikkilik") = 0  BY <1>2, <2>11, UzilishL
    <3>2. Yuradi("ikkilik")  BY <1>2, <3>1, YuradiL
    <3>3. YBlok("ikkilik", bosqich + 1, s, tp, td) = [a EXCEPT !.kam = 2]  BY <2>6, <3>2
    <3>4. ~otdi([a EXCEPT !.kam = 2]) => U("ikkilik")' = bosqich + 1
      BY <1>2, <3>1, <3>3, UzilishL
    <3>5. otdi([a EXCEPT !.kam = 2])
      <4>1. bosqich + 1 # 0  BY <1>1
      <4>. QED  BY <2>11, <3>4, <4>1
    <3>6. ~blok_tasnifi_zaif(a)  BY <2>8, <3>5
    <3>7. YZona("alternativ", bosqich + 1, s, tp, td) = Z("alternativ")
      BY <1>1, <1>2, <2>6, <3>6, ZonaL DEF YZona
    <3>8. Z("alternativ") = "fibonacci"  BY <1>1, <3>1 DEF ZonaTogri
    <3>. QED  BY <2>8, <2>9, <3>5, <3>7, <3>8
  <2>12. ASSUME U("asosiy")' # 0, U("alternativ")' = 0
         PROVE  /\ U("asosiy")' = 4 /\ Z("alternativ")' # "fibonacci"
                /\ olchanmadi(B("asosiy", 1))'
    <3>1. Z("alternativ") # "fibonacci"
      <4>. SUFFICES ASSUME Z("alternativ") = "fibonacci" PROVE FALSE  OBVIOUS
      <4>1. YBlok("asosiy", bosqich + 1, s, tp, td) = a  BY <2>6
      <4>2. otdi(a)  BY <2>8, <2>10, <2>12
      <4>. QED  BY <1>2, <2>3, <2>12, <4>1, <4>2, UzilishL
    <3>2. bosqich = 3  BY <1>1, <3>1 DEF ZonaTogri
    <3>3. U("asosiy")' \in {0, bosqich + 1}  BY <1>2, <2>3, UzilishL
    <3>4. U("asosiy")' = 4  BY <2>12, <3>2, <3>3
    <3>5. TasdiqBepulOvoz'  BY TasdiqSaqlanadiL
    <3>6. olchanmadi(B("asosiy", 1))'  BY <3>4, <3>5 DEF TasdiqBepulOvoz, U, B
    <3>7. Z("alternativ")' = Z("alternativ")
      <4>1. bosqich # 2  BY <3>2
      <4>. QED  BY <1>2, <4>1, ZonaTurganL
    <3>. QED  BY <3>1, <3>4, <3>6, <3>7
  <2>13. Oraliqda'  BY <2>10, <2>11, <2>12 DEF Oraliqda
  <2>14. IshonchHozir'
    <3>. SUFFICES ASSUME U("alternativ")' = 0, NEW n \in 2..bosqich'
                  PROVE  Ishonchli(B("alternativ", n)')
      BY DEF IshonchHozir, Ishonchli
    <3>1. \A k \in 1..bosqich : B("alternativ", k)' = B("alternativ", k)
      BY <1>2, <2>1, NatijaL DEF B
    <3>2. zanjir'["alternativ"].bloklar[bosqich + 1] = q  BY <1>2, <2>1, <2>7, NatijaL
    <3>3. CASE n = bosqich + 1
      <4>1. bosqich >= 1  BY <1>1, <3>3
      <4>2. B("alternativ", n)' = q  BY <3>2, <3>3 DEF B
      <4>. QED  BY <2>8, <2>10, <4>1, <4>2
    <3>4. CASE n # bosqich + 1
      <4>1. n \in 2..bosqich /\ n \in 1..bosqich  BY <1>1, <3>4
      <4>2. Ishonchli(B("alternativ", n))  BY <1>1, <1>5, <4>1 DEF IshonchHozir
      <4>3. B("alternativ", n)' = B("alternativ", n)  BY <3>1, <4>1
      <4>. QED  BY <4>2, <4>3
    <3>. QED  BY <3>3, <3>4
  <2>15. ZonaTogri'  BY <1>3, <2>11 DEF ZonaTogri
  <2>. QED  BY <2>13, <2>14, <2>15
<1>. QED  BY <1>4, <1>5

\* The shadow, a step on.
LEMMA SoyadaSaqlanadiL ==
  ASSUME BInv, oquvchi = "zanjir", NEW s \in Sanoqlar, NEW tp, NEW td, Qadami(s, tp, td)
  PROVE  Soyada'
<1>1. /\ BTuri /\ BTypeOK /\ Soyada /\ BirinchiBlok /\ ZonaTogri
      /\ bosqich \in 0..3 /\ bosqich' = bosqich + 1 /\ bosqich < 4
      /\ (bosqich + 1 = 4 => s.ha + s.yoq \in 1..2)
      /\ tosiq' = tosiq /\ ochirilgan' = ochirilgan /\ otadi' = otadi
      /\ tosiq \in BOOLEAN
  BY DEF BInv, BTuri, Qadami, ZanjirInv
<1>2. /\ {"soya", "alternativ"} \subseteq Yuruvchilar \ {"kuzatuv"}
      /\ U("soya") \in 0..4
  BY <1>1 DEF Yuruvchilar, BTuri, YuruvchiTuri, U
<1>. DEFINE n == bosqich + 1
            b == YBlok("soya", n, s, tp, td)
\* What the shadow's next block is, if it is made.
<1>3. ASSUME U("soya") = 0
      PROVE  \E a \in BlokTuri, d \in BlokTuri, v \in BOOLEAN :
                /\ a = Asl("soya", n, s, td) /\ a.kam = 1 /\ a.tosiq = (n = 1 /\ tosiq)
                /\ d = (IF n = ochirilgan.blok THEN Ochirilgani(a) ELSE a) /\ d.kam = 1
                /\ v <=> AltBor("soya", n, tp)
                /\ b = (IF n > 1 THEN Qutqarilgan(d, v) ELSE d)
                /\ d.tosiq = a.tosiq
  <2>1. Yuradi("soya")  BY <1>2, <1>3, UzilishL
  <2>2. PICK a : a = Asl("soya", n, s, td)  OBVIOUS
  <2>3. /\ a \in BlokTuri /\ a.kam = 1 /\ a.tosiq = (n = 1 /\ tosiq)
        /\ \E d \in BlokTuri, v \in BOOLEAN :
               /\ d = (IF n = ochirilgan.blok THEN Ochirilgani(a) ELSE a)
               /\ d.kam = 1
               /\ v <=> AltBor("soya", n, tp)
               /\ b = (IF n > 1 THEN Qutqarilgan(d, v) ELSE d)
    BY <1>1, <2>1, <2>2, SoyaBloklL
  <2>4. Ochirilgani(a).tosiq = a.tosiq  BY <1>1, <2>3, OchirilganL
  <2>. HIDE DEF n, b
  <2>. QED  BY <2>2, <2>3, <2>4
<1>4. ASSUME ochirilgan.nima = "yoq", U("alternativ")' = 0, Z("soya")' = Z("alternativ")'
      PROVE  U("soya")' = 0
  <2>1. U("alternativ") = 0 /\ otdi(YBlok("alternativ", n, s, tp, td))
    BY <1>1, <1>2, <1>4, UzilishL
  <2>2. Z("soya") = Z("alternativ")
    <3>1. CASE bosqich = 2  BY <1>1, <3>1 DEF ZonaTogri
    <3>2. CASE bosqich # 2
      <4>1. Z("soya")' = Z("soya") /\ Z("alternativ")' = Z("alternativ")
        BY <1>2, <3>2, ZonaTurganL
      <4>. QED  BY <1>4, <4>1
    <3>. QED  BY <3>1, <3>2
  <2>3. Yuradi("alternativ") /\ U("soya") = 0 /\ Yuradi("soya")
    <3>1. U("soya") = 0  BY <1>1, <1>4, <2>1, <2>2 DEF Soyada
    <3>. QED  BY <1>2, <2>1, <3>1, YuradiL
  <2>4. PICK a \in BlokTuri, d \in BlokTuri, v \in BOOLEAN :
                /\ a = Asl("soya", n, s, td) /\ a.kam = 1
                /\ d = (IF n = ochirilgan.blok THEN Ochirilgani(a) ELSE a) /\ d.kam = 1
                /\ v <=> AltBor("soya", n, tp)
                /\ b = (IF n > 1 THEN Qutqarilgan(d, v) ELSE d)
                /\ d.tosiq = a.tosiq
    BY <1>3, <2>3
  <2>5. v = AltBor("alternativ", n, tp)
    <3>1. n \in 1..4  BY <1>1
    <3>2. Golib("soya", n, tp) = Golib("alternativ", n, tp)  BY <1>1, <1>4, <3>1, GolibSoyaL
    <3>3. AltBor("soya", n, tp) = AltBor("alternativ", n, tp)  BY <3>2 DEF AltBor
    <3>4. AltBor("alternativ", n, tp) \in BOOLEAN  BY DEF AltBor
    <3>. HIDE DEF n
    <3>. QED  BY <2>4, <3>3, <3>4
  <2>6. ASSUME bosqich >= 1
        PROVE  olchanmadi(B("soya", 1)) <=> olchanmadi(B("alternativ", 1))
    <3>1. PICK e \in BlokTuri, f \in BlokTuri :
             /\ e = B("alternativ", 1) /\ f = B("soya", 1) /\ otdi(e) /\ otdi(f)
      BY <1>2, <2>3, <2>6, BirinchiOtganL
    <3>2. f = (IF ochirilgan.blok = 1 THEN Ochirilgani(e) ELSE e) /\ e.kam = 1
      BY <1>1, <2>6, <3>1 DEF BirinchiBlok
    <3>3. f.ha = e.ha /\ f.yoq <= e.yoq
      <4>1. CASE ochirilgan.blok = 1  BY <1>1, <1>4, <3>2, <4>1, OchirilganL
      <4>2. CASE ochirilgan.blok # 1  BY <3>2, <4>2 DEF BlokTuri
      <4>. QED  BY <4>1, <4>2
    <3>4. Yetarli(e)  BY <3>1, OtdiL
    <3>5. e.ha \in Nat /\ e.yoq \in Nat /\ f.yoq \in Nat  BY DEF BlokTuri
    <3>6. e.ha + e.yoq = 0 <=> f.ha + f.yoq = 0  BY <3>2, <3>3, <3>4, <3>5 DEF Yetarli
    <3>. QED  BY <3>1, <3>6, OtdiL
  <2>7. a = Asl("alternativ", n, s, td)
    <3>1. Asl("soya", bosqich + 1, s, td) = Asl("alternativ", bosqich + 1, s, td)
      BY <1>1, <1>2, <2>2, <2>3, <2>6, BirXilAslL
    <3>. QED  BY <2>4, <3>1
  <2>8. YBlok("alternativ", n, s, tp, td) = (IF n > 1 THEN Qutqarilgan(a, v) ELSE a)
    <3>1. PICK c \in BlokTuri : Solishtirildi(c, bosqich + 1, s, tp, td)
      BY <1>1, <2>3, SolishtirL
    <3>2. /\ c = Asl("alternativ", bosqich + 1, s, td)
          /\ YBlok("alternativ", bosqich + 1, s, tp, td) =
                (IF bosqich + 1 > 1 THEN Qutqarilgan(c, AltBor("alternativ", bosqich + 1, tp)) ELSE c)
      BY <3>1 DEF Solishtirildi
    <3>. QED  BY <2>5, <2>7, <3>2
  <2>9. d.ha = a.ha /\ d.yoq <= a.yoq
    <3>1. CASE n = ochirilgan.blok  BY <1>1, <1>4, <2>4, <3>1, OchirilganL
    <3>2. CASE n # ochirilgan.blok  BY <2>4, <3>2 DEF BlokTuri
    <3>. QED  BY <3>1, <3>2
  <2>. HIDE DEF n, b
  <2>10. (otdi(a) => otdi(d)) /\ (otdi(Qutqarilgan(a, v)) => otdi(Qutqarilgan(d, v)))
    BY <2>4, <2>9, KamRadL
  <2>11. otdi(b)
    <3>1. CASE n > 1  BY <2>1, <2>4, <2>8, <2>10, <3>1
    <3>2. CASE ~(n > 1)  BY <2>1, <2>4, <2>8, <2>10, <3>2
    <3>. QED  BY <3>1, <3>2
  <2>. QED  BY <1>2, <2>3, <2>11, UzilishL DEF b, n
<1>5. ASSUME ochirilgan.nima = "hammasi", ~tosiq
      PROVE  U("soya")' # ochirilgan.blok
  <2>0. ochirilgan.blok \in 1..4
    <3>1. "hammasi" \notin AltNomlari  BY AltNomL
    <3>2. ochirilgan \notin [blok : {0}, nima : AltNomlari]  BY <1>5, <3>1
    <3>3. ochirilgan \in [blok : 1..4, nima : {"ha", "yoq", "hammasi"}]
      BY <1>1, <3>2 DEF BTuri
    <3>. QED  BY <3>3
  <2>1. CASE U("soya") # 0
    <3>1. U("soya") # ochirilgan.blok  BY <1>1, <1>5 DEF Soyada
    <3>. QED  BY <1>2, <2>1, <3>1, UzilishL
  <2>2. CASE U("soya") = 0 /\ n # ochirilgan.blok
    <3>1. U("soya")' \in {0, n}  BY <1>2, <2>2, UzilishL
    <3>2. 0 # ochirilgan.blok  BY <2>0
    <3>. QED  BY <2>2, <3>1, <3>2
  <2>3. CASE U("soya") = 0 /\ n = ochirilgan.blok
    <3>1. PICK a \in BlokTuri, d \in BlokTuri, v \in BOOLEAN :
                /\ a = Asl("soya", n, s, td) /\ a.kam = 1 /\ a.tosiq = (n = 1 /\ tosiq)
                /\ d = (IF n = ochirilgan.blok THEN Ochirilgani(a) ELSE a) /\ d.kam = 1
                /\ b = (IF n > 1 THEN Qutqarilgan(d, v) ELSE d)
                /\ d.tosiq = a.tosiq
      BY <1>3, <2>3
    <3>2. d = Ochirilgani(a)  BY <2>3, <3>1
    <3>3. d.ha = 0 /\ d.yoq = 0  BY <1>1, <1>5, <3>2, OchirilganL
    <3>4. ~d.tosiq  BY <1>5, <3>1
    <3>5. Yetarli(d)  BY <3>3 DEF Yetarli
    <3>6. otdi(d)  BY <3>4, <3>5, OtdiL
    <3>7. Qutqarilgan(d, v) = d  BY <3>1, <3>3, QutqarL
    <3>8. otdi(b)  BY <3>1, <3>6, <3>7
    <3>9. U("soya")' = 0  BY <1>2, <2>3, <3>8, UzilishL
    <3>. QED  BY <2>0, <3>9
  <2>. QED  BY <2>1, <2>2, <2>3
<1>6. ASSUME tosiq PROVE U("soya")' = 1
  <2>1. CASE bosqich >= 1
    <3>1. U("soya") = 1  BY <1>1, <1>6, <2>1 DEF Soyada
    <3>. QED  BY <1>2, <3>1, UzilishL
  <2>2. CASE bosqich = 0
    <3>1. U("soya") = 0
      <4>1. U("soya") <= 0  BY <1>1, <1>2, <2>2 DEF BTuri
      <4>. QED  BY <1>2, <4>1
    <3>2. PICK a \in BlokTuri, d \in BlokTuri, v \in BOOLEAN :
                /\ a.tosiq = (n = 1 /\ tosiq)
                /\ b = (IF n > 1 THEN Qutqarilgan(d, v) ELSE d)
                /\ d.tosiq = a.tosiq
      BY <1>3, <3>1
    <3>3. n = 1  BY <2>2
    <3>4. b = d /\ d.tosiq
      <4>1. d.tosiq = (n = 1 /\ tosiq)  BY <3>2
      <4>2. (n = 1 /\ tosiq) = TRUE  BY <1>6, <3>3
      <4>3. ~(n > 1)  BY <3>3
      <4>. QED  BY <3>2, <4>1, <4>2, <4>3
    <3>5. ~otdi(b)  BY <3>4 DEF otdi
    <3>. QED  BY <1>2, <3>1, <3>3, <3>5, UzilishL
  <2>. QED  BY <1>1, <2>1, <2>2
<1>. HIDE DEF n, b
<1>. QED  BY <1>1, <1>4, <1>5, <1>6 DEF Soyada

LEMMA BBoshL ==
  ASSUME BInit PROVE BInv
<1>1. /\ tosiq \in BOOLEAN /\ otadi \in BOOLEAN /\ bosqich = 0
      /\ oquvchi \in {"zanjir", "kuzatuv"}
      /\ ochirilgan \in [blok : 1..4, nima : {"ha", "yoq", "hammasi"}] \cup
                          [blok : {0}, nima : AltNomlari]
      /\ zanjir = [y \in Yuruvchilar |-> [bloklar |-> <<>>, uzildi |-> 0, zona |-> "fibonacci"]]
  BY DEF BInit
<1>2. "kuzatuv" \in Yuruvchilar /\ "asosiy" \in Yuruvchilar /\ "alternativ" \in Yuruvchilar
      /\ "ikkilik" \in Yuruvchilar /\ "soya" \in Yuruvchilar
  BY DEF Yuruvchilar
<1>3. /\ <<>> \in Seq(BlokTuri) /\ Len(<<>>) = 0 /\ "fibonacci" \in Manbalar
      /\ \A y \in Yuruvchilar : /\ zanjir[y] = [bloklar |-> <<>>, uzildi |-> 0, zona |-> "fibonacci"]
                                /\ zanjir[y].bloklar = <<>> /\ U(y) = 0 /\ Z(y) = "fibonacci"
                                /\ zanjir[y].uzildi = 0 /\ zanjir[y].zona = "fibonacci"
  BY <1>1 DEF U, Z, Manbalar
<1>4. BTuri
  <2>1. 0 \in 0..4 /\ 0 <= 0  OBVIOUS
  <2>2. [bloklar |-> <<>>, uzildi |-> 0, zona |-> "fibonacci"] \in YuruvchiTuri
    <3>1. PICK q \in Seq(BlokTuri) : q = <<>>  BY <1>3
    <3>2. [bloklar |-> q, uzildi |-> 0, zona |-> "fibonacci"] \in YuruvchiTuri
      BY <1>3, <2>1 DEF YuruvchiTuri
    <3>. QED  BY <3>1, <3>2
  <2>3. \A y \in Yuruvchilar : zanjir[y] \in YuruvchiTuri  BY <1>3, <2>2
  <2>. QED  BY <1>1, <1>2, <1>3, <2>1, <2>3 DEF BTuri
<1>5. BTypeOK /\ KuzatuvUzilmaydi  BY <1>1, <1>2, <1>3 DEF BTypeOK, KuzatuvUzilmaydi
<1>6. BirinchiBlok /\ Oraliqda /\ IshonchHozir /\ ZonaTogri
  <2>1. 2..bosqich = {}  BY <1>1
  <2>. QED  BY <1>1, <1>2, <1>3, <2>1 DEF BirinchiBlok, Oraliqda, IshonchHozir, ZonaTogri
<1>7. Soyada
  <2>1. ochirilgan.nima = "hammasi" => 0 # ochirilgan.blok
    <3>1. "hammasi" \notin AltNomlari  BY AltNomL
    <3>2. ASSUME ochirilgan.nima = "hammasi" PROVE ochirilgan.blok \in 1..4
      <4>1. ochirilgan \notin [blok : {0}, nima : AltNomlari]  BY <3>1, <3>2
      <4>2. ochirilgan \in [blok : 1..4, nima : {"ha", "yoq", "hammasi"}]  BY <1>1, <4>1
      <4>. QED  BY <4>2
    <3>. QED  BY <3>2
  <2>. QED  BY <1>1, <1>2, <1>3, <2>1 DEF Soyada
<1>8. TasdiqBepulOvoz  BY <1>2, <1>3 DEF TasdiqBepulOvoz
<1>9. ZanjirInv  BY <1>5, <1>6, <1>7, <1>8 DEF ZanjirInv
<1>. QED  BY <1>3, <1>4, <1>5, <1>9 DEF BInv

LEMMA BQadamL ==
  ASSUME BInv, [BNext]_bvars PROVE BInv'
<1>1. CASE BNext
  <2>1. PICK s \in Sanoqlar, tp \in SUBSET AltNomlari, td \in SUBSET Manbalar : Qadami(s, tp, td)
    BY <1>1, ZenonT(30) DEF BNext, BlokYurildi, Qadami, YBlok, YZona
  <2>2. BTuri' /\ KuzatuvUzilmaydi' /\ (oquvchi = "zanjir" => BTypeOK') /\ oquvchi' = oquvchi
    BY <2>1, BTuriSaqlanadiL DEF Qadami
  <2>3. oquvchi = "zanjir" => ZanjirInv'
    BY <2>1, <2>2, BirinchiSaqlanadiL, OraliqdaSaqlanadiL, SoyadaSaqlanadiL, TasdiqSaqlanadiL
    DEF ZanjirInv
  <2>4. ASSUME oquvchi = "kuzatuv", NEW y \in Yuruvchilar \ {"kuzatuv"}
        PROVE  zanjir'[y] = [bloklar |-> <<>>, uzildi |-> 0, zona |-> "fibonacci"]
    <3>1. ~Yuradi(y)  BY <2>4 DEF Yuradi
    <3>2. zanjir'[y] = zanjir[y]  BY <2>1, <3>1, NatijaL
    <3>. QED  BY <2>4, <3>2 DEF BInv
  <2>. QED  BY <2>2, <2>3, <2>4 DEF BInv
<1>2. CASE UNCHANGED bvars
  <2>1. UNCHANGED <<tosiq, oquvchi, ochirilgan, otadi, bosqich, zanjir>>  BY <1>2 DEF bvars
  <2>2. BTuri' /\ KuzatuvUzilmaydi'
    BY <2>1, SMTT(30) DEF BInv, BTuri, KuzatuvUzilmaydi, U
  <2>3. ZanjirInv => ZanjirInv'
    BY <2>1 DEF ZanjirInv, BTypeOK, BirinchiBlok, ZonaTogri, Oraliqda, Soyada, IshonchHozir,
       Ishonchli, TasdiqBepulOvoz, B, U, Z, otdi, olchanmadi, maxraj, Ochirilgani
  <2>. QED  BY <2>1, <2>2, <2>3 DEF BInv
<1>. QED  BY <1>1, <1>2

LEMMA BXulosaL ==
  ASSUME BInv PROVE YuruvchilarTogri
<1>1. /\ BTuri /\ KuzatuvUzilmaydi /\ bosqich \in 0..4
      /\ oquvchi = "zanjir" \/ oquvchi = "kuzatuv"
  BY DEF BInv, BTuri
<1>2. {"asosiy", "ikkilik", "alternativ", "soya"} \subseteq Yuruvchilar \ {"kuzatuv"}
  BY DEF Yuruvchilar
<1>3. CASE oquvchi = "zanjir"
  <2>1. /\ BTypeOK /\ BirinchiBlok /\ Oraliqda /\ Soyada /\ IshonchHozir /\ TasdiqBepulOvoz
    BY <1>3 DEF BInv, ZanjirInv
  <2>2. \A y \in Yuruvchilar \ {"kuzatuv"} : toliq(y) <=> (U(y) = 0 /\ bosqich = 4)
    <3>. SUFFICES ASSUME NEW y \in Yuruvchilar \ {"kuzatuv"}
                  PROVE  toliq(y) <=> (U(y) = 0 /\ bosqich = 4)
      OBVIOUS
    <3>1. zanjir[y].uzildi = 0 => Len(zanjir[y].bloklar) = bosqich  BY <1>3, <2>1 DEF BTypeOK
    <3>. QED  BY <3>1 DEF toliq, U
  <2>3. AltOraliqda
    BY <1>2, <2>1, <2>2 DEF AltOraliqda, Oraliqda, U, Z, B
  <2>4. AblatsiyaHalol
    <3>1. /\ ochirilgan.nima = "yoq" /\ toliq("alternativ")
             /\ zanjir["soya"].zona = zanjir["alternativ"].zona => toliq("soya")
      BY <1>2, <2>1, <2>2 DEF Soyada, U, Z
    <3>2. ochirilgan.nima = "hammasi" => tosiq \/ zanjir["soya"].uzildi # ochirilgan.blok
      BY <2>1 DEF Soyada, U
    <3>3. tosiq => ~toliq("soya")  BY <1>2, <2>1, <2>2 DEF Soyada
    <3>. QED  BY <3>1, <3>2, <3>3 DEF AblatsiyaHalol
  <2>5. IshonchPoli
    <3>. SUFFICES ASSUME toliq("alternativ"), NEW n \in 2..4
                  PROVE  5 * zanjir["alternativ"].bloklar[n].ha
                            >= 2 * maxraj(zanjir["alternativ"].bloklar[n])
      BY DEF IshonchPoli
    <3>1. U("alternativ") = 0 /\ bosqich = 4  BY <1>2, <2>2
    <3>2. Ishonchli(B("alternativ", n))  BY <2>1, <3>1 DEF IshonchHozir
    <3>. QED  BY <3>2 DEF Ishonchli, B, maxraj
  <2>. QED  BY <1>1, <2>1, <2>3, <2>4, <2>5 DEF YuruvchilarTogri
\* Where the panel reads, the chain's walkers have nothing.
<1>4. CASE oquvchi = "kuzatuv"
  <2>1. \A y \in Yuruvchilar \ {"kuzatuv"} :
           zanjir[y] = [bloklar |-> <<>>, uzildi |-> 0, zona |-> "fibonacci"]
    BY <1>4 DEF BInv
  <2>2. \A y \in Yuruvchilar \ {"kuzatuv"} :
           /\ zanjir[y].bloklar = <<>> /\ zanjir[y].uzildi = 0 /\ zanjir[y].zona = "fibonacci"
           /\ Len(zanjir[y].bloklar) = 0
    BY <2>1
  <2>3. \A y \in Yuruvchilar \ {"kuzatuv"} : ~toliq(y)
    <3>1. \A y \in Yuruvchilar \ {"kuzatuv"} : Len(zanjir[y].bloklar) # 4
      <4>1. \A k : k = 0 => k # 4  OBVIOUS
      <4>. QED  BY <2>2, <4>1, Zenon
    <3>. QED  BY <3>1, Zenon DEF toliq
  <2>4. BTypeOK
    <3>1. 1..0 = {} /\ "fibonacci" \in Manbalar  BY DEF Manbalar
    <3>. QED  BY <1>4, <2>2, <3>1 DEF BTypeOK
  <2>5. ochirilgan.nima = "hammasi" => 0 # ochirilgan.blok
    <3>1. "hammasi" \notin AltNomlari  BY AltNomL
    <3>2. ASSUME ochirilgan.nima = "hammasi" PROVE ochirilgan.blok \in 1..4
      <4>1. ochirilgan \notin [blok : {0}, nima : AltNomlari]  BY <3>1, <3>2
      <4>2. ochirilgan \in [blok : 1..4, nima : {"ha", "yoq", "hammasi"}]
        BY <1>1, <4>1 DEF BTuri
      <4>. QED  BY <4>2
    <3>. QED  BY <3>2
  <2>6. AltOraliqda /\ IshonchPoli  BY <1>2, <2>3 DEF AltOraliqda, IshonchPoli
  <2>7. AblatsiyaHalol  BY <1>2, <2>2, <2>3, <2>5 DEF AblatsiyaHalol
  <2>8. TasdiqBepulOvoz
    <3>1. zanjir["asosiy"].uzildi # 4  BY <1>2, <2>2
    <3>. QED  BY <3>1 DEF TasdiqBepulOvoz
  <2>. QED  BY <1>1, <2>4, <2>6, <2>7, <2>8 DEF YuruvchilarTogri
<1>. QED  BY <1>1, <1>3, <1>4

\* The walkers of one coin's candles agree, whatever its checks say: "two of four" is
\* one of the alternative chain's and that one of the strategy's, but for a coin of
\* unknown fundamentals whose last block an alternative zone has confirmed; a failed
\* check switched off costs no candidate but through the zone, a hard stop cannot be
\* switched off, and a candidate has two fifths of the votes of every block it measured
\* after the first; the panel's walker never breaks off (turlar.py,
\* block_chain_engine.py, alternative_chain.py, confirmation_block.py,
\* observation_mode.py).
THEOREM YuruvchilarTeoremasi == BSpec => []YuruvchilarTogri
<1>1. BInit => BInv  BY BBoshL
<1>2. BInv /\ [BNext]_bvars => BInv'  BY BQadamL
<1>3. BInv => YuruvchilarTogri  BY BXulosaL
<1>. QED  BY <1>1, <1>2, <1>3, PTL DEF BSpec

(******************************* The backtest ****************************)

(* The symbols of a list are finitely many, and each has its place in it. *)
LEMMA CoinlarL == IsFiniteSet(Coinlari) /\ DOMAIN Ramzlar \subseteq Nat
                  /\ \A c \in Coinlari : \E i \in DOMAIN Ramzlar : Ramzlar[i] = c
<1>1. Len(Ramzlar) \in Nat /\ DOMAIN Ramzlar = 1..Len(Ramzlar)
  BY SinovFarazi, LenProperties
<1>2. \A c \in Coinlari : \E i \in DOMAIN Ramzlar : Ramzlar[i] = c  BY DEF Coinlari, ToSet
<1>3. IsFiniteSet(1..Len(Ramzlar))  BY <1>1, FS_Interval
<1>4. Ramzlar \in [1..Len(Ramzlar) -> Coinlari]  BY SinovFarazi, LenProperties
<1>5. IsFiniteSet(Coinlari)  BY <1>1, <1>2, <1>3, <1>4, TasvirL
<1>. QED  BY <1>1, <1>2, <1>5

(* Of candidates one is first. *)
LEMMA BirinchiL ==
  ASSUME NEW n \in [Coinlari -> Nat], NEW S \in SUBSET Coinlari, S # {}
  PROVE  \E c \in S : \A d \in S \ {c} : Oldin(n, c, d)
<1>. DEFINE Q == {n[c] : c \in S}
<1>1. IsFiniteSet(S)  BY CoinlarL, FS_Subset
<1>2. IsFiniteSet(Q)
  <2>. DEFINE f == [c \in S |-> n[c]]
  <2>1. f \in [S -> Q] /\ \A q \in Q : \E c \in S : f[c] = q  OBVIOUS
  <2>. HIDE DEF f, Q
  <2>. QED  BY <1>1, <2>1, TasvirL
<1>3. Q \subseteq Int /\ Q # {}  OBVIOUS
<1>4. PICK q \in Q : \A y \in Q : q >= y
  <2>. HIDE DEF Q
  <2>. QED  BY <1>2, <1>3, ChekkalarL
<1>. DEFINE R == {c \in S : n[c] = q}
            I == {i \in DOMAIN Ramzlar : Ramzlar[i] \in R}
<1>5. I \subseteq Nat /\ I # {}
  <2>1. PICK c \in S : n[c] = q  BY <1>4
  <2>2. PICK i \in DOMAIN Ramzlar : Ramzlar[i] = c  BY CoinlarL
  <2>. QED  BY <2>1, <2>2, CoinlarL
<1>6. PICK i \in I : \A j \in I : i <= j
  <2>. HIDE DEF I
  <2>. QED  BY <1>5, EngKichikL
<1>7. Ramzlar[i] \in S /\ n[Ramzlar[i]] = q /\ i \in Nat  BY <1>5
<1>8. ASSUME NEW d \in S \ {Ramzlar[i]} PROVE Oldin(n, Ramzlar[i], d)
  <2>1. n[d] \in Nat /\ q \in Nat /\ q >= n[d]  BY <1>4
  <2>2. CASE q > n[d]  BY <1>7, <2>2 DEF Oldin
  <2>3. CASE q = n[d]
    <3>1. ASSUME NEW j \in 1..i, Ramzlar[j] = d PROVE FALSE
      <4>1. i \in DOMAIN Ramzlar /\ DOMAIN Ramzlar = 1..Len(Ramzlar) /\ Len(Ramzlar) \in Nat
        BY SinovFarazi, LenProperties
      <4>2. j \in DOMAIN Ramzlar  BY <1>7, <4>1
      <4>3. j \in I  BY <2>3, <3>1, <4>2
      <4>4. i <= j /\ j <= i /\ j \in Nat  BY <1>6, <1>7, <4>3
      <4>5. i = j  BY <1>7, <4>4
      <4>. QED  BY <3>1, <4>5
    <3>2. i \in DOMAIN Ramzlar /\ \A j \in 1..i : Ramzlar[j] # d  BY <3>1
    <3>3. Avvalroq(Ramzlar[i], d)  BY <3>2 DEF Avvalroq
    <3>. QED  BY <1>7, <2>3, <3>3 DEF Oldin
  <2>. QED  BY <2>1, <2>2, <2>3
<1>. QED  BY <1>7, <1>8

(* The turns of the loop are a function. *)
Ketma(f, n, band, M) ==
    f = [k \in 0..M |-> IF k = 0 THEN [band |-> band, qolgan |-> Nomzodlar(n)] ELSE Navbat(n, f[k - 1])]

LEMMA KetmaL ==
  ASSUME NEW n, NEW band, NEW M \in Nat
  PROVE  \E f : Ketma(f, n, band, M)
<1>. DEFINE T == {m \in Nat : ~\E f : Ketma(f, n, band, m)}
<1>1. ASSUME T # {} PROVE FALSE
  <2>1. PICK m \in T : \A y \in T : m <= y
    <3>1. T \subseteq Nat  OBVIOUS
    <3>. HIDE DEF T
    <3>. QED  BY <1>1, <3>1, EngKichikL
  <2>2. m \in Nat /\ ~\E f : Ketma(f, n, band, m)  OBVIOUS
  <2>3. CASE m = 0
    <3>. DEFINE f == [k \in 0..0 |-> [band |-> band, qolgan |-> Nomzodlar(n)]]
    <3>1. Ketma(f, n, band, 0)
      <4>1. f = [k \in 0..0 |-> IF k = 0 THEN [band |-> band, qolgan |-> Nomzodlar(n)]
                               ELSE Navbat(n, f[k - 1])]
        OBVIOUS
      <4>. HIDE DEF f
      <4>. QED  BY <4>1 DEF Ketma
    <3>. QED  BY <2>2, <2>3, <3>1
  <2>4. CASE m # 0
    <3>1. m - 1 \in Nat /\ m - 1 < m  BY <2>2, <2>4
    <3>2. m - 1 \notin T  BY <2>1, <3>1
    <3>3. PICK f : Ketma(f, n, band, m - 1)  BY <3>1, <3>2
    <3>. DEFINE g == [k \in 0..m |-> IF k < m THEN f[k] ELSE Navbat(n, f[m - 1])]
    <3>4. \A k \in 0..(m - 1) : f[k] = IF k = 0 THEN [band |-> band, qolgan |-> Nomzodlar(n)]
                                      ELSE Navbat(n, f[k - 1])
      BY <3>3 DEF Ketma
    <3>5. ASSUME NEW k \in 0..m
          PROVE  g[k] = IF k = 0 THEN [band |-> band, qolgan |-> Nomzodlar(n)] ELSE Navbat(n, g[k - 1])
      <4>1. CASE k = 0
        <5>1. 0 \in 0..(m - 1) /\ 0 < m  BY <3>1
        <5>2. g[0] = f[0]  BY <5>1
        <5>. QED  BY <3>4, <4>1, <5>1, <5>2
      <4>2. CASE k \in 1..(m - 1)
        <5>1. k \in 0..(m - 1) /\ k < m /\ k - 1 \in 0..m /\ k - 1 < m /\ k # 0  BY <2>2, <3>1, <4>2
        <5>2. g[k] = f[k] /\ g[k - 1] = f[k - 1]  BY <5>1
        <5>. QED  BY <3>4, <5>1, <5>2
      <4>3. CASE k = m
        <5>1. ~(k < m) /\ m - 1 \in 0..m /\ m - 1 < m /\ k # 0  BY <2>2, <2>4, <3>1, <4>3
        <5>2. g[k] = Navbat(n, f[m - 1]) /\ g[m - 1] = f[m - 1]  BY <4>3, <5>1
        <5>. QED  BY <4>3, <5>1, <5>2
      <4>. QED  BY <2>2, <4>1, <4>2, <4>3
    <3>6. g = [k \in 0..m |-> g[k]]  OBVIOUS
    <3>. HIDE DEF g
    <3>7. Ketma(g, n, band, m)  BY <3>5, <3>6 DEF Ketma
    <3>. QED  BY <2>2, <3>7
  <2>. QED  BY <2>3, <2>4
<1>. QED  BY <1>1

(* What the turns give, one after the other. *)
LEMMA NavbatlarL ==
  ASSUME NEW n, NEW band, Cardinality(Nomzodlar(n)) \in Nat
  PROVE  /\ Navbatlar(n, band)[0] = [band |-> band, qolgan |-> Nomzodlar(n)]
         /\ \A k \in 1..Cardinality(Nomzodlar(n)) :
              Navbatlar(n, band)[k] = Navbat(n, Navbatlar(n, band)[k - 1])
<1>. DEFINE f == Navbatlar(n, band)
            M == Cardinality(Nomzodlar(n))
<1>1. Ketma(f, n, band, M)
  <2>1. \E g : Ketma(g, n, band, M)  BY KetmaL
  <2>2. f = CHOOSE g : Ketma(g, n, band, M)  BY DEF Navbatlar, Ketma
  <2>. HIDE DEF f, M
  <2>. QED  BY <2>1, <2>2
<1>2. M \in Nat  OBVIOUS
<1>. HIDE DEF f, M
<1>3. \A k \in 0..M : f[k] = IF k = 0 THEN [band |-> band, qolgan |-> Nomzodlar(n)]
                            ELSE Navbat(n, f[k - 1])
  BY <1>1 DEF Ketma
<1>4. 0 \in 0..M /\ \A k \in 1..M : k \in 0..M /\ k # 0  BY <1>2
<1>5. f[0] = [band |-> band, qolgan |-> Nomzodlar(n)] /\ \A k \in 1..M : f[k] = Navbat(n, f[k - 1])
  BY <1>3, <1>4
<1>. QED  BY <1>5 DEF f, M

(* Within the limits; and what is true of those R who have had their turn. *)
Cheklangan(Bd) ==
    /\ Cardinality(Bd) <= sigimi.max_open
    /\ \A c \in Bd : Guruhlar[c] # GURUHSIZ => Cardinality(GuruhdaBand(Bd, c)) <= sigimi.max_guruh
Guruhi(Bd, c) == Guruhlar[c] # GURUHSIZ /\ Cardinality(GuruhdaBand(Bd, c)) = sigimi.max_guruh
Qaralgan(n, Bd, R) ==
    \A c \in R \ Bd : ~JoyBor(Bd, c) /\ \A d \in Bd : n[d] \in 1..(n[c] - 1) => Guruhi(Bd, c)
Navbatda(n, band, o) ==
    /\ band \subseteq o.band /\ o.band \subseteq band \cup (Nomzodlar(n) \ o.qolgan)
    /\ o.qolgan \subseteq Nomzodlar(n)
    /\ Cheklangan(o.band)
    /\ \A d \in Nomzodlar(n) \ o.qolgan, c \in o.qolgan : n[d] >= n[c]
    /\ Qaralgan(n, o.band, Nomzodlar(n) \ o.qolgan)

(* The places of a group are some of all the places, and finitely many. *)
LEMMA GuruhL ==
  ASSUME NEW Bd \in SUBSET Coinlari, NEW c \in Coinlari
  PROVE  /\ IsFiniteSet(Bd) /\ Cardinality(Bd) \in Nat
         /\ GuruhdaBand(Bd, c) \subseteq Bd
         /\ IsFiniteSet(GuruhdaBand(Bd, c)) /\ Cardinality(GuruhdaBand(Bd, c)) \in Nat
<1>1. IsFiniteSet(Bd)  BY CoinlarL, FS_Subset
<1>2. GuruhdaBand(Bd, c) \subseteq Bd  BY DEF GuruhdaBand
<1>3. IsFiniteSet(GuruhdaBand(Bd, c))  BY <1>1, <1>2, FS_Subset
<1>. QED  BY <1>1, <1>2, <1>3, FS_CardinalityType

(* Whoever takes a place there was keeps all within the limits. *)
LEMMA JoyL ==
  ASSUME sigimi \in Sigimlar, NEW Bd \in SUBSET Coinlari, Cheklangan(Bd), NEW c \in Coinlari, c \notin Bd,
         JoyBor(Bd, c)
  PROVE  Cheklangan(Bd \cup {c})
<1>. DEFINE C == Bd \cup {c}
<1>1. Cardinality(C) = Cardinality(Bd) + 1  BY GuruhL, FS_AddElement
<1>2. Cardinality(Bd) \in Nat /\ sigimi.max_open \in Nat /\ sigimi.max_guruh \in Nat
  BY GuruhL, SinovFarazi
<1>3. Cardinality(C) <= sigimi.max_open
  <2>1. Cardinality(Bd) < sigimi.max_open  BY DEF JoyBor
  <2>. QED  BY <1>1, <1>2, <2>1
<1>4. ASSUME NEW d \in C, Guruhlar[d] # GURUHSIZ
      PROVE  Cardinality(GuruhdaBand(C, d)) <= sigimi.max_guruh
  <2>1. CASE Guruhlar[c] # Guruhlar[d]
    <3>1. GuruhdaBand(C, d) = GuruhdaBand(Bd, d)  BY <2>1 DEF GuruhdaBand
    <3>2. d \in Bd  BY <2>1
    <3>3. Cardinality(GuruhdaBand(Bd, d)) <= sigimi.max_guruh  BY <1>4, <3>2 DEF Cheklangan
    <3>. QED  BY <3>1, <3>3
  <2>2. CASE Guruhlar[c] = Guruhlar[d]
    <3>1. GuruhdaBand(C, d) = GuruhdaBand(Bd, c) \cup {c}  BY <2>2 DEF GuruhdaBand
    <3>2. c \notin GuruhdaBand(Bd, c)  BY DEF GuruhdaBand
    <3>3. Cardinality(GuruhdaBand(C, d)) = Cardinality(GuruhdaBand(Bd, c)) + 1
      BY <3>1, <3>2, GuruhL, FS_AddElement
    <3>4. Cardinality(GuruhdaBand(Bd, c)) < sigimi.max_guruh  BY <1>4, <2>2 DEF JoyBor
    <3>5. Cardinality(GuruhdaBand(Bd, c)) \in Nat  BY GuruhL
    <3>. QED  BY <1>2, <3>3, <3>4, <3>5
  <2>. QED  BY <2>1, <2>2
<1>. QED  BY <1>3, <1>4 DEF Cheklangan

(* Nobody who was refused could be given a place later, and whoever is passed by a *)
(* weaker one was refused for his group.                                           *)
LEMMA RadL ==
  ASSUME sigimi \in Sigimlar, NEW n \in [Coinlari -> Nat],
         NEW Bd \in SUBSET Coinlari, Cheklangan(Bd), NEW c \in Coinlari, c \notin Bd,
         JoyBor(Bd, c), NEW e \in Coinlari, e \notin Bd, e # c,
         ~JoyBor(Bd, e), \A d \in Bd : n[d] \in 1..(n[e] - 1) => Guruhi(Bd, e)
  PROVE  /\ ~JoyBor(Bd \cup {c}, e)
         /\ \A d \in Bd \cup {c} : n[d] \in 1..(n[e] - 1) => Guruhi(Bd \cup {c}, e)
<1>. DEFINE C == Bd \cup {c}
<1>1. /\ Cardinality(Bd) \in Nat /\ sigimi.max_open \in Nat /\ sigimi.max_guruh \in Nat
      /\ Cardinality(GuruhdaBand(Bd, e)) \in Nat /\ Cardinality(GuruhdaBand(Bd, c)) \in Nat
  BY GuruhL, SinovFarazi
<1>2. Cardinality(Bd) < sigimi.max_open  BY DEF JoyBor
<1>3. Guruhlar[e] # GURUHSIZ /\ Cardinality(GuruhdaBand(Bd, e)) >= sigimi.max_guruh
  BY <1>1, <1>2 DEF JoyBor
<1>4. Guruhlar[c] # Guruhlar[e]
  <2>1. SUFFICES ASSUME Guruhlar[c] = Guruhlar[e] PROVE FALSE  OBVIOUS
  <2>2. GuruhdaBand(Bd, c) = GuruhdaBand(Bd, e)  BY <2>1 DEF GuruhdaBand
  <2>3. Cardinality(GuruhdaBand(Bd, c)) < sigimi.max_guruh  BY <1>3, <2>1 DEF JoyBor
  <2>. QED  BY <1>1, <1>3, <2>2, <2>3
<1>5. GuruhdaBand(C, e) = GuruhdaBand(Bd, e)  BY <1>4 DEF GuruhdaBand
<1>6. Cardinality(GuruhdaBand(Bd, e)) <= sigimi.max_guruh
  <2>1. CASE GuruhdaBand(Bd, e) = {}  BY <1>1, <2>1, FS_EmptySet
  <2>2. CASE GuruhdaBand(Bd, e) # {}
    <3>1. PICK d \in Bd : Guruhlar[d] = Guruhlar[e]  BY <2>2 DEF GuruhdaBand
    <3>2. GuruhdaBand(Bd, d) = GuruhdaBand(Bd, e)  BY <3>1 DEF GuruhdaBand
    <3>3. Cardinality(GuruhdaBand(Bd, d)) <= sigimi.max_guruh  BY <1>3, <3>1 DEF Cheklangan
    <3>. QED  BY <3>2, <3>3
  <2>. QED  BY <2>1, <2>2
<1>7. Guruhi(C, e)  BY <1>1, <1>3, <1>5, <1>6 DEF Guruhi
<1>8. ~JoyBor(C, e)  BY <1>1, <1>3, <1>5 DEF JoyBor
<1>. QED  BY <1>7, <1>8

(* One turn. *)
LEMMA NavbatL ==
  ASSUME sigimi \in Sigimlar, NEW n \in [Coinlari -> Nat],
         NEW band \in SUBSET Coinlari, \A c \in band : n[c] = 0,
         NEW o, Navbatda(n, band, o), o.qolgan # {}
  PROVE  /\ Navbatda(n, band, Navbat(n, o))
         /\ Cardinality(Navbat(n, o).qolgan) = Cardinality(o.qolgan) - 1
<1>. DEFINE S == Nomzodlar(n)
            Bd == o.band
            Q == o.qolgan
<1>1. /\ band \subseteq Bd /\ Bd \subseteq band \cup (S \ Q) /\ Q \subseteq S /\ Cheklangan(Bd)
      /\ \A d \in S \ Q, c \in Q : n[d] >= n[c]
      /\ Qaralgan(n, Bd, S \ Q)
      /\ S \subseteq Coinlari /\ Bd \subseteq Coinlari
      /\ \A c \in S : n[c] > 0
  BY DEF Navbatda, Nomzodlar
<1>. DEFINE c == CHOOSE c \in Q : \A d \in Q \ {c} : Oldin(n, c, d)
<1>2. c \in Q /\ \A d \in Q \ {c} : Oldin(n, c, d)
  <2>1. Q \in SUBSET Coinlari /\ Q # {}  BY <1>1
  <2>2. \E x \in Q : \A d \in Q \ {x} : Oldin(n, x, d)  BY <2>1, BirinchiL
  <2>. QED  BY <2>2
<1>3. Navbat(n, o) = [band |-> IF JoyBor(Bd, c) THEN Bd \cup {c} ELSE Bd, qolgan |-> Q \ {c}]
  BY DEF Navbat
<1>. HIDE DEF c
<1>. DEFINE C == Navbat(n, o).band
            P == Navbat(n, o).qolgan
<1>4. C = (IF JoyBor(Bd, c) THEN Bd \cup {c} ELSE Bd) /\ P = Q \ {c}  BY <1>3
<1>. HIDE DEF S, Bd, Q, C, P
<1>5. c \in S /\ c \in Coinlari /\ n[c] > 0 /\ c \notin band /\ c \notin Bd
  <2>1. c \in S /\ c \in Coinlari /\ n[c] > 0 /\ n[c] \in Nat  BY <1>1, <1>2
  <2>2. c \notin band  BY <2>1
  <2>. QED  BY <1>1, <1>2, <2>1, <2>2
<1>6. Cardinality(P) = Cardinality(Q) - 1
  <2>1. IsFiniteSet(Q)  BY <1>1, CoinlarL, FS_Subset
  <2>. QED  BY <1>2, <1>4, <2>1, FS_RemoveElement
<1>7. band \subseteq C /\ C \subseteq band \cup (S \ P) /\ P \subseteq S
  BY <1>1, <1>2, <1>4, <1>5
<1>8. Cheklangan(C)
  <2>1. CASE JoyBor(Bd, c)
    <3>1. Cheklangan(Bd \cup {c})  BY <1>1, <1>5, <2>1, JoyL
    <3>. QED  BY <1>4, <2>1, <3>1
  <2>2. CASE ~JoyBor(Bd, c)  BY <1>1, <1>4, <2>2
  <2>. QED  BY <2>1, <2>2
<1>9. \A d \in S \ P, e \in P : n[d] >= n[e]
  <2>. SUFFICES ASSUME NEW d \in S \ P, NEW e \in P PROVE n[d] >= n[e]  OBVIOUS
  <2>1. e \in Q /\ e # c  BY <1>4
  <2>2. CASE d = c
    <3>1. Oldin(n, c, e)  BY <1>2, <2>1
    <3>2. n[c] \in Nat /\ n[e] \in Nat  BY <1>1, <1>5, <2>1
    <3>. QED  BY <2>2, <3>1, <3>2 DEF Oldin
  <2>3. CASE d # c  BY <1>1, <1>4, <2>1, <2>3
  <2>. QED  BY <2>2, <2>3
<1>10. Qaralgan(n, C, S \ P)
  <2>. SUFFICES ASSUME NEW e \in (S \ P) \ C
                PROVE  ~JoyBor(C, e) /\ \A d \in C : n[d] \in 1..(n[e] - 1) => Guruhi(C, e)
    BY DEF Qaralgan
  <2>1. CASE JoyBor(Bd, c)
    <3>1. C = Bd \cup {c}  BY <1>4, <2>1
    <3>2. e \in (S \ Q) \ Bd /\ e # c /\ e \in Coinlari  BY <1>1, <1>4, <3>1
    <3>3. ~JoyBor(Bd, e) /\ \A d \in Bd : n[d] \in 1..(n[e] - 1) => Guruhi(Bd, e)
      BY <1>1, <3>2 DEF Qaralgan
    <3>4. Bd \in SUBSET Coinlari /\ Cheklangan(Bd) /\ e \notin Bd  BY <1>1, <3>2
    <3>. QED  BY <1>5, <2>1, <3>1, <3>2, <3>3, <3>4, RadL
  <2>2. CASE ~JoyBor(Bd, c) /\ e # c
    <3>1. C = Bd  BY <1>4, <2>2
    <3>2. e \in (S \ Q) \ Bd  BY <1>4, <2>2, <3>1
    <3>. QED  BY <1>1, <3>1, <3>2 DEF Qaralgan
  <2>3. CASE ~JoyBor(Bd, c) /\ e = c
    <3>1. C = Bd  BY <1>4, <2>3
    <3>2. ASSUME NEW d \in Bd, n[d] \in 1..(n[c] - 1) PROVE FALSE
      <4>1. n[d] \in Nat /\ n[c] \in Nat /\ n[d] > 0 /\ n[d] < n[c]  BY <1>1, <1>5, <3>2
      <4>2. d \notin band  BY <4>1
      <4>3. d \in S \ Q  BY <1>1, <4>2
      <4>4. n[d] >= n[c]  BY <1>1, <1>2, <4>3
      <4>. QED  BY <4>1, <4>4
    <3>. QED  BY <2>3, <3>1, <3>2
  <2>. QED  BY <2>1, <2>2, <2>3
<1>11. Navbatda(n, band, Navbat(n, o))  BY <1>7, <1>8, <1>9, <1>10 DEF Navbatda, C, P, S
<1>. QED  BY <1>6, <1>11 DEF P, Q

(* All turns. *)
LEMMA JoylashtirL ==
  ASSUME sigimi \in Sigimlar, NEW n \in [Coinlari -> Nat],
         NEW band \in SUBSET Coinlari, \A c \in band : n[c] = 0, sigimi.sigim => Cheklangan(band)
  PROVE  /\ band \subseteq _joylashtir(n, band)
         /\ _joylashtir(n, band) \subseteq band \cup Nomzodlar(n)
         /\ sigimi.sigim =>
              /\ Cheklangan(_joylashtir(n, band))
              /\ Qaralgan(n, _joylashtir(n, band), Nomzodlar(n))
<1>. DEFINE S == Nomzodlar(n)
            M == Cardinality(S)
            f == Navbatlar(n, band)
<1>1. S \subseteq Coinlari /\ IsFiniteSet(S) /\ M \in Nat
  <2>1. S \subseteq Coinlari  BY DEF Nomzodlar
  <2>. QED  BY <2>1, CoinlarL, FS_Subset, FS_CardinalityType
<1>2. f[0] = [band |-> band, qolgan |-> S] /\ \A k \in 1..M : f[k] = Navbat(n, f[k - 1])
  BY <1>1, NavbatlarL
<1>. HIDE DEF f
<1>3. CASE ~sigimi.sigim  BY <1>3 DEF _joylashtir
<1>4. CASE sigimi.sigim
  <2>1. _joylashtir(n, band) = f[M].band  BY <1>4 DEF _joylashtir, f
  <2>. DEFINE Togri(k) == Navbatda(n, band, f[k]) /\ Cardinality(f[k].qolgan) = M - k
              T == {k \in 0..M : ~Togri(k)}
  <2>2. Togri(0)
    <3>1. f[0].band = band /\ f[0].qolgan = S  BY <1>2
    <3>2. Navbatda(n, band, f[0])  BY <1>4, <3>1 DEF Navbatda, Qaralgan
    <3>. QED  BY <1>1, <3>1, <3>2
  <2>3. ASSUME T # {} PROVE FALSE
    <3>1. PICK k \in T : \A j \in T : k <= j
      <4>1. T \subseteq Nat  OBVIOUS
      <4>. HIDE DEF T
      <4>. QED  BY <2>3, <4>1, EngKichikL
    <3>2. k \in 0..M /\ ~Togri(k)  OBVIOUS
    <3>3. k # 0  BY <2>2, <3>2
    <3>4. k \in 1..M /\ k - 1 \in 0..M /\ k \in Nat /\ k - 1 < k  BY <1>1, <3>2, <3>3
    <3>5. k - 1 \notin T  BY <3>1, <3>4
    <3>6. Togri(k - 1)  BY <3>4, <3>5
    <3>7. f[k] = Navbat(n, f[k - 1])  BY <1>2, <3>4
    <3>8. Cardinality(f[k - 1].qolgan) # 0  BY <1>1, <3>4, <3>6
    <3>9. f[k - 1].qolgan # {}  BY <3>8, FS_EmptySet
    <3>10. /\ Navbatda(n, band, Navbat(n, f[k - 1]))
           /\ Cardinality(Navbat(n, f[k - 1]).qolgan) = Cardinality(f[k - 1].qolgan) - 1
      BY <3>6, <3>9, NavbatL
    <3>11. Cardinality(f[k - 1].qolgan) = M - (k - 1)  BY <3>6
    <3>12. Cardinality(f[k].qolgan) = M - k
      <4>. HIDE DEF M
      <4>. QED  BY <1>1, <3>4, <3>7, <3>10, <3>11
    <3>. QED  BY <3>2, <3>7, <3>10, <3>12
  <2>4. Togri(M)
    <3>1. M \in 0..M /\ M \notin T  BY <1>1, <2>3
    <3>. HIDE DEF Togri
    <3>. QED  BY <3>1
  <2>5. f[M].qolgan = {}
    <3>1. Cardinality(f[M].qolgan) = 0  BY <1>1, <2>4
    <3>2. f[M].qolgan \subseteq S  BY <2>4 DEF Navbatda
    <3>3. IsFiniteSet(f[M].qolgan)  BY <1>1, <3>2, FS_Subset
    <3>. QED  BY <3>1, <3>3, FS_EmptySet
  <2>6. Navbatda(n, band, f[M])  BY <2>4
  <2>7. Nomzodlar(n) \ f[M].qolgan = Nomzodlar(n)  BY <2>5
  <2>. HIDE DEF M
  <2>. QED  BY <2>1, <2>6, <2>7 DEF Navbatda
<1>. QED  BY <1>3, <1>4

KSham == Kuzatuvchi!Sham
HolatTuri == [status : Kuzatuvchi!Holatlar, stop : {Kuzatuvchi!STOP, ENTRY}, olingan_tp : 0..TpSoni,
              narx : Int, vaqt : Nat]
GuvohTuri == [boshi : Nat, holat : HolatTuri]

(* A trade that is open, as far as one candle asks. *)
OchiqSavdo(s, t) ==
    /\ s \in SavdoTuri
    /\ s.tp_soni < TpSoni /\ s.signal_vaqti <= s.kirish_vaqti /\ s.kirish_vaqti <= t
    /\ s.kutmoqda => s.tp_soni = 0 /\ s.stop < ENTRY

(* The watcher's prices. *)
LEMMA DarajaSonlari == Kuzatuvchi!STOP = 0 /\ ENTRY = 1 /\ Kuzatuvchi!ENTRY = 1
  BY DEF Kuzatuvchi!STOP, ENTRY, Kuzatuvchi!ENTRY

(* A candle's low and high. *)
LEMMA KShamL ==
  ASSUME NEW h \in KSham
  PROVE  h.low \in 0..2 /\ h.high \in 0..TpSoni
  BY DarajaSonlari DEF KSham, Kuzatuvchi!Sham

(* One candle moves an open trade to an open one, or ends it. *)
LEMMA YangilaL ==
  ASSUME NEW t \in Nat, NEW s, OchiqSavdo(s, t), NEW h \in KSham
  PROVE  /\ _yangila(s, h, t + 1).savdo \in SavdoTuri
         /\ _yangila(s, h, t + 1).sabab = "davom" => OchiqSavdo(_yangila(s, h, t + 1).savdo, t + 1)
<1>. DEFINE u == t + 1
            b == Bajarilgan(s, h, u)
            n == Nishonlar(b, h)
            y == _yangila(s, h, u)
<1>1. /\ s \in SavdoTuri /\ s.kutmoqda \in BOOLEAN /\ s.stop \in {0, 1} /\ s.tp_soni \in 0..TpSoni
      /\ s.signal_vaqti \in Nat /\ s.kirish_vaqti \in Nat
      /\ s.tp_soni < TpSoni /\ s.signal_vaqti <= s.kirish_vaqti /\ s.kirish_vaqti <= t
  BY DarajaSonlari DEF OchiqSavdo, SavdoTuri
<1>2. h.low \in 0..2 /\ h.high \in 0..TpSoni /\ TpSoni \in Nat \ {0}  BY KShamL, SinovFarazi
<1>3. u \in Nat /\ t < u  OBVIOUS
<1>. HIDE DEF u
<1>4. /\ b \in SavdoTuri /\ b.tp_soni = s.tp_soni /\ b.stop = s.stop /\ b.signal_vaqti = s.signal_vaqti
      /\ b.kirish_vaqti = u \/ b.kirish_vaqti = s.kirish_vaqti
      /\ b.kutmoqda => b = s /\ s.kutmoqda
  BY <1>1, <1>3 DEF Bajarilgan, SavdoTuri
<1>. HIDE DEF b
<1>5. b.tp_soni \in 0..TpSoni /\ b.stop \in {0, 1} /\ b.tp_soni < TpSoni
      /\ b.signal_vaqti <= b.kirish_vaqti /\ b.kirish_vaqti <= u
  BY <1>1, <1>3, <1>4
<1>6. /\ n \in SavdoTuri /\ n.kutmoqda = b.kutmoqda /\ n.signal_vaqti = b.signal_vaqti
      /\ n.kirish_vaqti = b.kirish_vaqti
  <2>1. PICK x \in 0..TpSoni : x = IF h.high > b.tp_soni THEN h.high ELSE b.tp_soni  BY <1>2, <1>5
  <2>2. PICK z \in {Kuzatuvchi!STOP, ENTRY} : z = IF b.tp_soni = 0 /\ h.high >= 1 THEN ENTRY ELSE b.stop
    BY <1>5, DarajaSonlari
  <2>3. n = [b EXCEPT !.tp_soni = x, !.stop = z]  BY <1>4, <2>1, <2>2 DEF Nishonlar, SavdoTuri
  <2>. HIDE DEF n
  <2>. QED  BY <1>4, <2>3 DEF SavdoTuri
<1>. HIDE DEF n
<1>7. CASE b.kutmoqda
  <2>1. y.savdo = b  BY <1>7 DEF _yangila, b, n
  <2>2. OchiqSavdo(b, u)  BY <1>3, <1>4, <1>5, <1>7 DEF OchiqSavdo
  <2>. QED  BY <1>4, <2>1, <2>2 DEF u
<1>8. CASE ~b.kutmoqda
  <2>1. y.savdo = b \/ y.savdo = n  BY <1>8 DEF _yangila, b, n
  <2>2. y.sabab = "davom" => y.savdo = n /\ n.tp_soni < TpSoni
    <3>1. n.tp_soni \in 0..TpSoni  BY <1>6 DEF SavdoTuri
    <3>2. y.sabab = "davom" => y.savdo = n /\ ~(n.tp_soni >= TpSoni)  BY <1>8 DEF _yangila, b, n
    <3>. QED  BY <1>2, <3>1, <3>2
  <2>3. n.tp_soni < TpSoni => OchiqSavdo(n, u)  BY <1>5, <1>6, <1>8 DEF OchiqSavdo
  <2>. QED  BY <1>4, <1>6, <2>1, <2>2, <2>3 DEF u
<1>9. b.kutmoqda \in BOOLEAN  BY <1>4 DEF SavdoTuri
<1>. QED  BY <1>7, <1>8, <1>9

(* The witness stays a state of the watcher. *)
LEMMA GuvohL ==
  ASSUME NEW w \in GuvohTuri, NEW h \in KSham, NEW t \in Nat
  PROVE  GuvohQadami(w, h, t) \in GuvohTuri
<1>. DEFINE g == w.holat
            v == GuvohQadami(w, h, t).holat
<1>1. /\ g \in HolatTuri /\ g.stop \in {0, 1} /\ g.olingan_tp \in 0..TpSoni /\ g.narx \in Int
      /\ g.status \in Kuzatuvchi!Holatlar
  BY DarajaSonlari DEF GuvohTuri, HolatTuri
<1>2. h.low \in 0..2 /\ h.high \in 0..TpSoni /\ TpSoni \in Nat \ {0}  BY KShamL, SinovFarazi
<1>3. GuvohQadami(w, h, t) = [w EXCEPT !.holat = v]  BY DEF GuvohQadami, GuvohTuri
<1>4. \/ v = g \/ v = Kuzatuvchi!KutganHolat(g, t) \/ v = Kuzatuvchi!BekorHolat(g, t)
      \/ v = Kuzatuvchi!StopHolat(g, t) \/ v = Kuzatuvchi!TpHolat(g, h, t)
      \/ v = Kuzatuvchi!MuddatHolat(g, h, t) \/ v = Kuzatuvchi!DavomHolat(g, h, t)
  BY Zenon DEF GuvohQadami, GuvohTuri
<1>. HIDE DEF g, v
<1>5. PICK x \in 0..TpSoni : x = Kuzatuvchi!OlinganTp(g, h)  BY <1>1, <1>2 DEF Kuzatuvchi!OlinganTp
<1>6. PICK z \in {Kuzatuvchi!STOP, ENTRY} : z = Kuzatuvchi!YangiStop(g, h)
  BY <1>1, DarajaSonlari DEF Kuzatuvchi!YangiStop
<1>7. /\ Kuzatuvchi!TpNarxi(1) \in Int /\ Kuzatuvchi!TpNarxi(TpSoni) \in Int /\ Kuzatuvchi!BOZOR \in Int
      /\ Kuzatuvchi!KirishNarxi(g) \in Int /\ g.stop \in Int
  BY <1>1, <1>2 DEF Kuzatuvchi!TpNarxi, Kuzatuvchi!BOZOR, Kuzatuvchi!KirishNarxi, Kuzatuvchi!ENTRY
<1>8. v \in HolatTuri
  <2>1. Kuzatuvchi!KutganHolat(g, t) \in HolatTuri  BY <1>1 DEF Kuzatuvchi!KutganHolat, HolatTuri
  <2>2. Kuzatuvchi!BekorHolat(g, t) \in HolatTuri
    BY <1>1, <1>7 DEF Kuzatuvchi!BekorHolat, HolatTuri, Kuzatuvchi!Holatlar, Kuzatuvchi!YopiqHolatlar
  <2>3. Kuzatuvchi!StopHolat(g, t) \in HolatTuri
    BY <1>1, <1>7 DEF Kuzatuvchi!StopHolat, HolatTuri, Kuzatuvchi!Holatlar, Kuzatuvchi!YopiqHolatlar
  <2>4. Kuzatuvchi!TpHolat(g, h, t) \in HolatTuri
    BY <1>1, <1>5, <1>6, <1>7
       DEF Kuzatuvchi!TpHolat, HolatTuri, Kuzatuvchi!Holatlar, Kuzatuvchi!YopiqHolatlar
  <2>5. Kuzatuvchi!MuddatHolat(g, h, t) \in HolatTuri
    BY <1>1, <1>5, <1>6, <1>7
       DEF Kuzatuvchi!MuddatHolat, HolatTuri, Kuzatuvchi!Holatlar, Kuzatuvchi!YopiqHolatlar
  <2>6. Kuzatuvchi!DavomHolat(g, h, t) \in HolatTuri
    <3>1. PICK q \in Kuzatuvchi!Holatlar :
             q = IF Kuzatuvchi!OlinganTp(g, h) >= 1 THEN "tp1_hit"
                 ELSE IF g.status = "pending" THEN "active" ELSE g.status
      BY <1>1 DEF Kuzatuvchi!Holatlar, Kuzatuvchi!OchiqHolatlar
    <3>2. Kuzatuvchi!DavomHolat(g, h, t) =
            [g EXCEPT !.status = q, !.narx = Kuzatuvchi!KirishNarxi(g), !.vaqt = t, !.stop = z, !.olingan_tp = x]
      BY <1>5, <1>6, <3>1 DEF Kuzatuvchi!DavomHolat
    <3>. QED  BY <1>1, <1>7, <3>2 DEF HolatTuri
  <2>. QED  BY <1>1, <1>4, <2>1, <2>2, <2>3, <2>4, <2>5, <2>6
<1>. QED  BY <1>3, <1>8 DEF GuvohTuri

(* The watcher's candle does to its state what the replay's does to the trade. *)
LEMMA MosL ==
  ASSUME NEW t \in Nat, NEW s, OchiqSavdo(s, t), NEW h \in KSham, NEW w \in GuvohTuri,
         Mos(s, "davom", w),
         _yangila(s, h, t + 1).sabab \notin {"limit", "muddat"},
         GuvohQadami(w, h, t + 1).holat.status # "timed_out"
  PROVE  Mos(_yangila(s, h, t + 1).savdo, _yangila(s, h, t + 1).sabab, GuvohQadami(w, h, t + 1))
<1>. DEFINE u == t + 1
            b == Bajarilgan(s, h, u)
            n == Nishonlar(b, h)
            y == _yangila(s, h, u)
            g == w.holat
            v == GuvohQadami(w, h, u).holat
<1>1. /\ s \in SavdoTuri /\ s.kutmoqda \in BOOLEAN /\ s.stop \in {0, 1} /\ s.tp_soni \in 0..TpSoni
      /\ s.tp_soni < TpSoni /\ (s.kutmoqda => s.tp_soni = 0 /\ s.stop = 0)
  BY DarajaSonlari DEF OchiqSavdo, SavdoTuri
<1>2. h.low \in 0..2 /\ h.high \in 0..TpSoni /\ TpSoni \in Nat \ {0}  BY KShamL, SinovFarazi
<1>3. g \in HolatTuri /\ g.stop = s.stop /\ g.olingan_tp = s.tp_soni
      /\ g.status = IF s.kutmoqda THEN "pending" ELSE IF s.tp_soni > 0 THEN "tp1_hit" ELSE "active"
  BY DEF GuvohTuri, Mos, Nomi
<1>4. g.status \in {"pending", "tp1_hit", "active"} /\ (g.status = "pending" <=> s.kutmoqda)
  BY <1>1, <1>3
<1>5. v = IF Kuzatuvchi!Kutadi(g, h) THEN Kuzatuvchi!KutganHolat(g, u)
          ELSE IF Kuzatuvchi!Kirilmasdan(g, h) THEN Kuzatuvchi!BekorHolat(g, u)
          ELSE IF Kuzatuvchi!StopUrildi(g, h) THEN Kuzatuvchi!StopHolat(g, u)
          ELSE IF Kuzatuvchi!HammaTp(g, h) THEN Kuzatuvchi!TpHolat(g, h, u)
          ELSE IF Kuzatuvchi!MuddatTugadi(g, h, u - w.boshi) THEN Kuzatuvchi!MuddatHolat(g, h, u)
          ELSE Kuzatuvchi!DavomHolat(g, h, u)
  <2>1. g.status \notin Kuzatuvchi!YopiqHolatlar  BY <1>4 DEF Kuzatuvchi!YopiqHolatlar
  <2>. QED  BY <2>1, Zenon DEF GuvohQadami, GuvohTuri
<1>6. u \in Nat  OBVIOUS
<1>7. y.sabab \notin {"limit", "muddat"} /\ v.status # "timed_out"  OBVIOUS
<1>. HIDE DEF u, g, v
<1>8. Kuzatuvchi!LimitgaTegdi(h) <=> h.low <= 1  BY DarajaSonlari DEF Kuzatuvchi!LimitgaTegdi
<1>9. CASE s.kutmoqda /\ ~(h.low <= 1)
  <2>1. b = s  BY <1>9, DarajaSonlari DEF Bajarilgan
  <2>2. y.savdo = s /\ (h.high >= 1 => y.sabab = "tegmadi") /\ (~(h.high >= 1) => y.sabab = "davom")
    BY <1>7, <1>9, <2>1 DEF _yangila, b
  <2>3. CASE h.high >= 1
    <3>1. ~Kuzatuvchi!Kutadi(g, h) /\ Kuzatuvchi!Kirilmasdan(g, h)
      BY <1>2, <1>4, <1>8, <1>9, <2>3 DEF Kuzatuvchi!Kutadi, Kuzatuvchi!Kirilmasdan
    <3>2. v = Kuzatuvchi!BekorHolat(g, u)  BY <1>5, <3>1
    <3>3. v.status = "cancelled" /\ v.stop = g.stop /\ v.olingan_tp = g.olingan_tp
      BY <1>3, <3>2 DEF Kuzatuvchi!BekorHolat, HolatTuri
    <3>. QED  BY <1>3, <2>2, <2>3, <3>3 DEF Mos, Nomi, v, u
  <2>4. CASE ~(h.high >= 1)
    <3>1. Kuzatuvchi!Kutadi(g, h)
      <4>1. h.high = 0  BY <1>2, <2>4
      <4>. QED  BY <1>4, <1>8, <1>9, <4>1 DEF Kuzatuvchi!Kutadi
    <3>2. v = Kuzatuvchi!KutganHolat(g, u)  BY <1>5, <3>1
    <3>3. v.status = g.status /\ v.stop = g.stop /\ v.olingan_tp = g.olingan_tp
      BY <1>3, <3>2 DEF Kuzatuvchi!KutganHolat, HolatTuri
    <3>. QED  BY <1>3, <1>9, <2>2, <2>4, <3>3 DEF Mos, Nomi, v, u
  <2>. QED  BY <2>3, <2>4
<1>10. CASE ~(s.kutmoqda /\ ~(h.low <= 1))
  <2>1. b \in SavdoTuri /\ ~b.kutmoqda /\ b.stop = s.stop /\ b.tp_soni = s.tp_soni
    BY <1>1, <1>6, <1>10, DarajaSonlari DEF Bajarilgan, SavdoTuri
  <2>2. Kuzatuvchi!SavdoOchiq(g, h)  BY <1>4, <1>8, <1>10 DEF Kuzatuvchi!SavdoOchiq
  <2>3. ~Kuzatuvchi!Kutadi(g, h) /\ ~Kuzatuvchi!Kirilmasdan(g, h)
    BY <2>2 DEF Kuzatuvchi!SavdoOchiq, Kuzatuvchi!Kutadi, Kuzatuvchi!Kirilmasdan
  <2>4. Kuzatuvchi!StopUrildi(g, h) <=> h.low <= s.stop
    BY <1>3, <2>2 DEF Kuzatuvchi!StopUrildi
  <2>5. y = IF h.low <= b.stop THEN [savdo |-> b, sabab |-> "stop"]
            ELSE [savdo |-> n, sabab |-> IF n.tp_soni >= TpSoni THEN "tp"
                                         ELSE IF u - b.kirish_vaqti >= Muddati(n) THEN "muddat" ELSE "davom"]
    BY <2>1 DEF _yangila
  <2>. HIDE DEF b, y
  <2>6. CASE h.low <= s.stop
    <3>1. y.savdo = b /\ y.sabab = "stop"  BY <2>1, <2>5, <2>6
    <3>2. v = Kuzatuvchi!StopHolat(g, u)  BY <1>5, <2>3, <2>4, <2>6
    <3>3. v.status = "stopped" /\ v.stop = g.stop /\ v.olingan_tp = g.olingan_tp /\ v.narx = g.stop
      BY <1>3, <3>2 DEF Kuzatuvchi!StopHolat, HolatTuri
    <3>. QED  BY <1>3, <2>1, <3>1, <3>3 DEF Mos, Nomi, v, u, y
  <2>7. CASE ~(h.low <= s.stop)
    <3>1. PICK x \in 0..TpSoni : x = IF h.high > s.tp_soni THEN h.high ELSE s.tp_soni  BY <1>1, <1>2
    <3>2. PICK z \in {Kuzatuvchi!STOP, ENTRY} : z = IF s.tp_soni = 0 /\ h.high >= 1 THEN ENTRY ELSE s.stop
      BY <1>1, DarajaSonlari
    <3>3. n.tp_soni = x /\ n.stop = z /\ ~n.kutmoqda
      <4>1. n = [b EXCEPT !.tp_soni = x, !.stop = z]
        BY <2>1, <3>1, <3>2 DEF Nishonlar, SavdoTuri
      <4>. HIDE DEF n
      <4>. QED  BY <2>1, <4>1 DEF SavdoTuri
    <3>. HIDE DEF n
    <3>4. Kuzatuvchi!OlinganTp(g, h) = x  BY <1>3, <3>1 DEF Kuzatuvchi!OlinganTp
    <3>5. Kuzatuvchi!YangiStop(g, h) = z
      BY <1>3, <3>2, DarajaSonlari DEF Kuzatuvchi!YangiStop
    <3>6. Kuzatuvchi!HammaTp(g, h) <=> x >= TpSoni
      BY <2>2, <2>4, <2>7, <3>4 DEF Kuzatuvchi!HammaTp
    <3>7. y.savdo = n /\ (x >= TpSoni => y.sabab = "tp") /\ (~(x >= TpSoni) => y.sabab = "davom")
      <4>1. y.sabab \notin {"limit", "muddat"}  BY <1>7 DEF y
      <4>. QED  BY <2>1, <2>5, <2>7, <3>3, <4>1
    <3>8. CASE x >= TpSoni
      <4>1. v = Kuzatuvchi!TpHolat(g, h, u)  BY <1>5, <2>3, <2>4, <2>7, <3>6, <3>8
      <4>2. v.status = "tp2_hit" /\ v.stop = z /\ v.olingan_tp = x
        BY <1>3, <3>4, <3>5, <4>1 DEF Kuzatuvchi!TpHolat, HolatTuri
      <4>. QED  BY <3>3, <3>7, <3>8, <4>2 DEF Mos, Nomi, v, u, y
    <3>9. CASE ~(x >= TpSoni)
      <4>1. v = Kuzatuvchi!MuddatHolat(g, h, u) \/ v = Kuzatuvchi!DavomHolat(g, h, u)
        BY <1>5, <2>3, <2>4, <2>7, <3>6, <3>9
      <4>2. v # Kuzatuvchi!MuddatHolat(g, h, u)
        BY <1>3, <1>7 DEF Kuzatuvchi!MuddatHolat, HolatTuri
      <4>3. v = Kuzatuvchi!DavomHolat(g, h, u)  BY <4>1, <4>2
      <4>4. v.stop = z /\ v.olingan_tp = x
            /\ v.status = IF x >= 1 THEN "tp1_hit" ELSE IF g.status = "pending" THEN "active" ELSE g.status
        BY <1>3, <3>4, <3>5, <4>3 DEF Kuzatuvchi!DavomHolat, HolatTuri
      <4>5. v.status = IF x > 0 THEN "tp1_hit" ELSE "active"
        <5>1. x >= 1 <=> x > 0  BY <3>1
        <5>2. ~(x > 0) => ~(s.tp_soni > 0)  BY <1>1, <1>2, <3>1
        <5>. QED  BY <1>3, <1>4, <4>4, <5>1, <5>2
      <4>. QED  BY <3>3, <3>7, <3>9, <4>4, <4>5 DEF Mos, Nomi, v, u, y
    <3>. QED  BY <3>8, <3>9
  <2>. QED  BY <2>6, <2>7
<1>. QED  BY <1>9, <1>10

(* What is true of every moment of the replay: beside what is to hold, that each *)
(* open trade has a candle to be moved by, a witness and no end yet.             *)
OchiqButun ==
    \A c \in Ochiqlar : /\ ekranSham[c] \in KSham /\ guvohi[c] \in GuvohTuri /\ yakuni[c] = HECH
                        /\ OchiqSavdo(joylar[c], lahza)
SInv ==
    /\ STypeOK
    /\ nomzodi \in [Coinlari -> Nat]
    /\ jami \in [ochildi : Nat, yopildi : Nat, bajarilmagan : Nat]
    /\ \A c \in Coinlari : ekranSham[c] \in KSham \cup {HECH}
    /\ OchiqButun
    /\ KuzatuvchiKabi /\ HisobotButun /\ SigimTogri

(* Counting two sets apart. *)
LEMMA AlohidaL ==
  ASSUME NEW A, NEW Bd, IsFiniteSet(A), IsFiniteSet(Bd), A \cap Bd = {}
  PROVE  Cardinality(A \cup Bd) = Cardinality(A) + Cardinality(Bd)
<1>1. Cardinality(A \cap Bd) = 0  BY FS_EmptySet
<1>2. Cardinality(A \cup Bd) = Cardinality(A) + Cardinality(Bd) - Cardinality(A \cap Bd)  BY FS_Union
<1>3. Cardinality(A) \in Nat /\ Cardinality(Bd) \in Nat  BY FS_CardinalityType
<1>. QED  BY <1>1, <1>2, <1>3

(* The limits as the turns state them are the limits as the property does. *)
LEMMA SigimL ==
  ASSUME sigimi \in Sigimlar, sigimi.sigim => Cheklangan(Ochiqlar) /\ Qaralgan(nomzodi, Ochiqlar, Nomzodlar(nomzodi))
  PROVE  SigimTogri
  BY DEF SigimTogri, Cheklangan, Qaralgan, Guruhi

(* Nothing is open at first. *)
LEMMA SInitL == SInit => SInv
<1>. SUFFICES ASSUME SInit PROVE SInv  OBVIOUS
<1>1. Ochiqlar = {}  BY DEF SInit, Ochiqlar
<1>2. Cardinality(Ochiqlar) = 0  BY <1>1, FS_EmptySet
<1>3. MaxQadam \in Nat /\ 0 \in 0..(MaxQadam + 1)  BY SinovFarazi
<1>4. STypeOK  BY <1>1, <1>3 DEF STypeOK, SInit
<1>5. nomzodi \in [Coinlari -> Nat] /\ jami \in [ochildi : Nat, yopildi : Nat, bajarilmagan : Nat]
      /\ \A c \in Coinlari : ekranSham[c] \in KSham \cup {HECH}
  BY DEF SInit
<1>6. OchiqButun  BY <1>1 DEF OchiqButun
<1>7. KuzatuvchiKabi  BY DEF SInit, KuzatuvchiKabi
<1>8. HisobotButun  BY <1>1, <1>2, <1>3 DEF SInit, HisobotButun
<1>9. SigimTogri
  <2>1. Nomzodlar(nomzodi) = {}  BY DEF SInit, Nomzodlar
  <2>2. sigimi \in Sigimlar /\ sigimi.max_open \in Nat  BY SinovFarazi DEF SInit
  <2>. QED  BY <1>1, <1>2, <2>1, <2>2, SigimL DEF Cheklangan, Qaralgan
<1>. QED  BY <1>4, <1>5, <1>6, <1>7, <1>8, <1>9 DEF SInv

(* A new trade and its witness. *)
LEMMA YangiL ==
  ASSUME lahza \in Nat
  PROVE  OchiqSavdo(YangiSavdo, lahza + 1) /\ YangiGuvoh \in GuvohTuri /\ Mos(YangiSavdo, "davom", YangiGuvoh)
<1>1. YangiSavdo \in SavdoTuri /\ TpSoni \in Nat \ {0}  BY SinovFarazi DEF YangiSavdo, SavdoTuri
<1>2. OchiqSavdo(YangiSavdo, lahza + 1)
  BY <1>1, DarajaSonlari DEF OchiqSavdo, YangiSavdo
<1>3. YangiGuvoh \in GuvohTuri
  <2>1. Kuzatuvchi!YOQ \in Int /\ "pending" \in Kuzatuvchi!Holatlar
    BY DEF Kuzatuvchi!YOQ, Kuzatuvchi!Holatlar, Kuzatuvchi!OchiqHolatlar
  <2>. QED  BY <1>1, <2>1 DEF YangiGuvoh, GuvohTuri, HolatTuri
<1>4. Mos(YangiSavdo, "davom", YangiGuvoh)  BY DEF Mos, Nomi, YangiSavdo, YangiGuvoh
<1>. QED  BY <1>2, <1>3, <1>4

(* One moment of the timeline. *)
LEMMA QadamL ==
  ASSUME SInv, NEW h \in [Coinlari -> Kuzatuvchi!Sham \cup {HECH}], NEW n \in Topilgan(h), Qadam(h, n)
  PROVE  SInv'
<1>. DEFINE t == lahza + 1
            Y == [c \in Ochiqlar |-> _yangila(joylar[c], Korinadi(h)[c], t)]
            W == [c \in Ochiqlar |-> GuvohQadami(guvohi[c], Korinadi(h)[c], t)]
            tugagan == {c \in Ochiqlar : Y[c].sabab # "davom"}
            bekor == {c \in tugagan : Y[c].sabab \in {"tegmadi", "limit"}}
            qolgan == Ochiqlar \ tugagan
            yangilar == _joylashtir(n, qolgan) \ qolgan
<1>1. /\ lahza < MaxQadam /\ lahza' = t /\ ekranSham' = Korinadi(h) /\ nomzodi' = n /\ sigimi' = sigimi
      /\ joylar' = [c \in Coinlari |-> CASE c \in qolgan -> Y[c].savdo
                                         [] c \in yangilar -> YangiSavdo
                                         [] OTHER -> HECH]
      /\ yakuni' = [c \in Coinlari |-> CASE c \in tugagan -> [savdo |-> Y[c].savdo, sabab |-> Y[c].sabab]
                                         [] c \in yangilar -> HECH
                                         [] OTHER -> yakuni[c]]
      /\ guvohi' = [c \in Coinlari |-> CASE c \in Ochiqlar -> W[c]
                                         [] c \in yangilar -> YangiGuvoh
                                         [] OTHER -> guvohi[c]]
      /\ chekka' = (chekka \ yangilar) \cup
                   {c \in Ochiqlar : \/ h[c] = HECH
                                     \/ Y[c].sabab \in {"limit", "muddat"}
                                     \/ W[c].holat.status = "timed_out"}
      /\ jami' = [ochildi |-> jami.ochildi + Cardinality(yangilar),
                  yopildi |-> jami.yopildi + Cardinality(tugagan \ bekor),
                  bajarilmagan |-> jami.bajarilmagan + Cardinality(bekor)]
  BY DEF Qadam
<1>2. /\ Ochiqlar \subseteq Coinlari /\ IsFiniteSet(Ochiqlar) /\ chekka \subseteq Coinlari
      /\ lahza \in Nat /\ MaxQadam \in Nat /\ sigimi \in Sigimlar
      /\ HECH \notin SavdoTuri
  <2>1. Ochiqlar \subseteq Coinlari  BY DEF Ochiqlar
  <2>2. IsFiniteSet(Ochiqlar)  BY <2>1, CoinlarL, FS_Subset
  <2>. QED  BY <2>1, <2>2, SinovFarazi DEF SInv, STypeOK
<1>3. tugagan \subseteq Ochiqlar /\ bekor \subseteq tugagan /\ qolgan \subseteq Ochiqlar
      /\ qolgan \cup tugagan = Ochiqlar /\ qolgan \cap tugagan = {} /\ qolgan \cap yangilar = {}
  OBVIOUS
<1>4. \A c \in Ochiqlar :
        /\ Korinadi(h)[c] \in KSham /\ OchiqSavdo(joylar[c], lahza) /\ guvohi[c] \in GuvohTuri
        /\ yakuni[c] = HECH
        /\ Y[c] = _yangila(joylar[c], Korinadi(h)[c], t)
        /\ W[c] = GuvohQadami(guvohi[c], Korinadi(h)[c], t)
  BY <1>2 DEF SInv, OchiqButun, Korinadi, KSham
<1>5. \A c \in Ochiqlar :
        /\ Y[c].savdo \in SavdoTuri /\ (Y[c].sabab = "davom" => OchiqSavdo(Y[c].savdo, t))
        /\ W[c] \in GuvohTuri
  <2>. SUFFICES ASSUME NEW c \in Ochiqlar
                PROVE  /\ Y[c].savdo \in SavdoTuri /\ (Y[c].sabab = "davom" => OchiqSavdo(Y[c].savdo, t))
                       /\ W[c] \in GuvohTuri
    OBVIOUS
  <2>. HIDE DEF Y, W
  <2>1. t \in Nat  BY <1>2
  <2>. QED  BY <1>2, <1>4, <2>1, YangilaL, GuvohL
<1>6. n \in [Coinlari -> Nat] /\ (\A c \in Coinlari : n[c] > 0 => c \in Qaraladigan(h))
  <2>1. PICK q \in [Qaraladigan(h) -> Ishonchlar \cup {0}] :
           n = [c \in Coinlari |-> IF c \in Qaraladigan(h) THEN q[c] ELSE 0]
    BY DEF Topilgan
  <2>2. \A x \in Ishonchlar \cup {0} : x \in Nat  BY SinovFarazi
  <2>. DEFINE A == Qaraladigan(h)
  <2>3. q \in [A -> Ishonchlar \cup {0}] /\ n = [c \in Coinlari |-> IF c \in A THEN q[c] ELSE 0]
    BY <2>1
  <2>. HIDE DEF A
  <2>4. ASSUME NEW c \in Coinlari PROVE n[c] \in Nat /\ (n[c] > 0 => c \in A)
    <3>1. CASE c \in A
      <4>1. n[c] = q[c]  BY <2>3, <3>1
      <4>2. q[c] \in Ishonchlar \cup {0}  BY <2>3, <3>1
      <4>3. q[c] \in Nat  BY <2>2, <4>2
      <4>. QED  BY <3>1, <4>1, <4>3
    <3>2. CASE c \notin A
      <4>1. n[c] = 0  BY <2>3, <3>2
      <4>. QED  BY <4>1
    <3>. QED  BY <3>1, <3>2
  <2>5. n \in [Coinlari -> Nat]  BY <2>3, <2>4
  <2>. QED  BY <2>4, <2>5 DEF A
<1>7. \A c \in Nomzodlar(n) : c \in Coinlari /\ c \notin Ochiqlar /\ Korinadi(h)[c] \in KSham
  <2>1. \A c \in Coinlari : Korinadi(h)[c] \in KSham \cup {HECH}
    BY DEF SInv, Korinadi, KSham
  <2>. QED  BY <1>6, <2>1 DEF Nomzodlar, Qaraladigan, Ochiqlar
<1>. HIDE DEF t, Y, W
<1>8. \A c \in qolgan : n[c] = 0
  <2>1. \A c \in qolgan : c \in Coinlari /\ c \notin Nomzodlar(n)  BY <1>2, <1>7
  <2>. QED  BY <1>6, <2>1 DEF Nomzodlar
<1>9. sigimi.sigim => Cheklangan(qolgan)
  <2>. SUFFICES ASSUME sigimi.sigim PROVE Cheklangan(qolgan)  OBVIOUS
  <2>1. /\ Cardinality(Ochiqlar) <= sigimi.max_open
        /\ \A c \in Ochiqlar :
              Guruhlar[c] # GURUHSIZ => Cardinality(GuruhdaBand(Ochiqlar, c)) <= sigimi.max_guruh
    BY DEF SInv, SigimTogri
  <2>2. sigimi.max_open \in Nat /\ sigimi.max_guruh \in Nat  BY <1>2, SinovFarazi
  <2>. HIDE DEF qolgan
  <2>3. Cardinality(qolgan) <= Cardinality(Ochiqlar) /\ Cardinality(qolgan) \in Nat /\ Cardinality(Ochiqlar) \in Nat
    <3>1. IsFiniteSet(qolgan)  BY <1>2, <1>3, FS_Subset
    <3>. QED  BY <1>2, <1>3, <3>1, FS_Subset, FS_CardinalityType
  <2>4. ASSUME NEW c \in qolgan, Guruhlar[c] # GURUHSIZ
        PROVE  Cardinality(GuruhdaBand(qolgan, c)) <= sigimi.max_guruh
    <3>1. GuruhdaBand(qolgan, c) \subseteq GuruhdaBand(Ochiqlar, c)  BY <1>3 DEF GuruhdaBand
    <3>2. c \in Ochiqlar /\ c \in Coinlari  BY <1>2, <1>3
    <3>3. IsFiniteSet(GuruhdaBand(Ochiqlar, c)) /\ Cardinality(GuruhdaBand(Ochiqlar, c)) \in Nat
      BY <1>2, <3>2, GuruhL
    <3>4. Cardinality(GuruhdaBand(qolgan, c)) <= Cardinality(GuruhdaBand(Ochiqlar, c))
      BY <3>1, <3>3, FS_Subset
    <3>5. Cardinality(GuruhdaBand(qolgan, c)) \in Nat
      BY <3>1, <3>3, FS_Subset, FS_CardinalityType
    <3>6. Cardinality(GuruhdaBand(Ochiqlar, c)) <= sigimi.max_guruh  BY <2>1, <2>4, <3>2
    <3>. QED  BY <2>2, <3>3, <3>4, <3>5, <3>6
  <2>. QED  BY <2>1, <2>2, <2>3, <2>4 DEF Cheklangan
<1>. DEFINE J == _joylashtir(n, qolgan)
<1>10. /\ qolgan \subseteq J /\ J \subseteq qolgan \cup Nomzodlar(n)
       /\ sigimi.sigim => Cheklangan(J) /\ Qaralgan(n, J, Nomzodlar(n))
  <2>1. qolgan \in SUBSET Coinlari  BY <1>2, <1>3
  <2>. HIDE DEF qolgan
  <2>. QED  BY <1>2, <1>6, <1>8, <1>9, <2>1, JoylashtirL
<1>. HIDE DEF J, qolgan, tugagan, bekor
<1>11. yangilar = J \ qolgan  BY DEF J
<1>. HIDE DEF yangilar
<1>12. /\ yangilar \subseteq Coinlari /\ yangilar \cap Ochiqlar = {} /\ J = qolgan \cup yangilar
       /\ \A c \in yangilar : Korinadi(h)[c] \in KSham
  BY <1>3, <1>7, <1>10, <1>11
<1>13. \A c \in qolgan : OchiqSavdo(Y[c].savdo, t)
  BY <1>3, <1>5 DEF qolgan, tugagan
<1>14. OchiqSavdo(YangiSavdo, t) /\ YangiGuvoh \in GuvohTuri /\ Mos(YangiSavdo, "davom", YangiGuvoh)
  BY <1>2, YangiL DEF t
<1>15. \A c \in Coinlari :
         /\ (c \in qolgan => joylar'[c] = Y[c].savdo)
         /\ (c \in yangilar => joylar'[c] = YangiSavdo)
         /\ (c \notin J => joylar'[c] = HECH)
  BY <1>1, <1>3, <1>12
<1>24. \A c \in Coinlari :
         /\ (c \in Ochiqlar => guvohi'[c] = W[c])
         /\ (c \in tugagan => yakuni'[c] = [savdo |-> Y[c].savdo, sabab |-> Y[c].sabab])
  <2>1. guvohi' = [c \in Coinlari |-> CASE c \in Ochiqlar -> W[c]
                                        [] c \in yangilar -> YangiGuvoh
                                        [] OTHER -> guvohi[c]]
    BY <1>1
  <2>2. yakuni' = [c \in Coinlari |-> CASE c \in tugagan -> [savdo |-> Y[c].savdo, sabab |-> Y[c].sabab]
                                        [] c \in yangilar -> HECH
                                        [] OTHER -> yakuni[c]]
    BY <1>1
  <2>3. \A c \in Coinlari : c \in tugagan => c \notin yangilar  BY <1>3, <1>12
  <2>4. \A c \in Coinlari : c \in Ochiqlar => c \notin yangilar  BY <1>12
  <2>5. \A c \in Coinlari : c \in Ochiqlar => guvohi'[c] = W[c]
    <3>. QED  BY <2>1, <2>4
  <2>6. \A c \in Coinlari : c \in tugagan => yakuni'[c] = [savdo |-> Y[c].savdo, sabab |-> Y[c].sabab]
    BY <2>2, <2>3
  <2>. QED  BY <2>5, <2>6
<1>16. \A c \in J : joylar'[c] \in SavdoTuri /\ OchiqSavdo(joylar'[c], t)
  BY <1>2, <1>3, <1>12, <1>13, <1>14, <1>15 DEF OchiqSavdo
<1>17. Ochiqlar' = J
  <2>1. J \subseteq Coinlari  BY <1>2, <1>3, <1>12
  <2>. QED  BY <1>2, <1>15, <1>16, <2>1 DEF Ochiqlar
<1>18. STypeOK'
  <2>1. lahza' \in 0..(MaxQadam + 1) /\ sigimi' \in Sigimlar  BY <1>1, <1>2 DEF t
  <2>2. joylar' \in [Coinlari -> SavdoTuri \cup {HECH}]
    <3>1. \A c \in Coinlari : joylar'[c] \in SavdoTuri \cup {HECH}  BY <1>15, <1>16
    <3>. QED  BY <1>1, <3>1
  <2>3. chekka' \subseteq Coinlari  BY <1>1, <1>2
  <2>. QED  BY <1>16, <1>17, <2>1, <2>2, <2>3 DEF STypeOK, OchiqSavdo
<1>19. nomzodi' \in [Coinlari -> Nat] /\ \A c \in Coinlari : ekranSham'[c] \in KSham \cup {HECH}
  BY <1>1, <1>6 DEF SInv, Korinadi, KSham
<1>20. OchiqButun'
  <2>. SUFFICES ASSUME NEW c \in J
                PROVE  /\ ekranSham'[c] \in KSham /\ guvohi'[c] \in GuvohTuri /\ yakuni'[c] = HECH
                       /\ OchiqSavdo(joylar'[c], lahza')
    BY <1>17 DEF OchiqButun, OchiqSavdo
  <2>1. CASE c \in qolgan
    <3>1. c \in Ochiqlar /\ c \in Coinlari /\ c \notin tugagan /\ c \notin yangilar
      BY <1>2, <1>3, <1>12, <2>1
    <3>2. guvohi'[c] = W[c] /\ yakuni'[c] = yakuni[c]  BY <1>1, <3>1
    <3>. QED  BY <1>1, <1>4, <1>5, <1>16, <3>1, <3>2
  <2>2. CASE c \in yangilar
    <3>1. c \notin Ochiqlar /\ c \in Coinlari /\ c \notin tugagan  BY <1>3, <1>12, <2>2
    <3>2. guvohi'[c] = YangiGuvoh /\ yakuni'[c] = HECH  BY <1>1, <2>2, <3>1
    <3>. QED  BY <1>1, <1>12, <1>14, <1>16, <2>2, <3>2
  <2>. QED  BY <1>12, <2>1, <2>2
<1>21. KuzatuvchiKabi'
  <2>. SUFFICES ASSUME NEW c \in Coinlari, c \notin chekka'
                PROVE  /\ (joylar'[c] # HECH => Mos(joylar'[c], "davom", guvohi'[c]))
                       /\ (yakuni'[c] # HECH => Mos(yakuni'[c].savdo, yakuni'[c].sabab, guvohi'[c]))
    BY DEF KuzatuvchiKabi, Mos
  <2>1. CASE c \in Ochiqlar
    <3>1. /\ c \notin yangilar /\ c \notin chekka
          /\ Y[c].sabab \notin {"limit", "muddat"} /\ W[c].holat.status # "timed_out"
      BY <1>1, <1>12, <2>1
    <3>2. joylar[c] # HECH  BY <2>1 DEF Ochiqlar
    <3>3. Mos(joylar[c], "davom", guvohi[c])  BY <3>1, <3>2 DEF SInv, KuzatuvchiKabi
    <3>4. Mos(Y[c].savdo, Y[c].sabab, W[c])
      <4>1. /\ _yangila(joylar[c], Korinadi(h)[c], lahza + 1).sabab \notin {"limit", "muddat"}
            /\ GuvohQadami(guvohi[c], Korinadi(h)[c], lahza + 1).holat.status # "timed_out"
        BY <1>4, <2>1, <3>1 DEF t
      <4>2. Mos(_yangila(joylar[c], Korinadi(h)[c], lahza + 1).savdo,
                _yangila(joylar[c], Korinadi(h)[c], lahza + 1).sabab,
                GuvohQadami(guvohi[c], Korinadi(h)[c], lahza + 1))
        BY <1>2, <1>4, <2>1, <3>3, <4>1, MosL
      <4>. QED  BY <1>4, <2>1, <4>2 DEF t
    <3>5. guvohi'[c] = W[c]  BY <1>24, <2>1
    <3>6. CASE c \in tugagan
      <4>1. joylar'[c] = HECH  BY <1>3, <1>12, <1>15, <3>1, <3>6
      <4>2. yakuni'[c] = [savdo |-> Y[c].savdo, sabab |-> Y[c].sabab]  BY <1>24, <3>6
      <4>. QED  BY <3>4, <3>5, <4>1, <4>2
    <3>7. CASE c \in qolgan
      <4>1. joylar'[c] = Y[c].savdo  BY <1>15, <3>7
      <4>2. Y[c].sabab = "davom"  BY <2>1, <3>7 DEF qolgan, tugagan
      <4>3. yakuni'[c] = HECH
        <5>1. c \notin tugagan  BY <1>3, <3>7
        <5>2. yakuni'[c] = yakuni[c]  BY <1>1, <3>1, <5>1
        <5>. QED  BY <1>4, <2>1, <5>2
      <4>. QED  BY <3>4, <3>5, <4>1, <4>2, <4>3
    <3>. QED  BY <1>3, <2>1, <3>6, <3>7
  <2>2. CASE c \in yangilar
    <3>1. c \notin Ochiqlar /\ c \notin tugagan  BY <1>3, <1>12, <2>2
    <3>2. joylar'[c] = YangiSavdo /\ guvohi'[c] = YangiGuvoh /\ yakuni'[c] = HECH
      BY <1>1, <1>15, <2>2, <3>1
    <3>. QED  BY <1>14, <3>2
  <2>3. CASE c \notin Ochiqlar /\ c \notin yangilar
    <3>1. c \notin tugagan /\ c \notin J /\ c \notin chekka  BY <1>1, <1>3, <1>12, <2>3
    <3>2. joylar'[c] = HECH /\ guvohi'[c] = guvohi[c] /\ yakuni'[c] = yakuni[c]
      BY <1>1, <1>15, <2>3, <3>1
    <3>. QED  BY <3>1, <3>2 DEF SInv, KuzatuvchiKabi
  <2>. QED  BY <2>1, <2>2, <2>3
<1>22. HisobotButun' /\ jami' \in [ochildi : Nat, yopildi : Nat, bajarilmagan : Nat]
  <2>1. /\ IsFiniteSet(tugagan) /\ IsFiniteSet(qolgan) /\ IsFiniteSet(bekor) /\ IsFiniteSet(tugagan \ bekor)
        /\ IsFiniteSet(yangilar)
    <3>1. tugagan \subseteq Ochiqlar /\ bekor \subseteq Ochiqlar /\ tugagan \ bekor \subseteq Ochiqlar
      BY <1>3
    <3>. QED  BY <1>2, <1>3, <1>12, <3>1, CoinlarL, FS_Subset
  <2>2. Cardinality(Ochiqlar) = Cardinality(qolgan) + Cardinality(tugagan)
    BY <1>3, <2>1, AlohidaL
  <2>3. Cardinality(tugagan) = Cardinality(bekor) + Cardinality(tugagan \ bekor)
    <3>1. tugagan = bekor \cup (tugagan \ bekor) /\ bekor \cap (tugagan \ bekor) = {}  BY <1>3
    <3>. QED  BY <2>1, <3>1, AlohidaL
  <2>4. Cardinality(J) = Cardinality(qolgan) + Cardinality(yangilar)
    BY <1>3, <1>12, <2>1, AlohidaL
  <2>5. /\ Cardinality(qolgan) \in Nat /\ Cardinality(tugagan) \in Nat /\ Cardinality(bekor) \in Nat
        /\ Cardinality(tugagan \ bekor) \in Nat /\ Cardinality(yangilar) \in Nat
    BY <2>1, FS_CardinalityType
  <2>6. /\ jami.ochildi \in Nat /\ jami.yopildi \in Nat /\ jami.bajarilmagan \in Nat
        /\ jami.ochildi = jami.yopildi + jami.bajarilmagan + Cardinality(Ochiqlar)
    BY DEF SInv, HisobotButun
  <2>7. /\ jami'.ochildi = jami.ochildi + Cardinality(yangilar)
        /\ jami'.yopildi = jami.yopildi + Cardinality(tugagan \ bekor)
        /\ jami'.bajarilmagan = jami.bajarilmagan + Cardinality(bekor)
    BY <1>1
  <2>8. jami'.ochildi = jami'.yopildi + jami'.bajarilmagan + Cardinality(J)
    <3>1. \A o, y, x, d, q, tg, b, tb, yn, J1 \in Nat :
             o = y + x + d /\ d = q + tg /\ tg = tb + b /\ J1 = q + yn
                => o + yn = (y + tb) + (x + b) + J1
      OBVIOUS
    <3>. QED  BY <2>2, <2>3, <2>4, <2>5, <2>6, <2>7, <3>1
  <2>9. jami' \in [ochildi : Nat, yopildi : Nat, bajarilmagan : Nat]  BY <1>1, <2>5, <2>6
  <2>10. ~(lahza' > MaxQadam)  BY <1>1, <1>2 DEF t
  <2>. QED  BY <1>17, <2>8, <2>9, <2>10 DEF HisobotButun
<1>23. SigimTogri'
  <2>. QED  BY <1>1, <1>10, <1>17
    DEF SigimTogri, Cheklangan, Qaralgan, Guruhi, GuruhdaBand, JoyBor, Nomzodlar
<1>. QED  BY <1>18, <1>19, <1>20, <1>21, <1>22, <1>23 DEF SInv

(* The end of the timeline. *)
LEMMA OynaTugaydiL == SInv /\ OynaTugaydi => SInv'
<1>. SUFFICES ASSUME SInv, OynaTugaydi PROVE SInv'  OBVIOUS
<1>. DEFINE kutgan == {c \in Ochiqlar : joylar[c].kutmoqda}
<1>1. /\ lahza' = MaxQadam + 1 /\ joylar' = [c \in Coinlari |-> HECH]
      /\ nomzodi' = [c \in Coinlari |-> 0] /\ chekka' = chekka \cup Ochiqlar
      /\ sigimi' = sigimi /\ ekranSham' = ekranSham /\ guvohi' = guvohi
  BY DEF OynaTugaydi
<1>2. yakuni' = [c \in Coinlari |->
            IF joylar[c] = HECH THEN yakuni[c]
            ELSE [savdo |-> joylar[c], sabab |-> IF joylar[c].kutmoqda THEN "limit" ELSE "oyna"]]
  BY DEF OynaTugaydi
<1>3. jami' = [jami EXCEPT !.yopildi = @ + Cardinality(Ochiqlar \ kutgan),
                           !.bajarilmagan = @ + Cardinality(kutgan)]
  BY DEF OynaTugaydi
<1>4. Ochiqlar' = {} /\ MaxQadam \in Nat /\ sigimi \in Sigimlar
      /\ Ochiqlar \subseteq Coinlari /\ IsFiniteSet(Ochiqlar)
  <2>1. Ochiqlar' = {}  BY <1>1 DEF Ochiqlar
  <2>2. Ochiqlar \subseteq Coinlari  BY DEF Ochiqlar
  <2>3. IsFiniteSet(Ochiqlar)  BY <2>2, CoinlarL, FS_Subset
  <2>. QED  BY <2>1, <2>2, <2>3, SinovFarazi DEF SInv, STypeOK
<1>5. STypeOK'
  <2>1. lahza' \in 0..(MaxQadam + 1)  BY <1>1, <1>4
  <2>2. chekka' \subseteq Coinlari  BY <1>1, <1>4 DEF SInv, STypeOK
  <2>. QED  BY <1>1, <1>4, <2>1, <2>2 DEF STypeOK
<1>6. nomzodi' \in [Coinlari -> Nat] /\ \A c \in Coinlari : ekranSham'[c] \in KSham \cup {HECH}
  BY <1>1 DEF SInv
<1>7. OchiqButun'  BY <1>4 DEF OchiqButun
<1>8. KuzatuvchiKabi'
  <2>. SUFFICES ASSUME NEW c \in Coinlari, c \notin chekka'
                PROVE  /\ (joylar'[c] # HECH => Mos(joylar'[c], "davom", guvohi'[c]))
                       /\ (yakuni'[c] # HECH => Mos(yakuni'[c].savdo, yakuni'[c].sabab, guvohi'[c]))
    BY DEF KuzatuvchiKabi, Mos
  <2>1. c \notin chekka /\ joylar[c] = HECH  BY <1>1 DEF Ochiqlar
  <2>2. joylar'[c] = HECH /\ yakuni'[c] = yakuni[c] /\ guvohi'[c] = guvohi[c]  BY <1>1, <1>2, <2>1
  <2>. QED  BY <2>1, <2>2 DEF SInv, KuzatuvchiKabi
<1>9. HisobotButun' /\ jami' \in [ochildi : Nat, yopildi : Nat, bajarilmagan : Nat]
  <2>1. IsFiniteSet(kutgan) /\ IsFiniteSet(Ochiqlar \ kutgan)  BY <1>4, FS_Subset
  <2>2. Cardinality(Ochiqlar) = Cardinality(Ochiqlar \ kutgan) + Cardinality(kutgan)
    <3>1. Ochiqlar = (Ochiqlar \ kutgan) \cup kutgan /\ (Ochiqlar \ kutgan) \cap kutgan = {}  OBVIOUS
    <3>. HIDE DEF kutgan
    <3>. QED  BY <2>1, <3>1, AlohidaL
  <2>3. Cardinality(Ochiqlar \ kutgan) \in Nat /\ Cardinality(kutgan) \in Nat
    BY <2>1, FS_CardinalityType
  <2>4. /\ jami \in [ochildi : Nat, yopildi : Nat, bajarilmagan : Nat]
        /\ jami.ochildi \in Nat /\ jami.yopildi \in Nat /\ jami.bajarilmagan \in Nat
        /\ jami.ochildi = jami.yopildi + jami.bajarilmagan + Cardinality(Ochiqlar)
    BY DEF SInv, HisobotButun
  <2>. HIDE DEF kutgan
  <2>5. /\ jami'.ochildi = jami.ochildi
        /\ jami'.yopildi = jami.yopildi + Cardinality(Ochiqlar \ kutgan)
        /\ jami'.bajarilmagan = jami.bajarilmagan + Cardinality(kutgan)
        /\ jami' \in [ochildi : Nat, yopildi : Nat, bajarilmagan : Nat]
    <3>1. PICK x \in Nat : x = Cardinality(Ochiqlar \ kutgan)  BY <2>3
    <3>2. PICK y \in Nat : y = Cardinality(kutgan)  BY <2>3
    <3>3. jami' = [jami EXCEPT !.yopildi = jami.yopildi + x, !.bajarilmagan = jami.bajarilmagan + y]
      BY <1>3, <3>1, <3>2
    <3>4. PICK a \in Nat : a = jami.yopildi + x  BY <2>4, <3>1
    <3>5. PICK b \in Nat : b = jami.bajarilmagan + y  BY <2>4, <3>2
    <3>6. jami' = [jami EXCEPT !.yopildi = a, !.bajarilmagan = b]  BY <3>3, <3>4, <3>5
    <3>7. jami'.ochildi = jami.ochildi /\ jami'.yopildi = a /\ jami'.bajarilmagan = b
          /\ jami' \in [ochildi : Nat, yopildi : Nat, bajarilmagan : Nat]
      BY <2>4, <3>6
    <3>. QED  BY <3>1, <3>2, <3>4, <3>5, <3>7
  <2>6. Cardinality(Ochiqlar') = 0
    <3>1. \A S : S = {} => Cardinality(S) = 0  BY FS_EmptySet
    <3>. QED  BY <1>4, <3>1
  <2>7. jami'.ochildi = jami'.yopildi + jami'.bajarilmagan + 0
    BY <2>2, <2>3, <2>4, <2>5
  <2>. QED  BY <1>4, <2>5, <2>6, <2>7 DEF HisobotButun
<1>10. SigimTogri'
  <2>1. Nomzodlar(nomzodi') = {}  BY <1>1 DEF Nomzodlar
  <2>2. Cardinality(Ochiqlar') = 0 /\ sigimi.max_open \in Nat
    <3>1. \A S : S = {} => Cardinality(S) = 0  BY FS_EmptySet
    <3>. QED  BY <1>4, <3>1, SinovFarazi
  <2>. QED  BY <1>1, <1>4, <2>1, <2>2 DEF SigimTogri, Nomzodlar
<1>. QED  BY <1>5, <1>6, <1>7, <1>8, <1>9, <1>10 DEF SInv

(* A moment of which the replay takes no notice. *)
LEMMA STinchL == SInv /\ UNCHANGED svars => SInv'
<1>. SUFFICES ASSUME SInv, UNCHANGED svars PROVE SInv'  OBVIOUS
<1>1. /\ lahza' = lahza /\ sigimi' = sigimi /\ ekranSham' = ekranSham /\ joylar' = joylar
      /\ nomzodi' = nomzodi /\ yakuni' = yakuni /\ guvohi' = guvohi /\ chekka' = chekka /\ jami' = jami
  BY DEF svars
<1>2. Ochiqlar' = Ochiqlar  BY <1>1 DEF Ochiqlar
<1>3. STypeOK' /\ OchiqButun'  BY <1>1, <1>2 DEF SInv, STypeOK, OchiqButun, OchiqSavdo
<1>4. KuzatuvchiKabi'  BY <1>1 DEF SInv, KuzatuvchiKabi, Mos
<1>5. HisobotButun'  BY <1>1, <1>2 DEF SInv, HisobotButun
<1>6. SigimTogri'
  BY <1>1, <1>2 DEF SInv, SigimTogri, JoyBor, GuruhdaBand, Nomzodlar
<1>. QED  BY <1>1, <1>3, <1>4, <1>5, <1>6 DEF SInv

(* The replay says of a trade what the live watcher would over the same candles, but *)
(* for gaps and time limits; its report counts each trade once; and the portfolio's  *)
(* limits hold with no place left empty and no stronger candidate passed but for his *)
(* group (zanjir_engine.py).  Nothing is assumed of the candles or of the chain.     *)
THEOREM SinovTeoremasi == SSpec => []SinovTogri
<1>1. SInit => SInv  BY SInitL
<1>2. SInv /\ [SNext]_svars => SInv'
  <2>. SUFFICES ASSUME SInv, [SNext]_svars PROVE SInv'  OBVIOUS
  <2>1. CASE \E h \in [Coinlari -> Kuzatuvchi!Sham \cup {HECH}] :
                /\ \A c \in Coinlari : h[c] \in Shamlar[c] \cup {HECH}
                /\ \E n \in Topilgan(h) : Qadam(h, n)
    BY <2>1, QadamL
  <2>2. CASE OynaTugaydi  BY <2>2, OynaTugaydiL
  <2>3. CASE UNCHANGED svars  BY <2>3, STinchL
  <2>. QED  BY <2>1, <2>2, <2>3 DEF SNext
<1>3. SInv => SinovTogri  BY DEF SInv, SinovTogri
<1>. QED  BY <1>1, <1>2, <1>3, PTL DEF SSpec
=============================================================================
