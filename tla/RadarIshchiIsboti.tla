--------------------------- MODULE RadarIshchiIsboti ---------------------------
(* Proofs about the explosion radar's worker: every slot of the timetable runs  *)
(* exactly once, the volumes are refreshed no faster than the code promises,    *)
(* and what the screen concludes from several sessions follows from them.       *)
EXTENDS RadarIshchi, FiniteSetTheorems, SequenceTheorems, TLAPS

-----------------------------------------------------------------------------
\* The timetable (core/portlash_radari/vaqt.py)

\* A slot: an official kind of session and a candle.
Slot == [turi : RASMIY_TURLAR, sham : Int]
Karrali(r) == \E m \in Int : r.sham = ShamDavri * m

\* Multiples of the candle's length that are less than one length apart.
LEMMA KarraliL ==
  ASSUME NEW D \in Nat \ {0}, NEW a \in Int, NEW b \in Int, D * a < D * b + D
  PROVE  a <= b
<1>. SUFFICES ASSUME a >= b + 1 PROVE FALSE  OBVIOUS
<1>1. PICK e \in Nat : e = a - b - 1  OBVIOUS
<1>2. a = b + 1 + e  BY <1>1
<1>3. D * a = D * b + D + D * e  BY <1>2
<1>4. D * b \in Int /\ D * e \in Int /\ D * a \in Int /\ D * e >= 0  OBVIOUS
<1>. QED  BY <1>3, <1>4

\* One more candle.
LEMMA KopaytL ==
  ASSUME NEW D \in Nat, NEW m \in Nat
  PROVE  (m + 1) * D = D + m * D /\ m * D \in Int /\ m * D >= 0
  OBVIOUS

\* sham_boshi: the candle an instant falls into.
LEMMA BoshiL ==
  ASSUME NEW t \in Int
  PROVE  /\ sham_boshi(t) = ShamDavri * (t \div ShamDavri) /\ t \div ShamDavri \in Int
         /\ sham_boshi(t) \in Int
         /\ sham_boshi(t) <= t /\ t < sham_boshi(t) + ShamDavri
  BY VaqtFarazi DEF sham_boshi

\* A window lies inside the candle before its own.
LEMMA OynaL ==
  ASSUME NEW t \in Int, NEW r \in Slot, Karrali(r), Oynada(r, t)
  PROVE  r.sham = keyingi_sham(t)
<1>. DEFINE D == ShamDavri
            b == t \div D
<1>1. PICK m \in Int : r.sham = D * m  BY DEF Karrali
<1>2. /\ D \in Nat \ {0} /\ b \in Int /\ sham_boshi(t) = D * b /\ D * b \in Int
      /\ D * b <= t /\ t < D * b + D
  BY BoshiL, VaqtFarazi
<1>3. r.sham \in Int /\ r.turi \in {KASHFIYOT, TASDIQ}  BY DEF Slot, RASMIY_TURLAR
<1>4. t < r.sham /\ r.sham < t + D
  BY <1>2, <1>3, VaqtFarazi DEF Oynada, sessiya_vaqti, oxirgi_muddat, KASHFIYOT, TASDIQ
<1>5. D * (b + 1) = D * b + D /\ b + 1 \in Int /\ D * (b + 1) \in Int  BY <1>2
<1>6. m <= b + 1  
  <2>1. D * m < D * (b + 1) + D  BY <1>1, <1>2, <1>3, <1>4, <1>5
  <2>. QED  BY <2>1, <1>2, <1>5, KarraliL
<1>7. b + 1 <= m
  <2>1. D * (b + 1) < D * m + D  BY <1>1, <1>2, <1>3, <1>4, <1>5
  <2>. QED  BY <2>1, <1>2, <1>5, KarraliL
<1>8. m = b + 1  BY <1>6, <1>7, <1>2
<1>. QED  BY <1>1, <1>2, <1>5, <1>8 DEF keyingi_sham

\* At no instant are two sessions due (vaqt.py: bajariladiganlar): the windows of
\* A and B of a candle, and those of neighbouring candles, do not overlap.
THEOREM BittaSessiya ==
  ASSUME NEW t \in Int, NEW r \in Slot, NEW q \in Slot,
         Karrali(r), Karrali(q), Oynada(r, t), Oynada(q, t)
  PROVE  r = q
<1>1. r.sham = q.sham  BY OynaL
<1>2. r.sham \in Int /\ r.turi \in {KASHFIYOT, TASDIQ} /\ q.turi \in {KASHFIYOT, TASDIQ}
  BY DEF Slot, RASMIY_TURLAR
<1>3. r.turi = q.turi
  BY <1>1, <1>2, VaqtFarazi DEF Oynada, sessiya_vaqti, oxirgi_muddat, KASHFIYOT, TASDIQ
<1>. QED  BY <1>1, <1>3 DEF Slot

\* atrofdagi: the sessions around an instant are slots, and hold every slot whose
\* window is open.
LEMMA AtrofL ==
  ASSUME NEW t \in Int
  PROVE  /\ \A r \in atrofdagi(t) : r \in Slot /\ Karrali(r)
         /\ \A r \in Slot : Karrali(r) /\ Oynada(r, t) => r \in atrofdagi(t)
<1>. DEFINE b == t \div ShamDavri
<1>1. ShamDavri \in Nat \ {0} /\ b \in Int /\ sham_boshi(t) = ShamDavri * b  BY BoshiL, VaqtFarazi
<1>2. ASSUME NEW r \in atrofdagi(t)  PROVE r \in Slot /\ Karrali(r)
  <2>1. PICK turi \in RASMIY_TURLAR, k \in -1..2 :
           r = Rejadagi(turi, sham_boshi(t) + ShamDavri * k)
    BY DEF atrofdagi
  <2>2. ShamDavri * b + ShamDavri * k = ShamDavri * (b + k) /\ b + k \in Int /\ ShamDavri * (b + k) \in Int
    BY <1>1
  <2>. QED  BY <1>1, <2>1, <2>2 DEF Slot, Karrali, Rejadagi
<1>3. ASSUME NEW r \in Slot, Karrali(r), Oynada(r, t)  PROVE r \in atrofdagi(t)
  <2>1. r.sham = sham_boshi(t) + ShamDavri * 1  BY <1>1, <1>3, OynaL DEF keyingi_sham
  <2>2. r = Rejadagi(r.turi, r.sham) /\ r.turi \in RASMIY_TURLAR  BY DEF Slot, Rejadagi
  <2>3. 1 \in -1..2  OBVIOUS
  <2>. QED  BY <2>1, <2>2, <2>3 DEF atrofdagi
<1>. QED  BY <1>2, <1>3

\* bajariladiganlar: the list of what is due holds exactly the open windows.
LEMMA BajariladiL ==
  ASSUME NEW t \in Int
  PROVE  /\ bajariladiganlar(t) \in Seq(Slot)
         /\ \A k \in DOMAIN bajariladiganlar(t) :
               Karrali(bajariladiganlar(t)[k]) /\ Oynada(bajariladiganlar(t)[k], t)
         /\ \A r \in Slot : Karrali(r) /\ Oynada(r, t) =>
               \E k \in DOMAIN bajariladiganlar(t) : bajariladiganlar(t)[k] = r
<1>. DEFINE S == {r \in atrofdagi(t) : Oynada(r, t)}
            P(q) == IsInjective(q) /\ \A i, k \in DOMAIN q : i < k => ~Vaqtligi(q[k], q[i])
            n == Cardinality(S)
            q == bajariladiganlar(t)
<1>1. q = CHOOSE f \in [1..n -> S] : P(f)  BY DEF bajariladiganlar
<1>2. S \subseteq Slot /\ \A r \in S : Karrali(r) /\ Oynada(r, t)  BY AtrofL
<1>3. \A r, s \in S : r = s  BY <1>2, BittaSessiya
<1>4. /\ n \in Nat /\ \E f \in [1..n -> S] : P(f)
      /\ \A f \in [1..n -> S] : \A r \in S : \E k \in 1..n : f[k] = r
  <2>. DEFINE f == [k \in 1..n |-> CHOOSE r \in S : TRUE]
  <2>1. CASE S = {}
    <3>1. n = 0 /\ 1..n = {}  BY <2>1, FS_EmptySet
    <3>2. f \in [1..n -> S] /\ DOMAIN f = {}  BY <3>1
    <3>3. P(f)  BY <3>2 DEF IsInjective
    <3>. HIDE DEF f, S, n, P
    <3>. QED  BY <2>1, <3>1, <3>2, <3>3
  <2>2. CASE S # {}
    <3>1. PICK r \in S : S = {r}  BY <1>3, <2>2
    <3>2. n = 1 /\ 1..n = {1}  BY <3>1, FS_Singleton
    <3>3. f \in [1..n -> S] /\ DOMAIN f = {1}  BY <3>1, <3>2
    <3>4. P(f)  BY <3>3 DEF IsInjective
    <3>. HIDE DEF f, S, n, P
    <3>5. \A g \in [1..n -> S] : \A s \in S : \E k \in 1..n : g[k] = s
      <4>. SUFFICES ASSUME NEW g \in [1..n -> S], NEW s \in S  PROVE g[1] = s
        BY <3>2
      <4>1. 1 \in 1..n  BY <3>2
      <4>2. g[1] \in S  BY <4>1
      <4>. QED  BY <3>1, <4>2
    <3>. QED  BY <3>2, <3>3, <3>4, <3>5
  <2>. QED  BY <2>1, <2>2
<1>5. q \in [1..n -> S]  BY <1>1, <1>4
<1>6. q \in Seq(Slot) /\ DOMAIN q = 1..n
  <2>1. q \in [1..n -> Slot]  BY <1>2, <1>5, Zenon
  <2>2. n \in Nat  BY <1>4
  <2>. HIDE DEF q, n, S
  <2>. QED  BY <2>1, <2>2
<1>7. \A r \in Slot : Karrali(r) /\ Oynada(r, t) => r \in S  BY AtrofL
<1>. HIDE DEF q, n, S
<1>8. \A r \in S : \E k \in DOMAIN q : q[k] = r  BY <1>4, <1>5, <1>6
<1>9. \A k \in DOMAIN q : q[k] \in S  BY <1>5, <1>6
<1>10. \A k \in DOMAIN q : Karrali(q[k]) /\ Oynada(q[k], t)  BY <1>2, <1>9
<1>. QED  BY <1>6, <1>7, <1>8, <1>10 DEF q
-----------------------------------------------------------------------------
\* The inductive invariant

NatijaTuri ==
    [qator : {"yoq", "elak", "namuna", "chiqdi"}, nomzod : BOOLEAN,
     holat : {"yoq", "nomzod", "oddiy", "tasdiqlangan", "vaqtinchalik"},
     ketma : Nat, orinli : BOOLEAN, baho : {"yoq", "bor", "bosh"}]

QatorTuri ==
    [turi : RASMIY_TURLAR \cup {QOLDA}, sham : Int, holat : {YURMOQDA, TUGADI, XATO},
     boshlandi : Int, natija : [Coinlar -> NatijaTuri]]

IshTuri ==
    [pc : {"boshlash", "uyqu", "hajm", "slot", "sessiya", "hajm2", "baho", "uxladi"},
     sorov : BOOLEAN, hajmOldi : Int, hajmQilindi : BOOLEAN, reja : Seq(Slot),
     korildi : Int, joriy : Nat, hajmUrinish : {Yoq} \cup 0..MaxSoat, bahoVaqti : Int]

Tipli ==
    /\ soat \in 0..MaxSoat /\ sorov \in BOOLEAN /\ hajm \in {Yoq} \cup 0..MaxSoat
    /\ delist \subseteq Coinlar
    /\ sessiyalar \in Seq(QatorTuri) /\ ish \in IshTuri
    /\ bosildi \in 0..MaxSorov /\ uzilish \in 0..MaxUzilish /\ xato \in 0..MaxXato
    /\ yozilmagan \subseteq DOMAIN sessiyalar
    /\ \A i \in DOMAIN sessiyalar : sessiyalar[i].boshlandi \in {Yoq} \cup 0..soat

\* The history of the refreshes is what the process remembers.
UrinishTogri == urinish = ish.hajmUrinish

\* The row being run is the last one, it is open, and only finished rows have
\* results.
JoriyTogri ==
    /\ ish.pc # "sessiya" => ish.joriy = 0
    /\ ish.pc = "sessiya" => /\ ish.joriy = Len(sessiyalar) /\ ish.joriy # 0
                             /\ sessiyalar[ish.joriy].holat = YURMOQDA
    /\ \A i \in DOMAIN sessiyalar :
          sessiyalar[i].holat # TUGADI => sessiyalar[i].natija = Natijasiz

\* Between reading the timetable and the grading: the list holds open windows of
\* that instant, and each of those is on it or has its row.
RejaTogri ==
    /\ ish.pc \in {"slot", "sessiya", "hajm2", "baho"} =>
          /\ ish.korildi <= soat
          /\ \A r \in Slot : Karrali(r) /\ Oynada(r, ish.korildi) =>
                \/ Qatorlar(r) # {}
                \/ ish.pc \in {"slot", "sessiya"} /\ \E k \in DOMAIN ish.reja : ish.reja[k] = r
    /\ ish.pc \in {"slot", "sessiya"} =>
          \A k \in DOMAIN ish.reja : Karrali(ish.reja[k]) /\ Oynada(ish.reja[k], ish.korildi)

\* No official row is ahead of its time, nor of the timetable in hand.
VaqtTogri ==
    \A i \in DOMAIN sessiyalar : sessiyalar[i].turi \in RASMIY_TURLAR =>
        /\ Karrali(sessiyalar[i]) /\ sessiya_vaqti(sessiyalar[i]) <= soat
        /\ ish.pc \in {"slot", "sessiya"} => sessiya_vaqti(sessiyalar[i]) <= ish.korildi

\* Later rows of a kind are of later candles.
Tartibli ==
    \A i, k \in DOMAIN sessiyalar :
        i < k /\ sessiyalar[i].turi \in RASMIY_TURLAR /\ sessiyalar[k].turi = sessiyalar[i].turi
        => sessiyalar[i].sham < sessiyalar[k].sham

\* A candidate of the pool has a streak of one at least.
ElakKetma ==
    \A i \in DOMAIN sessiyalar : \A c \in Coinlar :
        LET x == sessiyalar[i].natija[c]
        IN sessiyalar[i].turi \in RASMIY_TURLAR /\ x.qator = "elak" /\ x.nomzod => x.ketma > 0

\* Presses of the button that have not become a session yet are counted too.
Qoldalar == {i \in DOMAIN sessiyalar : sessiyalar[i].turi = QOLDA}
Bayroq(b) == IF b THEN 1 ELSE 0
SorovSoni ==
    /\ IsFiniteSet(Qoldalar)
    /\ Cardinality(Qoldalar) + Bayroq(sorov) + Bayroq(ish.sorov) <= bosildi

Qatorli == Tartibli /\ ElakKetma /\ KetmaTogri /\ TasdiqIkkiKorik /\ ChiqdiKorinadi

RadarInv ==
    /\ Tipli /\ UrinishTogri /\ JoriyTogri /\ YurmoqdaRost /\ RejaTogri /\ VaqtTogri
    /\ SorovSoni /\ BahoBoshRost /\ Qatorli
-----------------------------------------------------------------------------
\* The rows

\* Rows of a slot are one row.
LEMMA YagonaL ==
  ASSUME sessiyalar \in Seq(QatorTuri), Tartibli,
         NEW i \in DOMAIN sessiyalar, NEW k \in DOMAIN sessiyalar, NEW r,
         r.turi \in RASMIY_TURLAR, Slotda(i, r), Slotda(k, r)
  PROVE  i = k
<1>1. /\ i \in Nat /\ k \in Nat /\ sessiyalar[i].sham \in Int
      /\ sessiyalar[k].sham = sessiyalar[i].sham
  <2>1. Len(sessiyalar) \in Nat /\ DOMAIN sessiyalar = 1..Len(sessiyalar)  OBVIOUS
  <2>2. sessiyalar[i] \in QatorTuri  OBVIOUS
  <2>. QED  BY <2>1, <2>2 DEF QatorTuri, Slotda
<1>2. ~(i < k) /\ ~(k < i)  BY <1>1 DEF Tartibli, Slotda
<1>. QED  BY <1>1, <1>2

\* tugagan_sessiya: the finished row of a slot, if there is one.
LEMMA TugaganL ==
  ASSUME sessiyalar \in Seq(QatorTuri), Tartibli, NEW r, r.turi \in RASMIY_TURLAR
  PROVE  /\ tugagan_sessiya(r) = 0 =>
              ~ \E i \in DOMAIN sessiyalar : Slotda(i, r) /\ sessiyalar[i].holat = TUGADI
         /\ tugagan_sessiya(r) # 0 => /\ tugagan_sessiya(r) \in DOMAIN sessiyalar
                                      /\ Slotda(tugagan_sessiya(r), r)
                                      /\ sessiyalar[tugagan_sessiya(r)].holat = TUGADI
<1>. DEFINE bor == {i \in DOMAIN sessiyalar : Slotda(i, r) /\ sessiyalar[i].holat = TUGADI}
            q == tugagan_sessiya(r)
<1>1. CASE bor = {}
  BY <1>1 DEF tugagan_sessiya
<1>2. CASE bor # {}
  <2>1. PICK m \in bor : TRUE  BY <1>2
  <2>2. m \in Nat /\ m # 0  BY <2>1
  <2>3. \A k \in bor : k = m  BY <2>1, YagonaL
  <2>4. q = CHOOSE i \in bor : \A k \in bor : k <= i  BY <1>2 DEF tugagan_sessiya
  <2>5. q \in bor  BY <2>1, <2>2, <2>3, <2>4
  <2>. QED  BY <2>2, <2>3, <2>5
<1>. QED  BY <1>1, <1>2

\* KetmaTogri, of one row and coin: a streak of k before the candle sham.
KetmaRost(turi, sham, k, c) ==
    /\ \A n \in 0..(k - 1) : NomzodEdi(Rejadagi(turi, sham - n * ShamDavri), c)
    /\ k > 0 => ~NomzodEdi(Rejadagi(turi, sham - k * ShamDavri), c)

\* Closing rows and grading results leave what was written as it was.
Saqlandi ==
    /\ DOMAIN sessiyalar' = DOMAIN sessiyalar
    /\ \A i \in DOMAIN sessiyalar :
          /\ sessiyalar'[i].turi = sessiyalar[i].turi /\ sessiyalar'[i].sham = sessiyalar[i].sham
          /\ sessiyalar'[i].holat = TUGADI <=> sessiyalar[i].holat = TUGADI
          /\ \A c \in Coinlar :
                LET y == sessiyalar'[i].natija[c]
                    x == sessiyalar[i].natija[c]
                IN /\ y.qator = x.qator /\ y.nomzod = x.nomzod /\ y.holat = x.holat
                   /\ y.ketma = x.ketma /\ y.orinli = x.orinli

LEMMA SaqlandiL ==
  ASSUME Saqlandi, Qatorli
  PROVE  Qatorli'
<1>1. \A r : \A c \in Coinlar : NomzodEdi(r, c)' <=> NomzodEdi(r, c)
  BY DEF NomzodEdi, Qatorlar, Slotda, Saqlandi
<1>2. Tartibli'  BY DEF Qatorli, Tartibli, Saqlandi
<1>3. ElakKetma'  BY DEF Qatorli, ElakKetma, Saqlandi
<1>4. KetmaTogri'
  <2>. SUFFICES ASSUME NEW i \in DOMAIN sessiyalar, NEW c \in Coinlar, NEW T \in RASMIY_TURLAR,
                       NEW S, NEW k, T = sessiyalar'[i].turi, S = sessiyalar'[i].sham,
                       k = sessiyalar'[i].natija[c].ketma
                PROVE  KetmaRost(T, S, k, c)'
    BY DEF KetmaTogri, KetmaRost, Saqlandi
  <2>1. T = sessiyalar[i].turi /\ S = sessiyalar[i].sham /\ k = sessiyalar[i].natija[c].ketma
    BY DEF Saqlandi
  <2>2. KetmaRost(T, S, k, c)  BY <2>1 DEF Qatorli, KetmaTogri, KetmaRost
  <2>. QED  BY <1>1, <2>2 DEF KetmaRost
<1>5. TasdiqIkkiKorik'  BY <1>1 DEF Qatorli, TasdiqIkkiKorik, Saqlandi
<1>6. ChiqdiKorinadi'
  <2>1. \A i \in DOMAIN sessiyalar : Orinlilar(i)' = Orinlilar(i)  BY DEF Saqlandi, Orinlilar
  <2>. QED  BY <2>1 DEF Qatorli, ChiqdiKorinadi, Saqlandi, Orinlilar
<1>. QED  BY <1>2, <1>3, <1>4, <1>5, <1>6 DEF Qatorli

\* One more row, not finished.
Qoshildi(n) ==
    /\ n \in Nat /\ DOMAIN sessiyalar = 1..n /\ DOMAIN sessiyalar' = 1..(n + 1)
    /\ \A i \in 1..n : sessiyalar'[i] = sessiyalar[i]
    /\ sessiyalar'[n + 1].holat # TUGADI

LEMMA QoshildiChiqdiL ==
  ASSUME NEW n, Qoshildi(n), ChiqdiKorinadi
  PROVE  ChiqdiKorinadi'
<1>1. /\ \A i \in 1..n : i \in 1..(n + 1)
      /\ \A i \in 1..(n + 1) : sessiyalar'[i].holat = TUGADI => i \in 1..n
      /\ \A i \in 1..n : sessiyalar'[i] = sessiyalar[i] /\ Orinlilar(i)' = Orinlilar(i)
      /\ DOMAIN sessiyalar = 1..n
  <2>1. n \in Nat /\ \A i \in 1..n : sessiyalar'[i] = sessiyalar[i]  BY DEF Qoshildi
  <2>2. \A i \in 1..(n + 1) : i \in 1..n \/ i = n + 1  BY <2>1
  <2>3. \A i \in 1..n : i \in 1..(n + 1)  BY <2>1
  <2>4. \A i \in 1..n : Orinlilar(i)' = Orinlilar(i)  BY <2>1 DEF Orinlilar
  <2>5. DOMAIN sessiyalar = 1..n /\ sessiyalar'[n + 1].holat # TUGADI  BY DEF Qoshildi
  <2>. QED  BY <2>1, <2>2, <2>3, <2>4, <2>5
<1>. SUFFICES ASSUME NEW i \in 1..(n + 1), NEW k \in 1..(n + 1), NEW c \in Coinlar,
                     sessiyalar'[i].turi = TASDIQ, sessiyalar'[i].holat = TUGADI,
                     sessiyalar'[k].turi = TASDIQ, sessiyalar'[k].holat = TUGADI,
                     sessiyalar'[i].sham < sessiyalar'[k].sham,
                     \A m \in 1..(n + 1) :
                        ~(/\ sessiyalar'[m].turi = TASDIQ /\ sessiyalar'[m].holat = TUGADI
                          /\ sessiyalar'[i].sham < sessiyalar'[m].sham
                          /\ sessiyalar'[m].sham < sessiyalar'[k].sham),
                     c \in Orinlilar(i)'
              PROVE  sessiyalar'[k].natija[c].qator # "yoq"
  <2>1. DOMAIN sessiyalar' = 1..(n + 1)  BY DEF Qoshildi
  <2>2. \A i \in 1..(n + 1) : Orinlilar(i)' \subseteq Coinlar  BY DEF Orinlilar
  <2>. QED  BY <2>1, <2>2 DEF ChiqdiKorinadi
<1>2. i \in 1..n /\ k \in 1..n  BY <1>1
<1>3. sessiyalar'[i] = sessiyalar[i] /\ sessiyalar'[k] = sessiyalar[k] /\ c \in Orinlilar(i)
  BY <1>1, <1>2
<1>4. \A m \in 1..n :
         ~(/\ sessiyalar[m].turi = TASDIQ /\ sessiyalar[m].holat = TUGADI
           /\ sessiyalar[i].sham < sessiyalar[m].sham /\ sessiyalar[m].sham < sessiyalar[k].sham)
  BY <1>1, <1>3
<1>. QED  BY <1>1, <1>2, <1>3, <1>4 DEF ChiqdiKorinadi

\* A new row has no results yet.
LEMMA QoshildiL ==
  ASSUME sessiyalar \in Seq(QatorTuri), Qatorli,
         NEW r, r.turi \in RASMIY_TURLAR \cup {QOLDA}, r.sham \in Int,
         sessiyalar' = Append(sessiyalar, YangiSessiya(r)),
         r.turi \in RASMIY_TURLAR =>
            \A i \in DOMAIN sessiyalar : sessiyalar[i].turi = r.turi => sessiyalar[i].sham < r.sham
  PROVE  Qatorli'
<1>. DEFINE n == Len(sessiyalar)
<1>1. /\ n \in Nat /\ DOMAIN sessiyalar = 1..n /\ DOMAIN sessiyalar' = 1..(n + 1)
      /\ \A i \in 1..n : sessiyalar'[i] = sessiyalar[i]
      /\ sessiyalar'[n + 1] = YangiSessiya(r)
  OBVIOUS
<1>2. /\ sessiyalar'[n + 1].turi = r.turi /\ sessiyalar'[n + 1].sham = r.sham
      /\ sessiyalar'[n + 1].holat # TUGADI /\ sessiyalar'[n + 1].natija = Natijasiz
  BY <1>1 DEF YangiSessiya, YURMOQDA, TUGADI
<1>. HIDE DEF n
<1>3. \A x : \A c \in Coinlar : NomzodEdi(x, c)' <=> NomzodEdi(x, c)
  BY <1>1, <1>2 DEF NomzodEdi, Qatorlar, Slotda
<1>4. \A c \in Coinlar : /\ Natijasiz[c].qator = "yoq" /\ Natijasiz[c].ketma = 0
                         /\ Natijasiz[c].holat = "yoq" /\ ~Natijasiz[c].orinli
  BY DEF Natijasiz
<1>5. \A i \in 1..(n + 1) : i \in 1..n \/ i = n + 1  BY <1>1
<1>6. Tartibli'
  BY <1>1, <1>2, <1>5 DEF Qatorli, Tartibli
<1>7. ElakKetma'
  <2>. SUFFICES ASSUME NEW i \in 1..(n + 1), NEW c \in Coinlar,
                       sessiyalar'[i].turi \in RASMIY_TURLAR,
                       sessiyalar'[i].natija[c].qator = "elak", sessiyalar'[i].natija[c].nomzod
                PROVE  sessiyalar'[i].natija[c].ketma > 0
    BY <1>1 DEF ElakKetma
  <2>1. i \in 1..n  BY <1>2, <1>4, <1>5
  <2>. QED  BY <1>1, <2>1 DEF Qatorli, ElakKetma
<1>8. KetmaTogri'
  <2>. SUFFICES ASSUME NEW i \in 1..(n + 1), NEW c \in Coinlar, NEW T \in RASMIY_TURLAR,
                       NEW S, NEW k, T = sessiyalar'[i].turi, S = sessiyalar'[i].sham,
                       k = sessiyalar'[i].natija[c].ketma
                PROVE  KetmaRost(T, S, k, c)'
    BY <1>1 DEF KetmaTogri, KetmaRost
  <2>1. CASE i = n + 1
    <3>1. k = 0  BY <1>2, <1>4, <2>1
    <3>. QED  BY <3>1 DEF KetmaRost
  <2>2. CASE i \in 1..n
    <3>1. KetmaRost(T, S, k, c)  BY <1>1, <2>2 DEF Qatorli, KetmaTogri, KetmaRost
    <3>. QED  BY <1>3, <3>1 DEF KetmaRost
  <2>. QED  BY <1>5, <2>1, <2>2
<1>9. TasdiqIkkiKorik'
  <2>. SUFFICES ASSUME NEW i \in 1..(n + 1), NEW c \in Coinlar, NEW T \in RASMIY_TURLAR, NEW S,
                       S = sessiyalar'[i].sham, sessiyalar'[i].natija[c].holat = "tasdiqlangan"
                PROVE  NomzodEdi(Rejadagi(T, S), c)'
    BY <1>1 DEF TasdiqIkkiKorik
  <2>1. i \in 1..n  BY <1>2, <1>4, <1>5
  <2>2. NomzodEdi(Rejadagi(T, S), c)  BY <1>1, <2>1 DEF Qatorli, TasdiqIkkiKorik
  <2>. QED  BY <1>3, <2>2
<1>10. ChiqdiKorinadi'
  <2>1. Qoshildi(n)  BY <1>1, <1>2 DEF Qoshildi
  <2>2. ChiqdiKorinadi  BY DEF Qatorli
  <2>. QED  BY <2>1, <2>2, QoshildiChiqdiL
<1>. QED  BY <1>6, <1>7, <1>8, <1>9, <1>10 DEF Qatorli
-----------------------------------------------------------------------------
\* The end of a session

\* OldingiKetma: a number.
LEMMA OldingiKetmaL ==
  ASSUME sessiyalar \in Seq(QatorTuri), Tartibli, NEW r, NEW c \in Coinlar
  PROVE  OldingiKetma(r, c) \in Nat
<1>. DEFINE q == tugagan_sessiya(oldingi_rasmiy_slot(r))
<1>1. CASE r.turi \in RASMIY_TURLAR /\ q # 0
  <2>1. oldingi_rasmiy_slot(r).turi \in RASMIY_TURLAR
    BY <1>1 DEF oldingi_rasmiy_slot, Rejadagi
  <2>2. sessiyalar[q] \in QatorTuri  BY <1>1, <2>1, TugaganL
  <2>. QED  BY <2>2 DEF OldingiKetma, QatorTuri, NatijaTuri
<1>2. CASE ~(r.turi \in RASMIY_TURLAR /\ q # 0)
  BY <1>2 DEF OldingiKetma
<1>. QED  BY <1>1, <1>2

\* What a session of the timetable writes of a coin.
LEMMA NatijaL ==
  ASSUME sessiyalar \in Seq(QatorTuri), Tartibli, NEW r, r.turi \in RASMIY_TURLAR,
         NEW b \in Bozor(r), NEW c \in Coinlar
  PROVE  LET x == Natija(r, b)[c] IN
         /\ x \in NatijaTuri /\ x.baho = "yoq"
         /\ x.qator = "elak" /\ x.nomzod => x.ketma > 0
         /\ x.ketma > 0 => /\ x.qator = "elak" /\ x.nomzod
                           /\ x.ketma = OldingiKetma(r, c) + 1
         /\ x.holat = "tasdiqlangan" => /\ r.turi = TASDIQ /\ ANomzod(r, c) = "ha"
                                        /\ x.qator = "elak" /\ x.nomzod
         /\ r.turi = TASDIQ /\ c \in Orinlilar(oldingi_tasdiq(r.sham)) => x.qator # "yoq"
<1>. DEFINE x == Natija(r, b)[c]
            h == holat(r.turi, c \in b.nomzod, ANomzod(r, c))
            o == OldingiKetma(r, c)
            k == ketma_ket(r.turi, c \in b.nomzod, o)
            nz == c \in b.nomzod
            on == r.turi = TASDIQ /\ c \in b.elak \ b.yashirin
            y == r.turi = TASDIQ /\ c \in Orinlilar(oldingi_tasdiq(r.sham))
            w == IF y THEN "chiqdi" ELSE "yoq"
<1>1. r.turi # QOLDA  BY DEF RASMIY_TURLAR, KASHFIYOT, TASDIQ, QOLDA
<1>2. /\ h \in {"yoq", "nomzod", "oddiy", "tasdiqlangan", "vaqtinchalik"} /\ nz \in BOOLEAN
      /\ on \in BOOLEAN /\ w \in {"yoq", "elak", "namuna", "chiqdi"}
  BY DEF holat
<1>3. h = "tasdiqlangan" => r.turi = TASDIQ /\ nz /\ ANomzod(r, c) = "ha"  BY DEF holat
<1>4. o \in Nat  BY OldingiKetmaL
<1>5. k \in Nat /\ (nz => k = o + 1 /\ k > 0) /\ (k > 0 => nz)
  BY <1>4 DEF ketma_ket
<1>6. b.elak \cap b.namuna = {} /\ \A d \in b.namuna : ANomzod(r, d) # "ha"  BY DEF Bozor
<1>7. y => w # "yoq"  OBVIOUS
<1>8. c \in b.elak =>
        x = [qator |-> "elak", nomzod |-> nz, holat |-> h, ketma |-> k, orinli |-> on, baho |-> "yoq"]
  BY <1>1 DEF Natija
<1>9. c \in b.namuna =>
        x = [qator |-> "namuna", nomzod |-> nz, holat |-> h, ketma |-> 0, orinli |-> on, baho |-> "yoq"]
  BY <1>1, <1>6 DEF Natija
<1>10. c \notin b.elak \cup b.namuna =>
        x = [qator |-> w, nomzod |-> FALSE, holat |-> "yoq", ketma |-> 0, orinli |-> FALSE, baho |-> "yoq"]
  BY <1>1 DEF Natija, Natijasiz
<1>. SUFFICES /\ x \in NatijaTuri /\ x.baho = "yoq"
              /\ x.qator = "elak" /\ x.nomzod => x.ketma > 0
              /\ x.ketma > 0 => x.qator = "elak" /\ x.nomzod /\ x.ketma = o + 1
              /\ x.holat = "tasdiqlangan" => /\ r.turi = TASDIQ /\ ANomzod(r, c) = "ha"
                                             /\ x.qator = "elak" /\ x.nomzod
              /\ y => x.qator # "yoq"
  OBVIOUS
<1>. HIDE DEF x, h, o, k, nz, on, y, w
<1>11. CASE c \in b.elak
  <2>1. x = [qator |-> "elak", nomzod |-> nz, holat |-> h, ketma |-> k, orinli |-> on, baho |-> "yoq"]
    BY <1>8, <1>11
  <2>2. x \in NatijaTuri  BY <1>2, <1>5, <2>1 DEF NatijaTuri
  <2>3. x.qator = "elak" /\ x.nomzod = nz /\ x.holat = h /\ x.ketma = k /\ x.baho = "yoq"
    BY <2>1
  <2>. QED  BY <1>3, <1>5, <2>2, <2>3
<1>12. CASE c \in b.namuna
  <2>1. x = [qator |-> "namuna", nomzod |-> nz, holat |-> h, ketma |-> 0, orinli |-> on, baho |-> "yoq"]
    BY <1>9, <1>12
  <2>2. x \in NatijaTuri  BY <1>2, <2>1 DEF NatijaTuri
  <2>3. x.qator = "namuna" /\ x.holat = h /\ x.ketma = 0 /\ x.baho = "yoq"  BY <2>1
  <2>4. h # "tasdiqlangan"  BY <1>3, <1>6, <1>12
  <2>. QED  BY <2>2, <2>3, <2>4
<1>13. CASE c \notin b.elak \cup b.namuna
  <2>1. x = [qator |-> w, nomzod |-> FALSE, holat |-> "yoq", ketma |-> 0, orinli |-> FALSE, baho |-> "yoq"]
    BY <1>10, <1>13
  <2>2. x \in NatijaTuri  BY <1>2, <2>1 DEF NatijaTuri
  <2>3. x.qator = w /\ x.ketma = 0 /\ x.baho = "yoq"  BY <2>1
  <2>4. ~(x.ketma > 0)  BY <2>3
  <2>6. x.holat # "tasdiqlangan"  BY <2>1
  <2>5. x.qator # "elak"  BY <2>3 DEF w
  <2>. QED  BY <1>7, <2>2, <2>3, <2>4, <2>5, <2>6
<1>. QED  BY <1>11, <1>12, <1>13

\* oldingi_tasdiq: the finished B session with none after it before the candle.
LEMMA OldingiTasdiqL ==
  ASSUME sessiyalar \in Seq(QatorTuri), Tartibli, NEW S \in Int, NEW i \in DOMAIN sessiyalar,
         sessiyalar[i].turi = TASDIQ, sessiyalar[i].holat = TUGADI, sessiyalar[i].sham < S,
         \A m \in DOMAIN sessiyalar :
            ~(/\ sessiyalar[m].turi = TASDIQ /\ sessiyalar[m].holat = TUGADI
              /\ sessiyalar[i].sham < sessiyalar[m].sham /\ sessiyalar[m].sham < S)
  PROVE  oldingi_tasdiq(S) = i
<1>. DEFINE bor == {m \in DOMAIN sessiyalar : /\ sessiyalar[m].turi = TASDIQ
                                              /\ sessiyalar[m].sham < S
                                              /\ sessiyalar[m].holat = TUGADI}
            P(m) == \A k \in bor : \/ sessiyalar[k].sham < sessiyalar[m].sham
                                   \/ sessiyalar[k].sham = sessiyalar[m].sham /\ k <= m
<1>1. i \in bor  OBVIOUS
<1>2. oldingi_tasdiq(S) = CHOOSE m \in bor : P(m)  BY <1>1 DEF oldingi_tasdiq
<1>3. \A m \in bor : sessiyalar[m].sham \in Int /\ m \in Nat
  <2>. SUFFICES ASSUME NEW m \in bor PROVE sessiyalar[m].sham \in Int /\ m \in Nat  OBVIOUS
  <2>1. sessiyalar[m] \in QatorTuri  OBVIOUS
  <2>. QED  BY <2>1 DEF QatorTuri
<1>4. \A m \in bor : sessiyalar[m].sham = sessiyalar[i].sham => m = i
  <2>. SUFFICES ASSUME NEW m \in bor, sessiyalar[m].sham = sessiyalar[i].sham PROVE m = i
    OBVIOUS
  <2>1. /\ Slotda(m, Rejadagi(TASDIQ, sessiyalar[i].sham))
        /\ Slotda(i, Rejadagi(TASDIQ, sessiyalar[i].sham))
        /\ Rejadagi(TASDIQ, sessiyalar[i].sham).turi \in RASMIY_TURLAR
    BY DEF Slotda, Rejadagi, RASMIY_TURLAR
  <2>. QED  BY <2>1, YagonaL
<1>5. P(i)
  <2>. SUFFICES ASSUME NEW k \in bor
                PROVE  \/ sessiyalar[k].sham < sessiyalar[i].sham
                       \/ sessiyalar[k].sham = sessiyalar[i].sham /\ k <= i
    OBVIOUS
  <2>1. ~(sessiyalar[i].sham < sessiyalar[k].sham)  OBVIOUS
  <2>. QED  BY <1>1, <1>3, <1>4, <2>1
<1>6. \A m \in bor : P(m) => m = i
  <2>. SUFFICES ASSUME NEW m \in bor, P(m)  PROVE m = i  OBVIOUS
  <2>1. sessiyalar[i].sham <= sessiyalar[m].sham /\ sessiyalar[m].sham <= sessiyalar[i].sham
    BY <1>1, <1>3, <1>5
  <2>. QED  BY <1>1, <1>3, <1>4, <2>1
<1>. HIDE DEF bor, P
<1>. QED  BY <1>1, <1>2, <1>5, <1>6

\* One more session in a row: what OldingiKetma brings is the streak that ends at
\* the candle before.
LEMMA OldingiRostL ==
  ASSUME sessiyalar \in Seq(QatorTuri), Qatorli, NEW T \in RASMIY_TURLAR, NEW S \in Int,
         NEW c \in Coinlar
  PROVE  LET o == OldingiKetma(Rejadagi(T, S), c) IN
         /\ o \in Nat
         /\ \A n \in 0..(o - 1) : NomzodEdi(Rejadagi(T, (S - ShamDavri) - n * ShamDavri), c)
         /\ ~NomzodEdi(Rejadagi(T, (S - ShamDavri) - o * ShamDavri), c)
<1>. DEFINE o == OldingiKetma(Rejadagi(T, S), c)
            R == Rejadagi(T, S - ShamDavri)
            q == tugagan_sessiya(R)
<1>1. o \in Nat  BY OldingiKetmaL DEF Qatorli
<1>2. oldingi_rasmiy_slot(Rejadagi(T, S)) = R /\ Rejadagi(T, S).turi = T
  BY DEF oldingi_rasmiy_slot, Rejadagi
<1>3. R.turi = T /\ R.sham = S - ShamDavri  BY DEF Rejadagi
<1>4. ShamDavri \in Nat \ {0} /\ (S - ShamDavri) - 0 * ShamDavri = S - ShamDavri  BY VaqtFarazi
<1>5. q # 0 => q \in DOMAIN sessiyalar /\ Slotda(q, R) /\ sessiyalar[q].holat = TUGADI
  BY <1>3, TugaganL DEF Qatorli
<1>6. CASE q # 0 /\ sessiyalar[q].natija[c].nomzod /\ o # 0
  <2>1. o = sessiyalar[q].natija[c].ketma /\ o > 0  BY <1>1, <1>2, <1>6 DEF OldingiKetma
  <2>2. sessiyalar[q].turi = T /\ sessiyalar[q].sham = S - ShamDavri
    BY <1>3, <1>5, <1>6 DEF Slotda
  <2>3. KetmaRost(T, S - ShamDavri, o, c)
    BY <1>5, <1>6, <2>1, <2>2 DEF Qatorli, KetmaTogri, KetmaRost
  <2>. QED  BY <1>1, <2>1, <2>3 DEF KetmaRost
<1>7. CASE ~(q # 0 /\ sessiyalar[q].natija[c].nomzod /\ o # 0)
  <2>1. o = 0  BY <1>2, <1>7 DEF OldingiKetma
  <2>2. ~NomzodEdi(R, c)
    <3>. SUFFICES ASSUME NomzodEdi(R, c)  PROVE FALSE  OBVIOUS
    <3>1. PICK i \in DOMAIN sessiyalar : /\ Slotda(i, R) /\ sessiyalar[i].holat = TUGADI
                                         /\ sessiyalar[i].natija[c].qator = "elak"
                                         /\ sessiyalar[i].natija[c].nomzod
      BY DEF NomzodEdi, Qatorlar
    <3>2. q # 0  BY <1>3, <3>1, TugaganL DEF Qatorli
    <3>3. i = q  BY <1>3, <1>5, <3>1, <3>2, YagonaL DEF Qatorli
    <3>4. sessiyalar[q].turi = T  BY <1>3, <1>5, <3>2 DEF Slotda
    <3>5. sessiyalar[q].natija[c].ketma > 0
      BY <1>5, <3>1, <3>2, <3>3, <3>4 DEF Qatorli, ElakKetma
    <3>6. o = sessiyalar[q].natija[c].ketma  BY <1>2, <3>1, <3>2, <3>3 DEF OldingiKetma
    <3>. QED  BY <2>1, <3>5, <3>6
  <2>3. Rejadagi(T, (S - ShamDavri) - o * ShamDavri) = R  BY <1>4, <2>1
  <2>4. 0..(o - 1) = {}  BY <2>1
  <2>. QED  BY <1>1, <2>2, <2>3, <2>4
<1>. QED  BY <1>6, <1>7

\* What Natija writes, coin by coin.
NatijaShart(r, N) ==
    \A c \in Coinlar :
        /\ N[c] \in NatijaTuri
        /\ r.turi \in RASMIY_TURLAR =>
              /\ N[c].qator = "elak" /\ N[c].nomzod => N[c].ketma > 0
              /\ N[c].ketma > 0 => /\ N[c].qator = "elak" /\ N[c].nomzod
                                   /\ N[c].ketma = OldingiKetma(r, c) + 1
        /\ N[c].holat = "tasdiqlangan" => /\ r.turi = TASDIQ /\ ANomzod(r, c) = "ha"
                                          /\ N[c].qator = "elak" /\ N[c].nomzod
        /\ r.turi = TASDIQ /\ c \in Orinlilar(oldingi_tasdiq(r.sham)) => N[c].qator # "yoq"

\* Row j, the last one, of slot r, ends with the results N.
Tugashi(j, r, N) ==
    /\ j \in Nat /\ j > 0 /\ j \in 1..j /\ DOMAIN sessiyalar = 1..j /\ DOMAIN sessiyalar' = 1..j
    /\ \A i \in 1..j : /\ sessiyalar[i].turi \in RASMIY_TURLAR \cup {QOLDA}
                       /\ sessiyalar[i].sham \in Int
                       /\ \A c \in Coinlar : sessiyalar[i].natija[c].ketma \in Nat
    /\ \A i \in 1..j : i # j => sessiyalar'[i] = sessiyalar[i]
    /\ sessiyalar[j].turi = r.turi /\ sessiyalar[j].sham = r.sham
    /\ sessiyalar[j].holat = YURMOQDA
    /\ sessiyalar'[j].turi = r.turi /\ sessiyalar'[j].sham = r.sham
    /\ sessiyalar'[j].holat = TUGADI /\ sessiyalar'[j].natija = N
    /\ r.turi \in RASMIY_TURLAR => r = Rejadagi(r.turi, r.sham)
    /\ NatijaShart(r, N)

LEMMA NatijaShartL ==
  ASSUME sessiyalar \in Seq(QatorTuri), Tartibli, NEW r, r.turi \in RASMIY_TURLAR \cup {QOLDA},
         NEW b \in Bozor(r)
  PROVE  NatijaShart(r, Natija(r, b)) /\ Natija(r, b) \in [Coinlar -> NatijaTuri]
<1>. DEFINE N == Natija(r, b)
<1>1. ASSUME NEW c \in Coinlar
      PROVE  /\ N[c] \in NatijaTuri
             /\ r.turi \in RASMIY_TURLAR =>
                   /\ N[c].qator = "elak" /\ N[c].nomzod => N[c].ketma > 0
                   /\ N[c].ketma > 0 => /\ N[c].qator = "elak" /\ N[c].nomzod
                                        /\ N[c].ketma = OldingiKetma(r, c) + 1
             /\ N[c].holat = "tasdiqlangan" => /\ r.turi = TASDIQ /\ ANomzod(r, c) = "ha"
                                               /\ N[c].qator = "elak" /\ N[c].nomzod
             /\ r.turi = TASDIQ /\ c \in Orinlilar(oldingi_tasdiq(r.sham)) => N[c].qator # "yoq"
  <2>1. CASE r.turi \in RASMIY_TURLAR
    <3>. HIDE DEF N
    <3>. QED  BY <2>1, NatijaL DEF N
  <2>2. CASE r.turi = QOLDA
    <3>1. N[c] = [qator |-> "yoq", nomzod |-> FALSE, holat |-> "yoq", ketma |-> 0,
                  orinli |-> FALSE, baho |-> "yoq"]
      BY <2>2 DEF Natija, Natijasiz
    <3>. HIDE DEF N
    <3>2. N[c] \in NatijaTuri /\ N[c].holat # "tasdiqlangan"  BY <3>1 DEF NatijaTuri
    <3>3. r.turi \notin RASMIY_TURLAR /\ r.turi # TASDIQ
      BY <2>2 DEF RASMIY_TURLAR, KASHFIYOT, TASDIQ, QOLDA
    <3>. QED  BY <3>2, <3>3
  <2>. QED  BY <2>1, <2>2
<1>2. N = [c \in Coinlar |-> N[c]]  BY DEF Natija, Natijasiz
<1>. HIDE DEF N
<1>3. N \in [Coinlar -> NatijaTuri]  BY <1>1, <1>2
<1>4. NatijaShart(r, N)  BY <1>1 DEF NatijaShart
<1>. QED  BY <1>3, <1>4 DEF N

LEMMA TugashiL ==
  ASSUME sessiyalar \in Seq(QatorTuri), Tartibli, NEW j, j = Len(sessiyalar), j # 0,
         sessiyalar[j].holat = YURMOQDA,
         NEW r, r = Rejadagi(sessiyalar[j].turi, sessiyalar[j].sham), NEW b \in Bozor(r), NEW N,
         N = Natija(r, b),
         sessiyalar' = [sessiyalar EXCEPT ![j].natija = N, ![j].holat = TUGADI]
  PROVE  Tugashi(j, r, N) /\ N \in [Coinlar -> NatijaTuri]
<1>1. /\ j \in Nat /\ j > 0 /\ DOMAIN sessiyalar = 1..j /\ DOMAIN sessiyalar' = 1..j
      /\ j \in 1..j
  OBVIOUS
<1>2. \A i \in 1..j : sessiyalar[i] \in QatorTuri  BY <1>1
<1>3. /\ r.turi = sessiyalar[j].turi /\ r.sham = sessiyalar[j].sham
      /\ r = Rejadagi(r.turi, r.sham)
  BY DEF Rejadagi
<1>4. r.turi \in RASMIY_TURLAR \cup {QOLDA}  BY <1>1, <1>2, <1>3 DEF QatorTuri
<1>5. \A i \in 1..j : i # j => sessiyalar'[i] = sessiyalar[i]  BY <1>1
<1>6. sessiyalar'[j] = [sessiyalar[j] EXCEPT !.natija = N, !.holat = TUGADI]  BY <1>1
<1>7. /\ sessiyalar'[j].turi = r.turi /\ sessiyalar'[j].sham = r.sham
      /\ sessiyalar'[j].holat = TUGADI /\ sessiyalar'[j].natija = N
  <2>. DEFINE x == sessiyalar[j]
              y == sessiyalar'[j]
  <2>1. x \in QatorTuri  BY <1>1, <1>2
  <2>2. y = [x EXCEPT !.natija = N, !.holat = TUGADI]  BY <1>6
  <2>3. x.turi = r.turi /\ x.sham = r.sham  BY <1>3
  <2>. HIDE DEF x, y
  <2>4. DOMAIN x = {"turi", "sham", "holat", "boshlandi", "natija"}  BY <2>1 DEF QatorTuri
  <2>5. y.turi = x.turi /\ y.sham = x.sham /\ y.holat = TUGADI /\ y.natija = N
    BY <2>2, <2>4, Zenon
  <2>. QED  BY <2>3, <2>5 DEF y
<1>8. NatijaShart(r, N) /\ N \in [Coinlar -> NatijaTuri]  BY <1>4, NatijaShartL
<1>9. \A i \in 1..j : /\ sessiyalar[i].turi \in RASMIY_TURLAR \cup {QOLDA}
                      /\ sessiyalar[i].sham \in Int
                      /\ \A c \in Coinlar : sessiyalar[i].natija[c].ketma \in Nat
  <2>. TAKE i \in 1..j
  <2>. DEFINE x == sessiyalar[i]
  <2>1. x \in QatorTuri  BY <1>2
  <2>. HIDE DEF x
  <2>2. x.turi \in RASMIY_TURLAR \cup {QOLDA} /\ x.sham \in Int /\ x.natija \in [Coinlar -> NatijaTuri]
    BY <2>1 DEF QatorTuri
  <2>3. \A c \in Coinlar : x.natija[c].ketma \in Nat  BY <2>2 DEF NatijaTuri
  <2>. QED  BY <2>2, <2>3 DEF x
<1>10. Tugashi(j, r, N)  BY <1>1, <1>3, <1>5, <1>7, <1>8, <1>9 DEF Tugashi
<1>. QED  BY <1>8, <1>10

\* Who was a candidate stays one; new ones are of the slot that ended.
LEMMA TugashiNomzodL ==
  ASSUME NEW j, NEW r, NEW N, Tugashi(j, r, N), NEW c \in Coinlar, NEW R
  PROVE  /\ NomzodEdi(R, c) => NomzodEdi(R, c)'
         /\ NomzodEdi(R, c)' => NomzodEdi(R, c) \/ (R.turi = r.turi /\ R.sham = r.sham)
<1>1. /\ j \in 1..j /\ DOMAIN sessiyalar = 1..j /\ DOMAIN sessiyalar' = 1..j
      /\ \A i \in 1..j : i # j => sessiyalar'[i] = sessiyalar[i]
      /\ sessiyalar[j].holat = YURMOQDA
      /\ sessiyalar'[j].turi = r.turi /\ sessiyalar'[j].sham = r.sham
  BY DEF Tugashi
<1>2. NomzodEdi(R, c) => NomzodEdi(R, c)'
  BY <1>1 DEF NomzodEdi, Qatorlar, Slotda, YURMOQDA, TUGADI
<1>3. NomzodEdi(R, c)' => NomzodEdi(R, c) \/ (R.turi = r.turi /\ R.sham = r.sham)
  BY <1>1 DEF NomzodEdi, Qatorlar, Slotda
<1>. QED  BY <1>2, <1>3

LEMMA TugashiSlotL ==
  ASSUME NEW j, NEW r, NEW N, Tugashi(j, r, N)
  PROVE  /\ j \in Nat /\ j > 0 /\ j \in 1..j
         /\ DOMAIN sessiyalar = 1..j /\ DOMAIN sessiyalar' = 1..j
         /\ \A i \in 1..j : /\ sessiyalar'[i].turi = sessiyalar[i].turi
                            /\ sessiyalar'[i].sham = sessiyalar[i].sham
                            /\ sessiyalar[i].sham \in Int
                            /\ i # j => sessiyalar'[i] = sessiyalar[i]
         /\ sessiyalar[j].turi = r.turi /\ sessiyalar[j].sham = r.sham /\ r.sham \in Int
         /\ sessiyalar'[j].holat = TUGADI /\ sessiyalar'[j].natija = N
  BY DEF Tugashi

LEMMA TugashiTartibL ==
  ASSUME NEW j, NEW r, NEW N, Tugashi(j, r, N), Tartibli
  PROVE  Tartibli'
  BY TugashiSlotL DEF Tartibli

LEMMA TugashiElakL ==
  ASSUME NEW j, NEW r, NEW N, Tugashi(j, r, N), ElakKetma
  PROVE  ElakKetma'
<1>1. /\ DOMAIN sessiyalar = 1..j /\ DOMAIN sessiyalar' = 1..j
      /\ \A i \in 1..j : i # j => sessiyalar'[i] = sessiyalar[i]
      /\ sessiyalar'[j].turi = r.turi /\ sessiyalar'[j].natija = N
  BY DEF Tugashi
<1>2. \A c \in Coinlar : r.turi \in RASMIY_TURLAR /\ N[c].qator = "elak" /\ N[c].nomzod
                         => N[c].ketma > 0
  BY DEF Tugashi, NatijaShart
<1>. SUFFICES ASSUME NEW i \in 1..j, NEW c \in Coinlar,
                     sessiyalar'[i].turi \in RASMIY_TURLAR,
                     sessiyalar'[i].natija[c].qator = "elak", sessiyalar'[i].natija[c].nomzod
              PROVE  sessiyalar'[i].natija[c].ketma > 0
  BY <1>1 DEF ElakKetma
<1>3. CASE i = j  BY <1>1, <1>2, <1>3
<1>4. CASE i # j  BY <1>1, <1>4 DEF ElakKetma
<1>. QED  BY <1>3, <1>4

LEMMA TugashiKetmaL ==
  ASSUME sessiyalar \in Seq(QatorTuri), Qatorli, NEW j, NEW r, NEW N, Tugashi(j, r, N),
         NEW i \in 1..j, NEW c \in Coinlar, NEW T \in RASMIY_TURLAR, NEW S \in Int, NEW k \in Nat,
         T = sessiyalar'[i].turi, S = sessiyalar'[i].sham, k = sessiyalar'[i].natija[c].ketma
  PROVE  KetmaRost(T, S, k, c)'
<1>1. /\ j \in Nat /\ j \in 1..j /\ DOMAIN sessiyalar = 1..j
      /\ S = sessiyalar[i].sham /\ T = sessiyalar[i].turi /\ r.sham \in Int
      /\ sessiyalar[j].turi = r.turi /\ sessiyalar[j].sham = r.sham
  BY TugashiSlotL
<1>2. CASE k = 0
  BY <1>2 DEF KetmaRost
<1>3. CASE k > 0 /\ i # j
  <2>1. KetmaRost(T, S, k, c)
    <3>1. sessiyalar[i].natija[c].ketma = k  BY <1>3, TugashiSlotL
    <3>. QED  BY <1>1, <3>1 DEF Qatorli, KetmaTogri, KetmaRost
  <2>2. \A n \in 0..(k - 1) : NomzodEdi(Rejadagi(T, S - n * ShamDavri), c)'
    BY <2>1, TugashiNomzodL DEF KetmaRost
  <2>3. ~NomzodEdi(Rejadagi(T, S - k * ShamDavri), c)'
    <3>1. ~NomzodEdi(Rejadagi(T, S - k * ShamDavri), c)  BY <1>3, <2>1 DEF KetmaRost
    <3>2. T = r.turi => S < r.sham
      <4>1. i \in 1..j /\ i < j  BY <1>1, <1>3
      <4>2. Tartibli  BY DEF Qatorli
      <4>. HIDE DEF Qatorli
      <4>. QED  BY <1>1, <4>1, <4>2 DEF Tartibli
    <3>3. k * ShamDavri \in Int /\ k * ShamDavri >= 0
      <4>1. ShamDavri \in Nat  BY VaqtFarazi
      <4>. QED  BY <4>1, KopaytL
    <3>4. T = r.turi => S - k * ShamDavri # r.sham  BY <1>1, <3>2, <3>3
    <3>5. /\ Rejadagi(T, S - k * ShamDavri).turi = T
          /\ Rejadagi(T, S - k * ShamDavri).sham = S - k * ShamDavri
      BY DEF Rejadagi
    <3>. QED  BY <3>1, <3>4, <3>5, TugashiNomzodL
  <2>. QED  BY <2>2, <2>3 DEF KetmaRost
<1>4. CASE k > 0 /\ i = j
  <2>. DEFINE o == OldingiKetma(Rejadagi(T, S), c)
  <2>1. /\ T = r.turi /\ S = r.sham /\ r = Rejadagi(T, S) /\ k = N[c].ketma
        /\ sessiyalar'[j].turi = T /\ sessiyalar'[j].sham = S /\ sessiyalar'[j].holat = TUGADI
        /\ sessiyalar'[j].natija = N /\ DOMAIN sessiyalar' = 1..j
    BY <1>1, <1>4 DEF Tugashi
  <2>2. k = o + 1 /\ N[c].qator = "elak" /\ N[c].nomzod
    BY <1>4, <2>1 DEF Tugashi, NatijaShart
  <2>3. /\ o \in Nat
        /\ \A n \in 0..(o - 1) : NomzodEdi(Rejadagi(T, (S - ShamDavri) - n * ShamDavri), c)
        /\ ~NomzodEdi(Rejadagi(T, (S - ShamDavri) - o * ShamDavri), c)
    BY OldingiRostL
  <2>4. ShamDavri \in Nat /\ ShamDavri \in Int /\ ShamDavri > 0  BY VaqtFarazi
  <2>. HIDE DEF o
  <2>5. NomzodEdi(Rejadagi(T, S), c)'
    <3>1. Slotda(j, Rejadagi(T, S))'  BY <2>1 DEF Slotda, Rejadagi
    <3>. QED  BY <1>1, <2>1, <2>2, <3>1 DEF NomzodEdi, Qatorlar
  <2>6. ASSUME NEW n \in 0..(k - 1)  PROVE NomzodEdi(Rejadagi(T, S - n * ShamDavri), c)'
    <3>1. CASE n = 0
      <4>1. S - n * ShamDavri = S  BY <2>4, <3>1
      <4>. QED  BY <2>5, <4>1
    <3>2. CASE n # 0
      <4>. DEFINE m == n - 1
      <4>1. m \in 0..(o - 1) /\ n = m + 1 /\ m \in Nat  BY <2>2, <2>3, <3>2
      <4>. HIDE DEF m
      <4>2. n * ShamDavri = ShamDavri + m * ShamDavri /\ m * ShamDavri \in Int
        BY <2>4, <4>1, KopaytL
      <4>3. S - n * ShamDavri = (S - ShamDavri) - m * ShamDavri
        <5>. DEFINE a == n * ShamDavri
                    d == m * ShamDavri
        <5>1. a = ShamDavri + d /\ d \in Int  BY <4>2
        <5>. HIDE DEF a, d
        <5>2. S - a = (S - ShamDavri) - d  BY <2>4, <5>1
        <5>. QED  BY <5>2 DEF a, d
      <4>4. NomzodEdi(Rejadagi(T, S - n * ShamDavri), c)  BY <2>3, <4>1, <4>3
      <4>. QED  BY <4>4, TugashiNomzodL
    <3>. QED  BY <3>1, <3>2
  <2>7. ~NomzodEdi(Rejadagi(T, S - k * ShamDavri), c)'
    <3>1. /\ k * ShamDavri = ShamDavri + o * ShamDavri /\ o * ShamDavri \in Int
          /\ o * ShamDavri >= 0
      BY <2>2, <2>3, <2>4, KopaytL
    <3>2. S - k * ShamDavri = (S - ShamDavri) - o * ShamDavri /\ S - k * ShamDavri # S
      <4>. DEFINE a == k * ShamDavri
                  d == o * ShamDavri
      <4>1. a = ShamDavri + d /\ d \in Int /\ d >= 0  BY <3>1
      <4>. HIDE DEF a, d
      <4>2. S - a = (S - ShamDavri) - d /\ S - a # S  BY <2>4, <4>1
      <4>. QED  BY <4>2 DEF a, d
    <3>3. Rejadagi(T, S - k * ShamDavri).sham = S - k * ShamDavri  BY DEF Rejadagi
    <3>4. ~NomzodEdi(Rejadagi(T, S - k * ShamDavri), c)  BY <2>3, <3>2
    <3>. QED  BY <2>1, <3>2, <3>3, <3>4, TugashiNomzodL
  <2>. QED  BY <2>6, <2>7 DEF KetmaRost
<1>. QED  BY <1>2, <1>3, <1>4

LEMMA TugashiKetmaTogriL ==
  ASSUME sessiyalar \in Seq(QatorTuri), Qatorli, NEW j, NEW r, NEW N, Tugashi(j, r, N)
  PROVE  KetmaTogri'
<1>1. DOMAIN sessiyalar' = 1..j  BY TugashiSlotL
<1>2. ASSUME NEW i \in 1..j, NEW c \in Coinlar, sessiyalar'[i].turi \in RASMIY_TURLAR
      PROVE  KetmaRost(sessiyalar[i].turi, sessiyalar[i].sham, sessiyalar[i].natija[c].ketma, c)'
  <2>1. sessiyalar'[i].sham \in Int  BY TugashiSlotL
  <2>2. sessiyalar'[i].natija[c].ketma \in Nat
    <3>1. CASE i = j  BY <3>1 DEF Tugashi, NatijaShart, NatijaTuri
    <3>2. CASE i # j  BY <3>2 DEF Tugashi
    <3>. QED  BY <3>1, <3>2
  <2>. QED  BY <1>2, <2>1, <2>2, TugashiKetmaL
<1>. QED  BY <1>1, <1>2 DEF KetmaTogri, KetmaRost

LEMMA TugashiTasdiqL ==
  ASSUME sessiyalar \in Seq(QatorTuri), Qatorli, NEW j, NEW r, NEW N, Tugashi(j, r, N)
  PROVE  TasdiqIkkiKorik'
<1>1. /\ DOMAIN sessiyalar = 1..j /\ DOMAIN sessiyalar' = 1..j /\ j \in 1..j
      /\ \A i \in 1..j : i # j => sessiyalar'[i] = sessiyalar[i]
      /\ sessiyalar'[j].turi = r.turi /\ sessiyalar'[j].sham = r.sham
      /\ sessiyalar'[j].holat = TUGADI /\ sessiyalar'[j].natija = N
  BY DEF Tugashi
<1>. SUFFICES ASSUME NEW i \in 1..j, NEW c \in Coinlar, NEW T \in RASMIY_TURLAR, NEW S,
                     S = sessiyalar'[i].sham, sessiyalar'[i].natija[c].holat = "tasdiqlangan"
              PROVE  NomzodEdi(Rejadagi(T, S), c)'
  BY <1>1 DEF TasdiqIkkiKorik
<1>2. CASE i # j
  <2>1. NomzodEdi(Rejadagi(T, S), c)  BY <1>1, <1>2 DEF Qatorli, TasdiqIkkiKorik
  <2>. QED  BY <2>1, TugashiNomzodL
<1>3. CASE i = j
  <2>1. N[c].holat = "tasdiqlangan" /\ S = r.sham  BY <1>1, <1>3
  <2>2. r.turi = TASDIQ /\ ANomzod(r, c) = "ha" /\ N[c].qator = "elak" /\ N[c].nomzod
    BY <2>1 DEF Tugashi, NatijaShart
  <2>3. CASE T = TASDIQ
    <3>1. Slotda(j, Rejadagi(T, S))'  BY <1>1, <2>1, <2>2, <2>3 DEF Slotda, Rejadagi
    <3>. QED  BY <1>1, <2>2, <3>1 DEF NomzodEdi, Qatorlar
  <2>4. CASE T = KASHFIYOT
    <3>. DEFINE R == Rejadagi(KASHFIYOT, r.sham)
                a == tugagan_sessiya(R)
    <3>1. a # 0 /\ sessiyalar[a].natija[c].nomzod /\ sessiyalar[a].natija[c].qator = "elak"
      BY <2>2 DEF ANomzod
    <3>2. R.turi \in RASMIY_TURLAR  BY DEF Rejadagi, RASMIY_TURLAR
    <3>. HIDE DEF R
    <3>3. a \in DOMAIN sessiyalar /\ Slotda(a, R) /\ sessiyalar[a].holat = TUGADI
      BY <3>1, <3>2, TugaganL DEF Qatorli
    <3>4. NomzodEdi(R, c)  BY <3>1, <3>3 DEF NomzodEdi, Qatorlar
    <3>5. NomzodEdi(R, c)'  BY <3>4, TugashiNomzodL
    <3>. QED  BY <2>1, <2>4, <3>5 DEF R
  <2>. QED  BY <2>3, <2>4 DEF RASMIY_TURLAR
<1>. QED  BY <1>2, <1>3

LEMMA TugashiChiqdiL ==
  ASSUME sessiyalar \in Seq(QatorTuri), Qatorli, NEW j, NEW r, NEW N, Tugashi(j, r, N)
  PROVE  ChiqdiKorinadi'
<1>1. /\ j \in Nat /\ j \in 1..j /\ DOMAIN sessiyalar = 1..j /\ DOMAIN sessiyalar' = 1..j
      /\ \A m \in 1..j : /\ sessiyalar'[m].turi = sessiyalar[m].turi
                         /\ sessiyalar'[m].sham = sessiyalar[m].sham
                         /\ sessiyalar[m].sham \in Int
                         /\ m # j => sessiyalar'[m] = sessiyalar[m]
      /\ sessiyalar[j].turi = r.turi /\ sessiyalar[j].sham = r.sham /\ r.sham \in Int
      /\ sessiyalar'[j].holat = TUGADI /\ sessiyalar'[j].natija = N
  BY TugashiSlotL
<1>2. sessiyalar[j].holat = YURMOQDA /\ YURMOQDA # TUGADI  BY DEF Tugashi, YURMOQDA, TUGADI
<1>. SUFFICES ASSUME NEW i \in 1..j, NEW k \in 1..j, NEW c \in Coinlar,
                     sessiyalar'[i].turi = TASDIQ, sessiyalar'[i].holat = TUGADI,
                     sessiyalar'[k].turi = TASDIQ, sessiyalar'[k].holat = TUGADI,
                     sessiyalar'[i].sham < sessiyalar'[k].sham,
                     \A m \in 1..j :
                        ~(/\ sessiyalar'[m].turi = TASDIQ /\ sessiyalar'[m].holat = TUGADI
                          /\ sessiyalar'[i].sham < sessiyalar'[m].sham
                          /\ sessiyalar'[m].sham < sessiyalar'[k].sham),
                     c \in Orinlilar(i)'
              PROVE  sessiyalar'[k].natija[c].qator # "yoq"
  <2>1. \A i \in 1..j : Orinlilar(i)' \subseteq Coinlar  BY DEF Orinlilar
  <2>2. DOMAIN sessiyalar' = 1..j  BY <1>1
  <2>. QED  BY <2>1, <2>2 DEF ChiqdiKorinadi
<1>3. i # j
  <2>. SUFFICES ASSUME i = j  PROVE FALSE  OBVIOUS
  <2>1. k # j  BY <1>1
  <2>2. k < j  BY <1>1, <2>1
  <2>3. TASDIQ \in RASMIY_TURLAR  BY DEF RASMIY_TURLAR
  <2>4. sessiyalar[k].turi = TASDIQ /\ sessiyalar[j].turi = TASDIQ  BY <1>1
  <2>5. sessiyalar[k].sham < sessiyalar[j].sham
    BY <1>1, <2>2, <2>3, <2>4 DEF Qatorli, Tartibli
  <2>. QED  BY <1>1, <2>5
<1>4. /\ sessiyalar[i].turi = TASDIQ /\ sessiyalar[i].holat = TUGADI /\ c \in Orinlilar(i)
      /\ sessiyalar'[i] = sessiyalar[i]
  <2>1. sessiyalar'[i] = sessiyalar[i]  BY <1>1, <1>3
  <2>. QED  BY <2>1 DEF Orinlilar
<1>5. \A m \in 1..j :
        ~(/\ sessiyalar[m].turi = TASDIQ /\ sessiyalar[m].holat = TUGADI
          /\ sessiyalar[i].sham < sessiyalar[m].sham
          /\ sessiyalar[m].sham < sessiyalar[k].sham)
  <2>. TAKE m \in 1..j
  <2>1. CASE m = j  BY <1>2, <2>1
  <2>2. CASE m # j
    <3>1. sessiyalar'[m] = sessiyalar[m] /\ sessiyalar'[k].sham = sessiyalar[k].sham  BY <1>1, <2>2
    <3>. QED  BY <1>4, <3>1
  <2>. QED  BY <2>1, <2>2
<1>6. CASE k # j
  <2>1. sessiyalar'[k] = sessiyalar[k]  BY <1>1, <1>6
  <2>. QED  BY <1>1, <1>4, <1>5, <2>1 DEF Qatorli, ChiqdiKorinadi
<1>7. CASE k = j
  <2>1. r.turi = TASDIQ /\ sessiyalar[k].sham = r.sham /\ sessiyalar[i].sham < r.sham
    BY <1>1, <1>4, <1>7
  <2>2. oldingi_tasdiq(r.sham) = i
    BY <1>1, <1>4, <1>5, <2>1, OldingiTasdiqL DEF Qatorli
  <2>3. N[c].qator # "yoq"  BY <1>4, <2>1, <2>2 DEF Tugashi, NatijaShart
  <2>. QED  BY <1>1, <1>7, <2>3
<1>. QED  BY <1>6, <1>7

\* The row that ends is the last one; its results are Natija's.
LEMMA TugadiL ==
  ASSUME sessiyalar \in Seq(QatorTuri), Qatorli, NEW j, j = Len(sessiyalar), j # 0,
         sessiyalar[j].holat = YURMOQDA,
         NEW r, r = Rejadagi(sessiyalar[j].turi, sessiyalar[j].sham), NEW b \in Bozor(r),
         sessiyalar' = [sessiyalar EXCEPT ![j].natija = Natija(r, b), ![j].holat = TUGADI]
  PROVE  Qatorli' /\ Natija(r, b) \in [Coinlar -> NatijaTuri]
<1>. DEFINE N == Natija(r, b)
<1>0. N = Natija(r, b)  OBVIOUS
<1>. HIDE DEF N
<1>1. sessiyalar' = [sessiyalar EXCEPT ![j].natija = N, ![j].holat = TUGADI]  BY <1>0
<1>2. Tugashi(j, r, N) /\ N \in [Coinlar -> NatijaTuri]  BY <1>0, <1>1, TugashiL DEF Qatorli
<1>3. Tartibli' /\ ElakKetma'  BY <1>2, TugashiTartibL, TugashiElakL DEF Qatorli
<1>4. KetmaTogri' /\ TasdiqIkkiKorik' /\ ChiqdiKorinadi'
  BY <1>2, TugashiKetmaTogriL, TugashiTasdiqL, TugashiChiqdiL
<1>. QED  BY <1>0, <1>2, <1>3, <1>4 DEF Qatorli
-----------------------------------------------------------------------------
\* Types

LEMMA YiqilganL ==
  ASSUME ish \in IshTuri
  PROVE  /\ Yiqilgan \in IshTuri /\ Yiqilgan.pc = "uxladi" /\ ~Yiqilgan.sorov
         /\ Yiqilgan.joriy = 0 /\ Yiqilgan.hajmUrinish = ish.hajmUrinish
<1>1. Yiqilgan = [ish EXCEPT !.pc = "uxladi", !.sorov = FALSE, !.reja = <<>>, !.joriy = 0]
  BY DEF Yiqilgan
<1>2. <<>> \in Seq(Slot)  OBVIOUS
<1>3. Yiqilgan \in IshTuri  BY <1>1, <1>2 DEF IshTuri
<1>4. /\ Yiqilgan.pc = "uxladi" /\ Yiqilgan.joriy = 0
      /\ Yiqilgan.hajmUrinish = ish.hajmUrinish
  BY <1>1 DEF IshTuri
<1>5. Yiqilgan.sorov = FALSE  BY <1>1 DEF IshTuri
<1>. QED  BY <1>3, <1>4, <1>5

\* Davomi: either the timetable is read, or the grading is next.
LEMMA DavomiL ==
  ASSUME soat \in Int, NEW m \in IshTuri
  PROVE  LET d == Davomi(m) IN
         /\ d \in IshTuri /\ d.joriy = m.joriy /\ d.sorov = m.sorov
         /\ d.hajmUrinish = m.hajmUrinish
         /\ m.pc = "hajm" => d.pc = "slot" /\ d.reja = bajariladiganlar(soat) /\ d.korildi = soat
         /\ m.pc # "hajm" => d.pc = "baho" /\ d.korildi = m.korildi
<1>1. bajariladiganlar(soat) \in Seq(Slot)  BY BajariladiL
<1>2. CASE m.pc = "hajm"  BY <1>1, <1>2 DEF Davomi, IshTuri
<1>3. CASE m.pc # "hajm"  BY <1>3 DEF Davomi, IshTuri
<1>. QED  BY <1>2, <1>3

\* A new row is of its type.
LEMMA YangiL ==
  ASSUME soat \in 0..MaxSoat, NEW r, r.turi \in RASMIY_TURLAR \cup {QOLDA}, r.sham \in Int
  PROVE  /\ YangiSessiya(r) \in QatorTuri /\ YangiSessiya(r).boshlandi \in {Yoq} \cup 0..soat
         /\ YangiSessiya(r).turi = r.turi /\ YangiSessiya(r).sham = r.sham
         /\ YangiSessiya(r).holat = YURMOQDA /\ YangiSessiya(r).natija = Natijasiz
<1>1. Natijasiz \in [Coinlar -> NatijaTuri]
  <2>1. [qator |-> "yoq", nomzod |-> FALSE, holat |-> "yoq", ketma |-> 0, orinli |-> FALSE,
         baho |-> "yoq"] \in NatijaTuri
    BY DEF NatijaTuri
  <2>. QED  BY <2>1 DEF Natijasiz
<1>2. soat \in Int /\ MaxSoat \in Nat  BY IshchiFarazi
<1>. DEFINE bo == IF r.turi = TASDIQ THEN soat ELSE Yoq
<1>3. bo \in Int /\ bo \in {Yoq} \cup 0..soat  BY <1>2 DEF Yoq
<1>4. YangiSessiya(r) = [turi |-> r.turi, sham |-> r.sham, holat |-> YURMOQDA, boshlandi |-> bo,
                         natija |-> Natijasiz]
  BY DEF YangiSessiya
<1>. HIDE DEF bo
<1>. QED  BY <1>1, <1>3, <1>4 DEF QatorTuri

\* Grading keeps all of a row but the grades: q is what becomes of row i.
BahoSaqladi(q, i, N, j) ==
    /\ q \in QatorTuri /\ q.turi = sessiyalar[i].turi /\ q.sham = sessiyalar[i].sham
    /\ q.holat = sessiyalar[i].holat /\ q.boshlandi = sessiyalar[i].boshlandi
    /\ sessiyalar[i].holat # TUGADI => q.natija = sessiyalar[i].natija
    /\ \A c \in Coinlar :
         LET y == q.natija[c]
             x == sessiyalar[i].natija[c]
         IN /\ y.qator = x.qator /\ y.nomzod = x.nomzod /\ y.holat = x.holat
            /\ y.ketma = x.ketma /\ y.orinli = x.orinli
            /\ y.baho = "bosh" => x.baho = "bosh" \/ (<<i, c>> \in N /\ j[<<i, c>>] = "bosh")

LEMMA BaholanganL ==
  ASSUME sessiyalar \in Seq(QatorTuri), NEW N \in SUBSET Yetilgan,
         NEW j \in [N -> {"yiqildi", "bosh", "shamlar"}], NEW i \in DOMAIN sessiyalar,
         NEW q, q = [sessiyalar[i] EXCEPT !.natija = Baholangan(i, N, j)]
  PROVE  BahoSaqladi(q, i, N, j)
<1>. DEFINE B == Baholangan(i, N, j)
            s == sessiyalar[i]
<1>0. s \in QatorTuri  OBVIOUS
<1>1. s \in QatorTuri /\ s.natija \in [Coinlar -> NatijaTuri]  BY <1>0 DEF QatorTuri
<1>2. ASSUME NEW c \in Coinlar
      PROVE  /\ B[c] \in NatijaTuri /\ B[c].qator = s.natija[c].qator
             /\ B[c].nomzod = s.natija[c].nomzod /\ B[c].holat = s.natija[c].holat
             /\ B[c].ketma = s.natija[c].ketma /\ B[c].orinli = s.natija[c].orinli
             /\ B[c].baho = "bosh" =>
                  s.natija[c].baho = "bosh" \/ (<<i, c>> \in N /\ j[<<i, c>>] = "bosh")
  <2>1. s.natija[c] \in NatijaTuri  BY <1>1
  <2>2. CASE <<i, c>> \in N
    <3>. DEFINE v == Bitta(i, j[<<i, c>>])
    <3>1. v \in {"yoq", "bor", "bosh"} /\ (v = "bosh" => j[<<i, c>>] = "bosh")
      BY <2>2 DEF Bitta
    <3>2. B[c] = [s.natija[c] EXCEPT !.baho = v]  BY <2>2 DEF Baholangan
    <3>. HIDE DEF v, B, s
    <3>3. B[c] \in NatijaTuri  BY <2>1, <3>1, <3>2 DEF NatijaTuri
    <3>4. /\ B[c].qator = s.natija[c].qator /\ B[c].holat = s.natija[c].holat
          /\ B[c].ketma = s.natija[c].ketma /\ B[c].baho = v
      BY <2>1, <3>2 DEF NatijaTuri
    <3>5. B[c].nomzod = s.natija[c].nomzod  BY <2>1, <3>2 DEF NatijaTuri
    <3>6. B[c].orinli = s.natija[c].orinli  BY <2>1, <3>2 DEF NatijaTuri
    <3>. QED  BY <2>2, <3>1, <3>3, <3>4, <3>5, <3>6
  <2>3. CASE <<i, c>> \notin N
    <3>1. B[c] = s.natija[c]  BY <2>3 DEF Baholangan
    <3>. HIDE DEF B, s
    <3>. QED  BY <2>1, <3>1
  <2>. QED  BY <2>2, <2>3
<1>3. B = [c \in Coinlar |-> B[c]]  BY DEF Baholangan
<1>4. B \in [Coinlar -> NatijaTuri]  BY <1>2, <1>3
<1>5. s.holat # TUGADI => B = s.natija
  <2>. SUFFICES ASSUME s.holat # TUGADI PROVE B = s.natija  OBVIOUS
  <2>1. \A c \in Coinlar : <<i, c>> \notin N  BY DEF Yetilgan
  <2>2. \A c \in Coinlar : B[c] = s.natija[c]  BY <2>1 DEF Baholangan
  <2>. HIDE DEF B, s
  <2>. QED  BY <1>1, <1>3, <2>2
<1>. HIDE DEF B
<1>6. q = [s EXCEPT !.natija = B]  BY DEF B
<1>. HIDE DEF s
<1>7. /\ q \in QatorTuri /\ q.turi = s.turi /\ q.sham = s.sham /\ q.holat = s.holat
      /\ q.boshlandi = s.boshlandi /\ q.natija = B
  BY <1>1, <1>4, <1>6 DEF QatorTuri
<1>. QED  BY <1>2, <1>5, <1>7 DEF BahoSaqladi, s
-----------------------------------------------------------------------------
\* Steps that leave the rows alone

\* What such a step does with the timetable in hand.
RejaQadami ==
    \/ ish'.pc \notin {"slot", "sessiya", "hajm2", "baho"}
    \/ ish'.pc = ish.pc /\ ish'.reja = ish.reja /\ ish'.korildi = ish.korildi
    \/ ish'.pc = "slot" /\ ish'.reja = bajariladiganlar(soat) /\ ish'.korildi = soat
    \/ ish.pc = "hajm2" /\ ish'.pc = "baho" /\ ish'.korildi = ish.korildi
    \/ /\ ish.pc = "slot" /\ ish'.pc = "slot" /\ ish'.korildi = ish.korildi
       /\ ish.reja # <<>> /\ rasmiy_bormi(Head(ish.reja)) /\ ish'.reja = Tail(ish.reja)
    \/ ish.pc = "slot" /\ ish.reja = <<>> /\ ish'.pc = "hajm2" /\ ish'.korildi = ish.korildi

\* The rows and the clock seen from the next state.
LEMMA RejaL ==
  ASSUME Tipli, RejaTogri, VaqtTogri, sessiyalar' = sessiyalar, ish' \in IshTuri,
         soat' \in Int, soat <= soat', RejaQadami
  PROVE  RejaTogri' /\ VaqtTogri'
<1>1. soat \in Int /\ ish \in IshTuri /\ sessiyalar \in Seq(QatorTuri)
  BY IshchiFarazi DEF Tipli
<1>2. /\ ish.korildi \in Int /\ ish'.korildi \in Int
      /\ ish.reja \in Seq(Slot) /\ ish'.reja \in Seq(Slot)
  BY <1>1 DEF IshTuri
<1>3. \A r : Qatorlar(r)' = Qatorlar(r)  BY DEF Qatorlar, Slotda
<1>4. \A i \in DOMAIN sessiyalar : sessiya_vaqti(sessiyalar[i]) \in Int
  <2>. SUFFICES ASSUME NEW i \in DOMAIN sessiyalar PROVE sessiya_vaqti(sessiyalar[i]) \in Int  OBVIOUS
  <2>1. sessiyalar[i] \in QatorTuri  BY <1>1
  <2>. QED  BY <2>1, VaqtFarazi DEF QatorTuri, sessiya_vaqti
<1>5. CASE ish'.pc \notin {"slot", "sessiya", "hajm2", "baho"}
  BY <1>1, <1>4, <1>5 DEF RejaTogri, VaqtTogri
<1>6. CASE ish'.pc = ish.pc /\ ish'.reja = ish.reja /\ ish'.korildi = ish.korildi
  <2>1. RejaTogri'  BY <1>1, <1>2, <1>3, <1>6 DEF RejaTogri
  <2>2. VaqtTogri'  BY <1>1, <1>2, <1>4, <1>6 DEF VaqtTogri
  <2>. QED  BY <2>1, <2>2
<1>7. CASE ish'.pc = "slot" /\ ish'.reja = bajariladiganlar(soat) /\ ish'.korildi = soat
  <2>3. /\ \A k \in DOMAIN ish'.reja : Karrali(ish'.reja[k]) /\ Oynada(ish'.reja[k], ish'.korildi)
        /\ \A r \in Slot : Karrali(r) /\ Oynada(r, ish'.korildi) =>
              \E k \in DOMAIN ish'.reja : ish'.reja[k] = r
        /\ ish'.korildi <= soat'
    <3>1. /\ \A k \in DOMAIN bajariladiganlar(soat) :
                Karrali(bajariladiganlar(soat)[k]) /\ Oynada(bajariladiganlar(soat)[k], soat)
          /\ \A r \in Slot : Karrali(r) /\ Oynada(r, soat) =>
                \E k \in DOMAIN bajariladiganlar(soat) : bajariladiganlar(soat)[k] = r
      BY <1>1, BajariladiL
    <3>. QED  BY <1>7, <3>1
  <2>1. RejaTogri'  BY <1>7, <2>3 DEF RejaTogri
  <2>2. VaqtTogri'  BY <1>1, <1>4, <1>7 DEF VaqtTogri
  <2>. QED  BY <2>1, <2>2
<1>8. CASE ish.pc = "hajm2" /\ ish'.pc = "baho" /\ ish'.korildi = ish.korildi
  <2>1. RejaTogri'  BY <1>1, <1>2, <1>3, <1>8 DEF RejaTogri
  <2>2. VaqtTogri'  BY <1>1, <1>4, <1>8 DEF VaqtTogri
  <2>. QED  BY <2>1, <2>2
<1>9. CASE /\ ish.pc = "slot" /\ ish'.pc = "slot" /\ ish'.korildi = ish.korildi
           /\ ish.reja # <<>> /\ rasmiy_bormi(Head(ish.reja)) /\ ish'.reja = Tail(ish.reja)
  <2>. DEFINE q == ish.reja
  <2>1. /\ q \in Seq(Slot) /\ Len(q) \in Nat /\ Len(q) > 0 /\ DOMAIN q = 1..Len(q)
        /\ DOMAIN Tail(q) = 1..(Len(q) - 1) /\ \A k \in 1..(Len(q) - 1) : Tail(q)[k] = q[k + 1]
        /\ Head(q) = q[1]
    BY <1>2, <1>9
  <2>2. Qatorlar(q[1]) # {}  BY <1>9, <2>1 DEF rasmiy_bormi, Qatorlar
  <2>3. \A k \in DOMAIN q : q[k] = q[1] \/ \E m \in DOMAIN Tail(q) : Tail(q)[m] = q[k]
    <3>. SUFFICES ASSUME NEW k \in DOMAIN q, k # 1
                  PROVE  \E m \in DOMAIN Tail(q) : Tail(q)[m] = q[k]
      OBVIOUS
    <3>1. k - 1 \in DOMAIN Tail(q) /\ Tail(q)[k - 1] = q[k]  BY <2>1
    <3>. QED  BY <3>1
  <2>. HIDE DEF q
  <2>4. \A m \in DOMAIN Tail(q) : \E k \in DOMAIN q : Tail(q)[m] = q[k]
    <3>. SUFFICES ASSUME NEW m \in DOMAIN Tail(q) PROVE \E k \in DOMAIN q : Tail(q)[m] = q[k]
      OBVIOUS
    <3>1. m + 1 \in DOMAIN q /\ Tail(q)[m] = q[m + 1]  BY <2>1
    <3>. QED  BY <3>1
  <2>5. \A r \in Slot : Karrali(r) /\ Oynada(r, ish.korildi) =>
              Qatorlar(r) # {} \/ \E k \in DOMAIN Tail(q) : Tail(q)[k] = r
    BY <1>9, <2>2, <2>3 DEF RejaTogri, q
  <2>6. \A k \in DOMAIN Tail(q) : Karrali(Tail(q)[k]) /\ Oynada(Tail(q)[k], ish.korildi)
    BY <1>9, <2>4 DEF RejaTogri, q
  <2>7. ish.korildi <= soat  BY <1>9 DEF RejaTogri
  <2>8. RejaTogri'
    BY <1>1, <1>2, <1>3, <1>9, <2>5, <2>6, <2>7 DEF RejaTogri, q
  <2>9. VaqtTogri'  BY <1>1, <1>2, <1>4, <1>9 DEF VaqtTogri
  <2>. QED  BY <2>8, <2>9
<1>10. CASE ish.pc = "slot" /\ ish.reja = <<>> /\ ish'.pc = "hajm2" /\ ish'.korildi = ish.korildi
  <2>1. DOMAIN ish.reja = {}  BY <1>10
  <2>2. RejaTogri'  BY <1>1, <1>2, <1>3, <1>10, <2>1 DEF RejaTogri
  <2>3. VaqtTogri'  BY <1>1, <1>4, <1>10 DEF VaqtTogri
  <2>. QED  BY <2>2, <2>3
<1>. QED  BY <1>5, <1>6, <1>7, <1>8, <1>9, <1>10 DEF RejaQadami

\* Requests and presses balance.
LEMMA HisobL ==
  ASSUME NEW n \in Int, NEW a \in Int, NEW b \in Int, NEW c \in Int, NEW d \in Int,
         NEW x \in Int, NEW y \in Int, n + a + b <= x, c + d + x <= a + b + y
  PROVE  n + c + d <= y
  OBVIOUS

\* Nothing is lost of the rows, and the rest is as the step leaves it.
LEMMA TinchL ==
  ASSUME RadarInv, sessiyalar' = sessiyalar, ish' \in IshTuri,
         soat' \in 0..MaxSoat, soat <= soat', sorov' \in BOOLEAN, hajm' \in {Yoq} \cup 0..MaxSoat,
         delist \subseteq delist', delist' \subseteq Coinlar,
         bosildi' \in 0..MaxSorov, uzilish' \in 0..MaxUzilish, xato' \in 0..MaxXato,
         yozilmagan \subseteq yozilmagan', yozilmagan' \subseteq DOMAIN sessiyalar,
         urinish' = ish'.hajmUrinish,
         Bayroq(sorov') + Bayroq(ish'.sorov) + bosildi <= Bayroq(sorov) + Bayroq(ish.sorov) + bosildi',
         ish'.pc # "sessiya" => ish'.joriy = 0,
         ish'.pc = "sessiya" => ish.pc = "sessiya" /\ ish'.joriy = ish.joriy,
         ish'.pc # "boshlash" =>
            ish.pc # "boshlash" /\ (ish'.joriy = ish.joriy \/ ish.joriy = 0 \/ ish.joriy \in yozilmagan'),
         RejaQadami
  PROVE  RadarInv'
<1>1. Tipli'
  <2>1. soat \in Int /\ soat' \in Int  BY IshchiFarazi DEF RadarInv, Tipli
  <2>2. \A i \in DOMAIN sessiyalar : sessiyalar[i].boshlandi \in {Yoq} \cup 0..soat'
    BY <2>1 DEF RadarInv, Tipli
  <2>. QED  BY <2>2 DEF RadarInv, Tipli
<1>2. UrinishTogri'  BY DEF UrinishTogri
<1>3. JoriyTogri'  BY DEF RadarInv, JoriyTogri
<1>4. YurmoqdaRost'
  <2>1. \A i \in DOMAIN sessiyalar : i # 0  BY DEF RadarInv, Tipli
  <2>. QED  BY <2>1 DEF RadarInv, YurmoqdaRost
<1>5. RejaTogri' /\ VaqtTogri'
  <2>1. soat' \in Int  BY IshchiFarazi
  <2>. QED  BY <2>1, RejaL DEF RadarInv
<1>6. SorovSoni'
  <2>1. Qoldalar' = Qoldalar  BY DEF Qoldalar
  <2>2. Bayroq(sorov)' = Bayroq(sorov') /\ Bayroq(ish.sorov)' = Bayroq(ish'.sorov)  BY DEF Bayroq
  <2>3. /\ Bayroq(sorov) \in Int /\ Bayroq(ish.sorov) \in Int /\ Bayroq(sorov') \in Int
        /\ Bayroq(ish'.sorov) \in Int
    BY DEF Bayroq
  <2>4. bosildi \in Int /\ bosildi' \in Int /\ Cardinality(Qoldalar) \in Int
    BY IshchiFarazi, FS_CardinalityType DEF RadarInv, Tipli, SorovSoni
  <2>5. Cardinality(Qoldalar) + Bayroq(sorov) + Bayroq(ish.sorov) <= bosildi
    BY DEF RadarInv, SorovSoni
  <2>6. Cardinality(Qoldalar) + Bayroq(sorov') + Bayroq(ish'.sorov) <= bosildi'
    BY <2>3, <2>4, <2>5, HisobL
  <2>. QED  BY <2>1, <2>2, <2>6 DEF SorovSoni, RadarInv
<1>7. BahoBoshRost'  BY DEF RadarInv, BahoBoshRost
<1>8. Qatorli'
  <2>1. Saqlandi  BY DEF Saqlandi
  <2>. QED  BY <2>1, SaqlandiL DEF RadarInv
<1>. QED  BY <1>1, <1>2, <1>3, <1>4, <1>5, <1>6, <1>7, <1>8 DEF RadarInv

\* What every step may use.
LEMMA TurlarL ==
  ASSUME RadarInv
  PROVE  /\ soat \in 0..MaxSoat /\ soat \in Int /\ sorov \in BOOLEAN
         /\ hajm \in {Yoq} \cup 0..MaxSoat /\ delist \subseteq Coinlar /\ ish \in IshTuri
         /\ yozilmagan \subseteq DOMAIN sessiyalar
         /\ bosildi \in 0..MaxSorov /\ uzilish \in 0..MaxUzilish /\ xato \in 0..MaxXato
         /\ soat <= soat /\ urinish = ish.hajmUrinish /\ ish.sorov \in BOOLEAN
         /\ MaxXato \in Nat /\ MaxSorov \in Nat /\ MaxUzilish \in Nat /\ MaxSoat \in Nat
         /\ Bayroq(sorov) \in {0, 1} /\ Bayroq(ish.sorov) \in {0, 1} /\ bosildi \in Int
         /\ \A x : ~x => Bayroq(x) = 0
         /\ ish.pc # "sessiya" => ish.joriy = 0
<1>1. /\ soat \in 0..MaxSoat /\ soat \in Int /\ sorov \in BOOLEAN
      /\ hajm \in {Yoq} \cup 0..MaxSoat /\ delist \subseteq Coinlar /\ ish \in IshTuri
      /\ yozilmagan \subseteq DOMAIN sessiyalar
      /\ bosildi \in 0..MaxSorov /\ uzilish \in 0..MaxUzilish /\ xato \in 0..MaxXato
      /\ soat <= soat /\ urinish = ish.hajmUrinish /\ bosildi \in Int
      /\ MaxXato \in Nat /\ MaxSorov \in Nat /\ MaxUzilish \in Nat /\ MaxSoat \in Nat
  BY IshchiFarazi DEF RadarInv, Tipli, UrinishTogri
<1>2. ish.sorov \in BOOLEAN  BY <1>1 DEF IshTuri
<1>3. /\ Bayroq(sorov) \in {0, 1} /\ Bayroq(ish.sorov) \in {0, 1}
      /\ \A x : ~x => Bayroq(x) = 0
  BY DEF Bayroq
<1>4. ish.pc # "sessiya" => ish.joriy = 0  BY DEF RadarInv, JoriyTogri
<1>. QED  BY <1>1, <1>2, <1>3, <1>4

\* The refreshes of the volumes.
LEMMA HajmQadamL ==
  ASSUME RadarInv, HajmYangilanadi \/ HajmYiqiladi \/ HajmKerakEmas
  PROVE  RadarInv'
<1>1. CASE HajmYangilanadi
  <2>. DEFINE m == [ish EXCEPT !.hajmUrinish = soat, !.hajmQilindi = TRUE]
  <2>1. /\ sessiyalar' = sessiyalar /\ soat' = soat /\ sorov' = sorov /\ delist' = delist
        /\ bosildi' = bosildi /\ uzilish' = uzilish /\ xato' = xato /\ yozilmagan' = yozilmagan
        /\ urinish' = soat /\ ish' = Davomi(m) /\ hajm' \in {hajm, soat}
        /\ ish.pc \in {"hajm", "hajm2"}
    BY <1>1 DEF HajmYangilanadi, HajmKerak
  <2>2. /\ m \in IshTuri /\ m.pc = ish.pc /\ m.joriy = ish.joriy /\ m.hajmUrinish = soat
        /\ m.korildi = ish.korildi
    BY TurlarL DEF IshTuri
  <2>3. m.sorov = ish.sorov  BY TurlarL DEF IshTuri
  <2>. HIDE DEF m
  <2>4. /\ ish' \in IshTuri /\ ish'.joriy = ish.joriy /\ ish'.hajmUrinish = soat
        /\ ish'.pc \in {"slot", "baho"} /\ ish.pc # "boshlash" /\ ish.pc # "sessiya"
        /\ ish.pc = "hajm" => /\ ish'.pc = "slot" /\ ish'.reja = bajariladiganlar(soat)
                              /\ ish'.korildi = soat
        /\ ish.pc # "hajm" => ish'.pc = "baho" /\ ish'.korildi = ish.korildi
    BY TurlarL, <2>1, <2>2, DavomiL
  <2>5. ish'.sorov = ish.sorov  BY TurlarL, <2>1, <2>2, <2>3, DavomiL
  <2>6. RejaQadami  BY <2>1, <2>4 DEF RejaQadami
  <2>7. Bayroq(sorov') + Bayroq(ish'.sorov) + bosildi <= Bayroq(sorov) + Bayroq(ish.sorov) + bosildi'
    BY TurlarL, <2>1, <2>5
  <2>. QED  BY TurlarL, <2>1, <2>4, <2>6, <2>7, TinchL
<1>2. CASE HajmYiqiladi
  <2>1. /\ sessiyalar' = sessiyalar /\ soat' = soat /\ sorov' = sorov /\ delist' = delist
        /\ bosildi' = bosildi /\ uzilish' = uzilish /\ xato' = xato + 1 /\ xato < MaxXato
        /\ yozilmagan' = yozilmagan /\ urinish' = soat /\ hajm' = hajm
        /\ ish' = [Yiqilgan EXCEPT !.hajmUrinish = soat] /\ ish.pc \in {"hajm", "hajm2"}
    BY <1>2 DEF HajmYiqiladi, HajmKerak
  <2>2. /\ ish' \in IshTuri /\ ish'.pc = "uxladi" /\ ish'.joriy = 0 /\ ish'.hajmUrinish = soat
    BY TurlarL, <2>1, YiqilganL DEF IshTuri
  <2>3. ~ish'.sorov  BY TurlarL, <2>1, YiqilganL DEF IshTuri
  <2>4. RejaQadami  BY <2>2 DEF RejaQadami
  <2>5. Bayroq(sorov') + Bayroq(ish'.sorov) + bosildi <= Bayroq(sorov) + Bayroq(ish.sorov) + bosildi'
    <3>1. Bayroq(ish'.sorov) = 0  BY TurlarL, <2>3
    <3>. QED  BY TurlarL, <2>1, <3>1
  <2>6. xato' \in 0..MaxXato /\ ish.pc # "boshlash" /\ ish.joriy = 0  BY TurlarL, <2>1
  <2>. QED  BY TurlarL, <2>1, <2>2, <2>4, <2>5, <2>6, TinchL
<1>3. CASE HajmKerakEmas
  <2>1. /\ sessiyalar' = sessiyalar /\ soat' = soat /\ sorov' = sorov /\ delist' = delist
        /\ bosildi' = bosildi /\ uzilish' = uzilish /\ xato' = xato /\ yozilmagan' = yozilmagan
        /\ urinish' = urinish /\ ish' = Davomi(ish) /\ hajm' = hajm
        /\ ish.pc \in {"hajm", "hajm2"}
    BY <1>3 DEF HajmKerakEmas, tarix
  <2>2. /\ ish' \in IshTuri /\ ish'.joriy = ish.joriy /\ ish'.hajmUrinish = ish.hajmUrinish
        /\ ish'.pc \in {"slot", "baho"} /\ ish.pc # "boshlash" /\ ish.pc # "sessiya"
        /\ ish.pc = "hajm" => /\ ish'.pc = "slot" /\ ish'.reja = bajariladiganlar(soat)
                              /\ ish'.korildi = soat
        /\ ish.pc # "hajm" => ish'.pc = "baho" /\ ish'.korildi = ish.korildi
    BY TurlarL, <2>1, DavomiL
  <2>3. ish'.sorov = ish.sorov  BY TurlarL, <2>1, DavomiL
  <2>4. RejaQadami  BY <2>1, <2>2 DEF RejaQadami
  <2>5. Bayroq(sorov') + Bayroq(ish'.sorov) + bosildi <= Bayroq(sorov) + Bayroq(ish.sorov) + bosildi'
    BY TurlarL, <2>1, <2>3
  <2>. QED  BY TurlarL, <2>1, <2>2, <2>4, <2>5, TinchL
<1>. QED  BY <1>1, <1>2, <1>3

\* The loop's own steps between the sessions.
LEMMA HalqaL ==
  ASSUME RadarInv, QadamBoshi \/ SlotBor \/ QoldaYoq \/ BahoErta \/ Uygonadi
  PROVE  RadarInv'
<1>1. CASE QadamBoshi
  <2>1. /\ sessiyalar' = sessiyalar /\ soat' = soat /\ hajm' = hajm /\ delist' = delist
        /\ bosildi' = bosildi /\ uzilish' = uzilish /\ xato' = xato /\ yozilmagan' = yozilmagan
        /\ urinish' = urinish /\ ish.pc = "uyqu"
        /\ ish' = [ish EXCEPT !.pc = "hajm", !.sorov = sorov, !.hajmOldi = hajm,
                              !.hajmQilindi = FALSE]
    BY <1>1 DEF QadamBoshi, tarix
  <2>2. sorov' = FALSE  BY <1>1 DEF QadamBoshi, SorovdanKeyin
  <2>3. hajm \in Int  BY TurlarL DEF Yoq
  <2>4. /\ ish' \in IshTuri /\ ish'.joriy = ish.joriy /\ ish'.hajmUrinish = ish.hajmUrinish
        /\ ish'.pc = "hajm"
    BY TurlarL, <2>1, <2>3 DEF IshTuri
  <2>5. ish'.sorov = sorov  BY TurlarL, <2>1 DEF IshTuri
  <2>6. Bayroq(sorov') + Bayroq(ish'.sorov) + bosildi <= Bayroq(sorov) + Bayroq(ish.sorov) + bosildi'
    <3>1. Bayroq(sorov') = 0  BY <2>2 DEF Bayroq
    <3>. QED  BY TurlarL, <2>1, <2>5, <3>1
  <2>7. RejaQadami  BY <2>4 DEF RejaQadami
  <2>8. sorov' \in BOOLEAN  BY <2>2
  <2>. QED  BY TurlarL, <2>1, <2>4, <2>6, <2>7, <2>8, TinchL
<1>2. CASE SlotBor
  <2>1. /\ sessiyalar' = sessiyalar /\ soat' = soat /\ hajm' = hajm /\ delist' = delist
        /\ bosildi' = bosildi /\ uzilish' = uzilish /\ xato' = xato /\ yozilmagan' = yozilmagan
        /\ urinish' = urinish /\ ish.pc = "slot" /\ sorov' = sorov
        /\ ish.reja # <<>> /\ rasmiy_bormi(Head(ish.reja))
        /\ ish' = [ish EXCEPT !.reja = Tail(ish.reja)]
    BY <1>2 DEF SlotBor, tarix
  <2>2. Tail(ish.reja) \in Seq(Slot)  BY TurlarL, <2>1 DEF IshTuri
  <2>3. /\ ish' \in IshTuri /\ ish'.joriy = ish.joriy /\ ish'.hajmUrinish = ish.hajmUrinish
        /\ ish'.pc = "slot" /\ ish'.reja = Tail(ish.reja) /\ ish'.korildi = ish.korildi
    BY TurlarL, <2>1, <2>2 DEF IshTuri
  <2>4. ish'.sorov = ish.sorov  BY TurlarL, <2>1 DEF IshTuri
  <2>5. Bayroq(sorov') + Bayroq(ish'.sorov) + bosildi <= Bayroq(sorov) + Bayroq(ish.sorov) + bosildi'
    BY TurlarL, <2>1, <2>4
  <2>6. RejaQadami  BY <2>1, <2>3 DEF RejaQadami
  <2>. QED  BY TurlarL, <2>1, <2>3, <2>5, <2>6, TinchL
<1>3. CASE QoldaYoq
  <2>1. /\ sessiyalar' = sessiyalar /\ soat' = soat /\ hajm' = hajm /\ delist' = delist
        /\ bosildi' = bosildi /\ uzilish' = uzilish /\ xato' = xato /\ yozilmagan' = yozilmagan
        /\ urinish' = urinish /\ ish.pc = "slot" /\ sorov' = sorov /\ ish.reja = <<>>
        /\ ish' = [ish EXCEPT !.pc = "hajm2"]
    BY <1>3 DEF QoldaYoq, tarix
  <2>2. /\ ish' \in IshTuri /\ ish'.joriy = ish.joriy /\ ish'.hajmUrinish = ish.hajmUrinish
        /\ ish'.pc = "hajm2" /\ ish'.korildi = ish.korildi
    BY TurlarL, <2>1 DEF IshTuri
  <2>3. ish'.sorov = ish.sorov  BY TurlarL, <2>1 DEF IshTuri
  <2>4. Bayroq(sorov') + Bayroq(ish'.sorov) + bosildi <= Bayroq(sorov) + Bayroq(ish.sorov) + bosildi'
    BY TurlarL, <2>1, <2>3
  <2>5. RejaQadami  BY <2>1, <2>2 DEF RejaQadami
  <2>. QED  BY TurlarL, <2>1, <2>2, <2>4, <2>5, TinchL
<1>4. CASE BahoErta \/ Uygonadi
  <2>1. /\ sessiyalar' = sessiyalar /\ soat' = soat /\ hajm' = hajm /\ delist' = delist
        /\ bosildi' = bosildi /\ uzilish' = uzilish /\ xato' = xato /\ yozilmagan' = yozilmagan
        /\ urinish' = urinish /\ ish.pc \in {"baho", "uxladi"} /\ sorov' = sorov
        /\ ish' = [ish EXCEPT !.pc = "uxladi"] \/ ish' = [ish EXCEPT !.pc = "uyqu"]
    BY <1>4 DEF BahoErta, Uygonadi, tarix
  <2>2. /\ ish' \in IshTuri /\ ish'.joriy = ish.joriy /\ ish'.hajmUrinish = ish.hajmUrinish
        /\ ish'.pc \in {"uyqu", "uxladi"}
    BY TurlarL, <2>1 DEF IshTuri
  <2>3. ish'.sorov = ish.sorov  BY TurlarL, <2>1 DEF IshTuri
  <2>4. Bayroq(sorov') + Bayroq(ish'.sorov) + bosildi <= Bayroq(sorov) + Bayroq(ish.sorov) + bosildi'
    BY TurlarL, <2>1, <2>3
  <2>5. RejaQadami  BY <2>2 DEF RejaQadami
  <2>. QED  BY TurlarL, <2>1, <2>2, <2>4, <2>5, TinchL
<1>. QED  BY <1>1, <1>2, <1>3, <1>4

\* A write fails and the pass ends.
LEMMA YiqilishL ==
  ASSUME RadarInv, SlotYiqiladi \/ SessiyaYopilmaydi \/ BahoYiqiladi
  PROVE  RadarInv'
<1>1. /\ sessiyalar' = sessiyalar /\ soat' = soat /\ sorov' = sorov /\ delist' = delist
      /\ hajm' = hajm /\ bosildi' = bosildi /\ uzilish' = uzilish /\ xato' = xato + 1
      /\ xato < MaxXato /\ urinish' = urinish /\ ish.pc \in {"slot", "sessiya", "baho"}
      /\ ish' = Yiqilgan \/ ish' = [Yiqilgan EXCEPT !.bahoVaqti = soat]
      /\ \/ yozilmagan' = yozilmagan /\ ish.pc # "sessiya"
         \/ yozilmagan' = yozilmagan \cup {ish.joriy} /\ ish.pc = "sessiya"
  BY DEF SlotYiqiladi, SessiyaYopilmaydi, BahoYiqiladi, tarix
<1>2. /\ ish' \in IshTuri /\ ish'.pc = "uxladi" /\ ish'.joriy = 0
      /\ ish'.hajmUrinish = ish.hajmUrinish
  BY TurlarL, <1>1, YiqilganL DEF IshTuri
<1>3. ~ish'.sorov  BY TurlarL, <1>1, YiqilganL DEF IshTuri
<1>4. RejaQadami  BY <1>2 DEF RejaQadami
<1>5. Bayroq(sorov') + Bayroq(ish'.sorov) + bosildi <= Bayroq(sorov) + Bayroq(ish.sorov) + bosildi'
  <2>1. Bayroq(ish'.sorov) = 0  BY TurlarL, <1>3
  <2>. QED  BY TurlarL, <1>1, <2>1
<1>6. ish.pc = "sessiya" => ish.joriy \in DOMAIN sessiyalar
  <2>1. sessiyalar \in Seq(QatorTuri)  BY DEF RadarInv, Tipli
  <2>. QED  BY <2>1 DEF RadarInv, JoriyTogri
<1>7. /\ yozilmagan \subseteq yozilmagan' /\ yozilmagan' \subseteq DOMAIN sessiyalar
      /\ ish.joriy = 0 \/ ish.joriy \in yozilmagan'
      /\ xato' \in 0..MaxXato /\ ish.pc # "boshlash"
  BY TurlarL, <1>1, <1>6
<1>. QED  BY TurlarL, <1>1, <1>2, <1>4, <1>5, <1>7, TinchL

\* The clock, the admin, the exchange, a crash.
LEMMA DunyoL ==
  ASSUME RadarInv, Tik \/ RadarSora \/ Uziladi \/ Delist
  PROVE  RadarInv'
<1>1. CASE Tik
  <2>1. /\ sessiyalar' = sessiyalar /\ soat' = soat + 1 /\ soat < MaxSoat /\ sorov' = sorov
        /\ hajm' = hajm /\ delist' = delist /\ bosildi' = bosildi /\ uzilish' = uzilish
        /\ xato' = xato /\ yozilmagan' = yozilmagan /\ urinish' = urinish
        /\ ish' = [ish EXCEPT !.pc = IF ish.pc = "uxladi" THEN "uyqu" ELSE ish.pc]
    BY <1>1 DEF Tik, tarix
  <2>2. /\ ish' \in IshTuri /\ ish'.joriy = ish.joriy /\ ish'.hajmUrinish = ish.hajmUrinish
        /\ ish.pc = "uxladi" => ish'.pc = "uyqu"
        /\ ish.pc # "uxladi" => ish'.pc = ish.pc
        /\ ish'.reja = ish.reja /\ ish'.korildi = ish.korildi
    BY TurlarL, <2>1 DEF IshTuri
  <2>3. ish'.sorov = ish.sorov  BY TurlarL, <2>1 DEF IshTuri
  <2>4. Bayroq(sorov') + Bayroq(ish'.sorov) + bosildi <= Bayroq(sorov) + Bayroq(ish.sorov) + bosildi'
    BY TurlarL, <2>1, <2>3
  <2>5. RejaQadami  BY <2>2 DEF RejaQadami
  <2>6. soat' \in 0..MaxSoat /\ soat <= soat'  BY TurlarL, <2>1
  <2>7. /\ ish'.pc # "sessiya" => ish'.joriy = 0
        /\ ish'.pc = "sessiya" => ish.pc = "sessiya" /\ ish'.joriy = ish.joriy
        /\ ish'.pc # "boshlash" => ish.pc # "boshlash" /\ ish'.joriy = ish.joriy
    BY TurlarL, <2>2
  <2>. QED  BY TurlarL, <2>1, <2>2, <2>4, <2>5, <2>6, <2>7, TinchL
<1>2. CASE RadarSora
  <2>1. /\ sessiyalar' = sessiyalar /\ soat' = soat /\ sorov' = TRUE /\ bosildi < MaxSorov
        /\ hajm' = hajm /\ delist' = delist /\ bosildi' = bosildi + 1 /\ uzilish' = uzilish
        /\ xato' = xato /\ yozilmagan' = yozilmagan /\ urinish' = urinish /\ ish' = ish
    BY <1>2 DEF RadarSora
  <2>2. Bayroq(sorov') + Bayroq(ish'.sorov) + bosildi <= Bayroq(sorov) + Bayroq(ish.sorov) + bosildi'
    <3>1. Bayroq(sorov') = 1 /\ ish'.sorov = ish.sorov  BY <2>1 DEF Bayroq
    <3>. QED  BY TurlarL, <2>1, <3>1
  <2>3. RejaQadami  BY <2>1 DEF RejaQadami
  <2>4. bosildi' \in 0..MaxSorov /\ sorov' \in BOOLEAN  BY TurlarL, <2>1
  <2>. QED  BY TurlarL, <2>1, <2>2, <2>3, <2>4, TinchL
<1>3. CASE Uziladi
  <2>1. /\ sessiyalar' = sessiyalar /\ soat' = soat /\ sorov' = sorov /\ uzilish < MaxUzilish
        /\ hajm' = hajm /\ delist' = delist /\ bosildi' = bosildi /\ uzilish' = uzilish + 1
        /\ xato' = xato /\ yozilmagan' = yozilmagan /\ urinish' = Yoq /\ ish' = Toza
    BY <1>3 DEF Uziladi
  <2>2. <<>> \in Seq(Slot) /\ Yoq \in Int  BY DEF Yoq
  <2>3. /\ ish' \in IshTuri /\ ish'.pc = "boshlash" /\ ish'.joriy = 0 /\ ish'.hajmUrinish = Yoq
    BY <2>1, <2>2 DEF Toza, IshTuri
  <2>4. ish'.sorov = FALSE  BY <2>1 DEF Toza
  <2>5. Bayroq(sorov') + Bayroq(ish'.sorov) + bosildi <= Bayroq(sorov) + Bayroq(ish.sorov) + bosildi'
    <3>1. Bayroq(ish'.sorov) = 0  BY TurlarL, <2>4
    <3>. QED  BY TurlarL, <2>1, <3>1
  <2>6. RejaQadami  BY <2>3 DEF RejaQadami
  <2>7. uzilish' \in 0..MaxUzilish  BY TurlarL, <2>1
  <2>. QED  BY TurlarL, <2>1, <2>3, <2>5, <2>6, <2>7, TinchL
<1>4. CASE Delist
  <2>1. PICK c \in Coinlar : delist' = delist \cup {c}  BY <1>4 DEF Delist
  <2>2. /\ sessiyalar' = sessiyalar /\ soat' = soat /\ sorov' = sorov /\ hajm' = hajm
        /\ bosildi' = bosildi /\ uzilish' = uzilish /\ xato' = xato /\ yozilmagan' = yozilmagan
        /\ urinish' = urinish /\ ish' = ish
    BY <1>4 DEF Delist, tarix
  <2>3. delist \subseteq delist' /\ delist' \subseteq Coinlar  BY TurlarL, <2>1
  <2>4. Bayroq(sorov') + Bayroq(ish'.sorov) + bosildi <= Bayroq(sorov) + Bayroq(ish.sorov) + bosildi'
    BY TurlarL, <2>2
  <2>5. RejaQadami  BY <2>2 DEF RejaQadami
  <2>. QED  BY TurlarL, <2>2, <2>3, <2>4, <2>5, TinchL
<1>. QED  BY <1>1, <1>2, <1>3, <1>4
-----------------------------------------------------------------------------
\* Steps that write rows

\* No row is added, and none changes its slot.
OrniSaqlandi ==
    /\ DOMAIN sessiyalar' = DOMAIN sessiyalar
    /\ \A i \in DOMAIN sessiyalar :
          /\ sessiyalar'[i].turi = sessiyalar[i].turi /\ sessiyalar'[i].sham = sessiyalar[i].sham
          /\ sessiyalar'[i].boshlandi = sessiyalar[i].boshlandi

\* Rows are closed, filled or graded: slots and requests stay as they were.
LEMMA YozuvL ==
  ASSUME RadarInv, OrniSaqlandi, sessiyalar' \in Seq(QatorTuri),
         ish' \in IshTuri, soat' = soat, ish'.sorov = ish.sorov, ish'.hajmUrinish = ish.hajmUrinish,
         UNCHANGED <<sorov, hajm, delist, bosildi, uzilish, xato, yozilmagan, urinish>>,
         ish'.pc \in {"slot", "sessiya", "hajm2", "baho"} =>
            /\ ish.pc \in {"slot", "sessiya"} /\ ish'.pc = "slot"
            /\ ish'.korildi = ish.korildi /\ ish'.reja = ish.reja
  PROVE  Tipli' /\ UrinishTogri' /\ RejaTogri' /\ VaqtTogri' /\ SorovSoni'
<1>1. Tipli'  BY DEF RadarInv, Tipli, OrniSaqlandi
<1>2. UrinishTogri'  BY DEF RadarInv, UrinishTogri
<1>3. \A r : Qatorlar(r)' = Qatorlar(r)  BY DEF Qatorlar, Slotda, OrniSaqlandi
<1>4. RejaTogri'  BY <1>3 DEF RadarInv, RejaTogri
<1>5. VaqtTogri'
  <2>. SUFFICES ASSUME NEW i \in DOMAIN sessiyalar, sessiyalar'[i].turi \in RASMIY_TURLAR
                PROVE  /\ Karrali(sessiyalar'[i]) /\ sessiya_vaqti(sessiyalar'[i]) <= soat'
                       /\ ish'.pc \in {"slot", "sessiya"} =>
                            sessiya_vaqti(sessiyalar'[i]) <= ish'.korildi
    BY DEF VaqtTogri, Karrali, sessiya_vaqti, OrniSaqlandi
  <2>1. sessiyalar'[i].turi = sessiyalar[i].turi /\ sessiyalar'[i].sham = sessiyalar[i].sham
    BY DEF OrniSaqlandi
  <2>2. /\ Karrali(sessiyalar'[i]) <=> Karrali(sessiyalar[i])
        /\ sessiya_vaqti(sessiyalar'[i]) = sessiya_vaqti(sessiyalar[i])
    BY <2>1 DEF Karrali, sessiya_vaqti
  <2>. QED  BY <2>1, <2>2 DEF RadarInv, VaqtTogri
<1>6. SorovSoni'
  <2>1. Qoldalar' = Qoldalar  BY DEF Qoldalar, OrniSaqlandi
  <2>. QED  BY <2>1 DEF RadarInv, SorovSoni, Bayroq
<1>. QED  BY <1>1, <1>2, <1>4, <1>5, <1>6

\* A row that is not closed yet is closed as failed.
LEMMA YopilishL ==
  ASSUME sessiyalar \in Seq(QatorTuri), NEW i \in DOMAIN sessiyalar,
         NEW q, q = [sessiyalar[i] EXCEPT !.holat = XATO], sessiyalar[i].holat = YURMOQDA
  PROVE  /\ q \in QatorTuri /\ q.turi = sessiyalar[i].turi /\ q.sham = sessiyalar[i].sham
         /\ q.boshlandi = sessiyalar[i].boshlandi /\ q.natija = sessiyalar[i].natija
         /\ q.holat = XATO
<1>1. sessiyalar[i] \in QatorTuri  OBVIOUS
<1>. QED  BY <1>1 DEF QatorTuri

\* yur, before the loop: what a dead life left open is closed.
LEMMA BoshlanishL ==
  ASSUME RadarInv, Boshlanadi
  PROVE  RadarInv'
<1>1. /\ ish.pc = "boshlash" /\ sessiyalar' = yurmoqda_qolganlarni_yop
      /\ ish' = [ish EXCEPT !.pc = "uyqu"]
      /\ UNCHANGED <<soat, sorov, hajm, delist, bosildi, uzilish, xato, yozilmagan, urinish>>
  BY DEF Boshlanadi, tarix
<1>2. sessiyalar \in Seq(QatorTuri)  BY DEF RadarInv, Tipli
<1>3. \A i \in DOMAIN sessiyalar :
        /\ sessiyalar'[i] \in QatorTuri /\ sessiyalar'[i].turi = sessiyalar[i].turi
        /\ sessiyalar'[i].sham = sessiyalar[i].sham
        /\ sessiyalar'[i].boshlandi = sessiyalar[i].boshlandi
        /\ sessiyalar'[i].natija = sessiyalar[i].natija
        /\ sessiyalar'[i].holat # YURMOQDA
        /\ sessiyalar'[i].holat = TUGADI <=> sessiyalar[i].holat = TUGADI
  <2>. TAKE i \in DOMAIN sessiyalar
  <2>1. CASE sessiyalar[i].holat = YURMOQDA
    <3>1. sessiyalar'[i] = [sessiyalar[i] EXCEPT !.holat = XATO]
      BY <1>1, <2>1 DEF yurmoqda_qolganlarni_yop, Ochiq
    <3>. QED  BY <1>2, <2>1, <3>1, YopilishL DEF XATO, YURMOQDA, TUGADI
  <2>2. CASE sessiyalar[i].holat # YURMOQDA
    <3>1. sessiyalar'[i] = sessiyalar[i]
      BY <1>1, <2>2 DEF yurmoqda_qolganlarni_yop, Ochiq
    <3>. QED  BY <1>2, <2>2, <3>1
  <2>. QED  BY <2>1, <2>2
<1>4. DOMAIN sessiyalar' = DOMAIN sessiyalar  BY <1>1 DEF yurmoqda_qolganlarni_yop
<1>5. sessiyalar' \in Seq(QatorTuri)
  <2>1. sessiyalar' = [i \in 1..Len(sessiyalar) |-> sessiyalar'[i]]
    BY <1>1, <1>2 DEF yurmoqda_qolganlarni_yop
  <2>2. Len(sessiyalar) \in Nat /\ DOMAIN sessiyalar = 1..Len(sessiyalar)  BY <1>2
  <2>3. sessiyalar' \in [1..Len(sessiyalar) -> QatorTuri]  BY <1>3, <2>1, <2>2
  <2>. QED  BY <2>2, <2>3
<1>6. OrniSaqlandi /\ Saqlandi  BY <1>3, <1>4 DEF OrniSaqlandi, Saqlandi
<1>7. /\ ish' \in IshTuri /\ ish'.joriy = ish.joriy /\ ish'.hajmUrinish = ish.hajmUrinish
      /\ ish'.pc = "uyqu"
  BY TurlarL, <1>1 DEF IshTuri
<1>8. ish'.sorov = ish.sorov  BY TurlarL, <1>1 DEF IshTuri
<1>9. Tipli' /\ UrinishTogri' /\ RejaTogri' /\ VaqtTogri' /\ SorovSoni'
  BY <1>1, <1>5, <1>6, <1>7, <1>8, YozuvL
<1>10. Qatorli'  BY <1>6, SaqlandiL DEF RadarInv
<1>11. JoriyTogri'
  <2>1. JoriyTogri  BY DEF RadarInv
  <2>2. ish'.pc # "sessiya" /\ ish'.joriy = 0  BY <1>1, <1>7, <2>1 DEF JoriyTogri
  <2>3. Natijasiz' = Natijasiz  BY DEF Natijasiz
  <2>4. \A i \in DOMAIN sessiyalar' :
           sessiyalar'[i].holat # TUGADI => sessiyalar'[i].natija = Natijasiz'
    BY <1>3, <1>4, <2>1, <2>3 DEF JoriyTogri
  <2>. QED  BY <2>2, <2>4 DEF JoriyTogri
<1>12. YurmoqdaRost'  BY <1>3, <1>4 DEF YurmoqdaRost
<1>13. BahoBoshRost'  BY <1>1, <1>3, <1>4 DEF RadarInv, BahoBoshRost
<1>. QED  BY <1>9, <1>10, <1>11, <1>12, <1>13 DEF RadarInv

\* The session ends, one way or the other.
LEMMA SessiyaL ==
  ASSUME RadarInv, SessiyaTugaydi \/ SessiyaYiqiladi
  PROVE  RadarInv'
<1>. DEFINE j == ish.joriy
<1>1. /\ ish.pc = "sessiya" /\ ish' = [ish EXCEPT !.pc = "slot", !.joriy = 0]
      /\ UNCHANGED <<soat, sorov, hajm, delist, bosildi, uzilish, xato, yozilmagan, urinish>>
  BY DEF SessiyaTugaydi, SessiyaYiqiladi, tarix
<1>2. sessiyalar \in Seq(QatorTuri) /\ Qatorli  BY DEF RadarInv, Tipli
<1>3. j = Len(sessiyalar) /\ j # 0 /\ sessiyalar[j].holat = YURMOQDA /\ j \in DOMAIN sessiyalar
  <2>1. j = Len(sessiyalar) /\ j # 0 /\ sessiyalar[j].holat = YURMOQDA
    BY <1>1 DEF RadarInv, JoriyTogri
  <2>. QED  BY <1>2, <2>1
<1>4. /\ ish' \in IshTuri /\ ish'.hajmUrinish = ish.hajmUrinish /\ ish'.pc = "slot"
      /\ ish'.joriy = 0 /\ ish'.reja = ish.reja /\ ish'.korildi = ish.korildi
  BY TurlarL, <1>1 DEF IshTuri
<1>5. ish'.sorov = ish.sorov  BY TurlarL, <1>1 DEF IshTuri
<1>6. /\ Qatorli' /\ DOMAIN sessiyalar' = DOMAIN sessiyalar
      /\ \A i \in DOMAIN sessiyalar : i # j => sessiyalar'[i] = sessiyalar[i]
      /\ sessiyalar'[j] \in QatorTuri /\ sessiyalar'[j].turi = sessiyalar[j].turi
      /\ sessiyalar'[j].sham = sessiyalar[j].sham
      /\ sessiyalar'[j].boshlandi = sessiyalar[j].boshlandi
      /\ sessiyalar'[j].holat # YURMOQDA
      /\ sessiyalar'[j].holat # TUGADI => sessiyalar'[j].natija = Natijasiz
      /\ \A c \in Coinlar : sessiyalar'[j].natija[c].baho # "bosh"
  <2>0. sessiyalar[j] \in QatorTuri  BY <1>2, <1>3
  <2>1. CASE SessiyaTugaydi
    <3>. DEFINE r == Rejadagi(sessiyalar[j].turi, sessiyalar[j].sham)
    <3>1. PICK b \in Bozor(r) :
            sessiyalar' = [sessiyalar EXCEPT ![j].natija = Natija(r, b), ![j].holat = TUGADI]
      BY <2>1 DEF SessiyaTugaydi
    <3>2. Qatorli' /\ Natija(r, b) \in [Coinlar -> NatijaTuri]  BY <1>2, <1>3, <3>1, TugadiL
    <3>3. \A c \in Coinlar : Natija(r, b)[c].baho = "yoq"
      <4>. TAKE c \in Coinlar
      <4>1. r.turi \in RASMIY_TURLAR \cup {QOLDA}  BY <2>0 DEF QatorTuri, Rejadagi
      <4>2. CASE r.turi \in RASMIY_TURLAR  BY <1>2, <4>2, NatijaL DEF Qatorli
      <4>3. CASE r.turi = QOLDA  BY <4>3 DEF Natija, Natijasiz
      <4>. QED  BY <4>1, <4>2, <4>3
    <3>. DEFINE N == Natija(r, b)
    <3>. HIDE DEF N
    <3>4. sessiyalar'[j] = [sessiyalar[j] EXCEPT !.natija = N, !.holat = TUGADI]
      BY <1>2, <1>3, <3>1 DEF N
    <3>5. N \in [Coinlar -> NatijaTuri]  BY <3>2 DEF N
    <3>6. /\ sessiyalar'[j] \in QatorTuri /\ sessiyalar'[j].turi = sessiyalar[j].turi
          /\ sessiyalar'[j].sham = sessiyalar[j].sham
          /\ sessiyalar'[j].boshlandi = sessiyalar[j].boshlandi
          /\ sessiyalar'[j].holat = TUGADI /\ sessiyalar'[j].natija = N
      BY <2>0, <3>4, <3>5 DEF QatorTuri
    <3>7. /\ DOMAIN sessiyalar' = DOMAIN sessiyalar
          /\ \A i \in DOMAIN sessiyalar : i # j => sessiyalar'[i] = sessiyalar[i]
      BY <3>1
    <3>8. \A c \in Coinlar : N[c].baho # "bosh"  BY <3>3 DEF N
    <3>. QED  BY <3>2, <3>6, <3>7, <3>8 DEF TUGADI, YURMOQDA
  <2>2. CASE SessiyaYiqiladi
    <3>1. sessiyalar' = [sessiyalar EXCEPT ![j].holat = XATO]  BY <2>2 DEF SessiyaYiqiladi, Yopilgan
    <3>2. sessiyalar'[j] = [sessiyalar[j] EXCEPT !.holat = XATO]  BY <1>3, <3>1
    <3>3. /\ sessiyalar'[j] \in QatorTuri /\ sessiyalar'[j].turi = sessiyalar[j].turi
          /\ sessiyalar'[j].sham = sessiyalar[j].sham
          /\ sessiyalar'[j].boshlandi = sessiyalar[j].boshlandi
          /\ sessiyalar'[j].natija = sessiyalar[j].natija /\ sessiyalar'[j].holat = XATO
      BY <1>2, <1>3, <3>2, YopilishL
    <3>4. /\ DOMAIN sessiyalar' = DOMAIN sessiyalar
          /\ \A i \in DOMAIN sessiyalar : i # j => sessiyalar'[i] = sessiyalar[i]
      BY <3>1
    <3>5. sessiyalar[j].natija = Natijasiz
      BY <1>3 DEF RadarInv, JoriyTogri, YURMOQDA, TUGADI
    <3>6. \A c \in Coinlar : Natijasiz[c].baho # "bosh"  BY DEF Natijasiz
    <3>7. Saqlandi
      BY <1>3, <3>3, <3>4 DEF Saqlandi, XATO, YURMOQDA, TUGADI
    <3>8. Qatorli'  BY <1>2, <3>7, SaqlandiL
    <3>. QED  BY <3>3, <3>4, <3>5, <3>6, <3>8 DEF XATO, YURMOQDA
  <2>. QED  BY <2>1, <2>2
<1>7. OrniSaqlandi  BY <1>3, <1>6 DEF OrniSaqlandi
<1>8. sessiyalar' \in Seq(QatorTuri)
  <2>1. sessiyalar' = [sessiyalar EXCEPT ![j] = sessiyalar'[j]]
    BY <1>2, <1>3 DEF SessiyaTugaydi, SessiyaYiqiladi, Yopilgan
  <2>. QED  BY <1>2, <1>3, <1>6, <2>1
<1>9. Tipli' /\ UrinishTogri' /\ RejaTogri' /\ VaqtTogri' /\ SorovSoni'
  BY <1>1, <1>4, <1>5, <1>7, <1>8, YozuvL
<1>10. JoriyTogri'
  <2>1. \A i \in DOMAIN sessiyalar :
          sessiyalar'[i].holat # TUGADI => sessiyalar'[i].natija = Natijasiz
    <3>. TAKE i \in DOMAIN sessiyalar
    <3>1. CASE i = j  BY <1>6, <3>1
    <3>2. CASE i # j
      <4>1. sessiyalar'[i] = sessiyalar[i]  BY <1>6, <3>2
      <4>2. sessiyalar[i].holat # TUGADI => sessiyalar[i].natija = Natijasiz
        BY DEF RadarInv, JoriyTogri
      <4>. QED  BY <4>1, <4>2
    <3>. QED  BY <3>1, <3>2
  <2>. QED  BY <1>4, <1>6, <2>1 DEF JoriyTogri, Natijasiz
<1>11. YurmoqdaRost'
  BY <1>1, <1>3, <1>4, <1>6 DEF RadarInv, YurmoqdaRost
<1>12. BahoBoshRost'  BY <1>1, <1>3, <1>6 DEF RadarInv, BahoBoshRost
<1>. QED  BY <1>6, <1>9, <1>10, <1>11, <1>12 DEF RadarInv

\* Grading: results of finished B sessions get their grade.
LEMMA BahoL ==
  ASSUME RadarInv, Baholanadi
  PROVE  RadarInv'
<1>1. /\ ish.pc = "baho" /\ ish' = [ish EXCEPT !.pc = "uxladi", !.bahoVaqti = soat]
      /\ UNCHANGED <<soat, sorov, hajm, delist, bosildi, uzilish, xato, yozilmagan, urinish>>
  BY DEF Baholanadi, tarix
<1>0. PICK N \in Navbatlar : \E j \in [N -> {"yiqildi", "bosh", "shamlar"}] :
        /\ \A x \in N : j[x] \in Javoblar(x[2])
        /\ sessiyalar' = [i \in DOMAIN sessiyalar |->
              [sessiyalar[i] EXCEPT !.natija = Baholangan(i, N, j)]]
  BY DEF Baholanadi
<1>2. PICK j \in [N -> {"yiqildi", "bosh", "shamlar"}] :
        /\ \A x \in N : j[x] \in Javoblar(x[2])
        /\ sessiyalar' = [i \in DOMAIN sessiyalar |->
              [sessiyalar[i] EXCEPT !.natija = Baholangan(i, N, j)]]
  BY <1>0
<1>3. N \in SUBSET Yetilgan  BY DEF Navbatlar
<1>4. sessiyalar \in Seq(QatorTuri)  BY DEF RadarInv, Tipli
<1>5. \A i \in DOMAIN sessiyalar :
        /\ sessiyalar'[i] \in QatorTuri /\ sessiyalar'[i].turi = sessiyalar[i].turi
        /\ sessiyalar'[i].sham = sessiyalar[i].sham /\ sessiyalar'[i].holat = sessiyalar[i].holat
        /\ sessiyalar'[i].boshlandi = sessiyalar[i].boshlandi
        /\ sessiyalar[i].holat # TUGADI => sessiyalar'[i].natija = sessiyalar[i].natija
        /\ \A c \in Coinlar :
              LET y == sessiyalar'[i].natija[c]
                  x == sessiyalar[i].natija[c]
              IN /\ y.qator = x.qator /\ y.nomzod = x.nomzod /\ y.holat = x.holat
                 /\ y.ketma = x.ketma /\ y.orinli = x.orinli
                 /\ y.baho = "bosh" => x.baho = "bosh" \/ (<<i, c>> \in N /\ j[<<i, c>>] = "bosh")
  <2>. TAKE i \in DOMAIN sessiyalar
  <2>1. sessiyalar'[i] = [sessiyalar[i] EXCEPT !.natija = Baholangan(i, N, j)]  BY <1>2
  <2>2. PICK q : q = sessiyalar'[i]  OBVIOUS
  <2>3. q = [sessiyalar[i] EXCEPT !.natija = Baholangan(i, N, j)]  BY <2>1, <2>2
  <2>4. BahoSaqladi(q, i, N, j)
    BY <1>2, <1>3, <1>4, <2>3, BaholanganL
  <2>. QED  BY <2>2, <2>4 DEF BahoSaqladi
<1>6. DOMAIN sessiyalar' = DOMAIN sessiyalar  BY <1>2
<1>7. sessiyalar' \in Seq(QatorTuri)
  <2>1. Len(sessiyalar) \in Nat /\ DOMAIN sessiyalar = 1..Len(sessiyalar)  BY <1>4
  <2>2. sessiyalar' = [i \in 1..Len(sessiyalar) |-> sessiyalar'[i]]  BY <1>2, <2>1
  <2>3. sessiyalar' \in [1..Len(sessiyalar) -> QatorTuri]  BY <1>5, <2>1, <2>2
  <2>. QED  BY <2>1, <2>3
<1>8. OrniSaqlandi /\ Saqlandi
  <2>1. OrniSaqlandi  BY <1>5, <1>6 DEF OrniSaqlandi
  <2>2. Saqlandi
    <3>. SUFFICES ASSUME NEW i \in DOMAIN sessiyalar, NEW c \in Coinlar
                  PROVE  LET y == sessiyalar'[i].natija[c]
                             x == sessiyalar[i].natija[c]
                         IN /\ y.qator = x.qator /\ y.nomzod = x.nomzod /\ y.holat = x.holat
                            /\ y.ketma = x.ketma /\ y.orinli = x.orinli
      <4>1. \A i \in DOMAIN sessiyalar :
              /\ sessiyalar'[i].turi = sessiyalar[i].turi /\ sessiyalar'[i].sham = sessiyalar[i].sham
              /\ sessiyalar'[i].holat = TUGADI <=> sessiyalar[i].holat = TUGADI
        BY <1>5
      <4>. QED  BY <1>6, <4>1, Zenon DEF Saqlandi
    <3>. QED  BY <1>5
  <2>. QED  BY <2>1, <2>2
<1>9. /\ ish' \in IshTuri /\ ish'.joriy = ish.joriy /\ ish'.hajmUrinish = ish.hajmUrinish
      /\ ish'.pc = "uxladi"
  BY TurlarL, <1>1 DEF IshTuri
<1>10. ish'.sorov = ish.sorov  BY TurlarL, <1>1 DEF IshTuri
<1>11. Tipli' /\ UrinishTogri' /\ RejaTogri' /\ VaqtTogri' /\ SorovSoni'
  BY <1>1, <1>7, <1>8, <1>9, <1>10, YozuvL
<1>12. Qatorli'  BY <1>8, SaqlandiL DEF RadarInv
<1>13. JoriyTogri'
  <2>1. \A i \in DOMAIN sessiyalar :
          sessiyalar'[i].holat # TUGADI => sessiyalar'[i].natija = Natijasiz
    BY <1>5 DEF RadarInv, JoriyTogri
  <2>. QED  BY TurlarL, <1>1, <1>6, <1>9, <2>1 DEF JoriyTogri, Natijasiz
<1>14. YurmoqdaRost'  BY <1>1, <1>5, <1>6, <1>9 DEF RadarInv, YurmoqdaRost
<1>15. BahoBoshRost'
  <2>. SUFFICES ASSUME NEW i \in DOMAIN sessiyalar, NEW c \in Coinlar,
                       sessiyalar'[i].natija[c].baho = "bosh"
                PROVE  c \in delist'
    BY <1>6 DEF BahoBoshRost
  <2>1. CASE sessiyalar[i].natija[c].baho = "bosh"
    BY <1>1, <2>1 DEF RadarInv, BahoBoshRost
  <2>2. CASE <<i, c>> \in N /\ j[<<i, c>>] = "bosh"
    <3>1. "bosh" \in Javoblar(c)  BY <1>2, <2>2
    <3>. QED  BY <1>1, <3>1 DEF Javoblar
  <2>. QED  BY <1>5, <2>1, <2>2
<1>. QED  BY <1>11, <1>12, <1>13, <1>14, <1>15 DEF RadarInv
-----------------------------------------------------------------------------
\* A session begins: its row is appended

\* The candle of a due slot without a row is later than those of all rows of its
\* kind.
LEMMA KeyinL ==
  ASSUME RadarInv, ish.pc = "slot", NEW r \in Slot, Karrali(r), Oynada(r, ish.korildi),
         ~rasmiy_bormi(r), NEW i \in DOMAIN sessiyalar, sessiyalar[i].turi = r.turi
  PROVE  sessiyalar[i].sham < r.sham
<1>. DEFINE s == sessiyalar[i]
            D == ShamDavri
<1>1. s \in QatorTuri /\ ish.korildi \in Int
  <2>1. sessiyalar \in Seq(QatorTuri)  BY DEF RadarInv, Tipli
  <2>2. sessiyalar[i] \in QatorTuri  BY <2>1
  <2>. QED  BY <2>2, TurlarL DEF IshTuri
<1>2. s.sham \in Int /\ r.sham \in Int /\ r.turi \in {KASHFIYOT, TASDIQ}
  BY <1>1 DEF QatorTuri, Slot, RASMIY_TURLAR
<1>3. Karrali(s) /\ sessiya_vaqti(s) <= ish.korildi
  BY <1>2 DEF RadarInv, VaqtTogri, RASMIY_TURLAR
<1>4. PICK m \in Int : s.sham = D * m  BY <1>3 DEF Karrali
<1>5. PICK n \in Int : r.sham = D * n  BY DEF Karrali
<1>6. s.sham # r.sham  BY DEF rasmiy_bormi, Slotda
<1>. DEFINE K == IF r.turi = KASHFIYOT THEN KashfiyotOldin ELSE TasdiqOldin
            L == IF r.turi = KASHFIYOT THEN KashfiyotKechikish ELSE TasdiqKechikish
<1>7. K \in Nat /\ L \in Nat /\ L < D  BY VaqtFarazi
<1>8. sessiya_vaqti(s) = s.sham - K /\ oxirgi_muddat(r) = r.sham - K + L
  BY DEF sessiya_vaqti, oxirgi_muddat
<1>9. ish.korildi <= oxirgi_muddat(r)  BY DEF Oynada
<1>. HIDE DEF K, L, s
<1>10. s.sham < r.sham + D
  <2>1. PICK x \in Int : x = s.sham  BY <1>2
  <2>2. PICK y \in Int : y = r.sham  BY <1>2
  <2>3. PICK z \in Int : z = ish.korildi  BY <1>1
  <2>4. x - K <= z /\ z <= y - K + L  BY <1>3, <1>8, <1>9, <2>1, <2>2, <2>3
  <2>5. D \in Nat  BY VaqtFarazi
  <2>6. x < y + D  BY <2>4, <2>5, <1>7
  <2>. QED  BY <2>1, <2>2, <2>6
<1>11. m <= n  BY <1>4, <1>5, <1>10, VaqtFarazi, KarraliL
<1>12. PICK e \in Nat : e = n - m  BY <1>11
<1>13. D * n = D * m + D * e /\ D * e >= 0 /\ D * e \in Int /\ D * m \in Int
  <2>1. n = m + e /\ D \in Nat  BY <1>12, VaqtFarazi
  <2>. QED  BY <2>1
<1>. QED  BY <1>2, <1>4, <1>5, <1>6, <1>13 DEF s

\* One more request has become a session: the rows and the flag balance.
LEMMA QoldaSoniL ==
  ASSUME RadarInv, NEW r, r.turi \in RASMIY_TURLAR \cup {QOLDA}, r.sham \in Int,
         sessiyalar' = Append(sessiyalar, YangiSessiya(r)),
         sorov' = sorov, bosildi' = bosildi,
         r.turi # QOLDA => ish'.sorov = ish.sorov,
         r.turi = QOLDA => ish.sorov /\ ~ish'.sorov
  PROVE  SorovSoni'
<1>. DEFINE n == Len(sessiyalar)
<1>1. sessiyalar \in Seq(QatorTuri)  BY DEF RadarInv, Tipli
<1>2. /\ n \in Nat /\ DOMAIN sessiyalar = 1..n /\ DOMAIN sessiyalar' = 1..(n + 1)
      /\ \A i \in 1..n : sessiyalar'[i] = sessiyalar[i]
      /\ sessiyalar'[n + 1] = YangiSessiya(r)
  BY <1>1
<1>3. sessiyalar'[n + 1].turi = r.turi  BY <1>2 DEF YangiSessiya
<1>4. \A b : Bayroq(b) \in {0, 1}  BY DEF Bayroq
<1>5. /\ IsFiniteSet(Qoldalar) /\ Cardinality(Qoldalar) \in Int
      /\ Cardinality(Qoldalar) + Bayroq(sorov) + Bayroq(ish.sorov) <= bosildi
  BY FS_CardinalityType DEF RadarInv, SorovSoni
<1>6. bosildi \in Int  BY TurlarL
<1>. HIDE DEF n
<1>7. CASE r.turi # QOLDA
  <2>1. Qoldalar' = Qoldalar  BY <1>2, <1>3, <1>7 DEF Qoldalar
  <2>2. ish'.sorov = ish.sorov  BY <1>7
  <2>. QED  BY <1>5, <2>1, <2>2 DEF SorovSoni, Bayroq
<1>8. CASE r.turi = QOLDA
  <2>1. Qoldalar' = Qoldalar \cup {n + 1} /\ n + 1 \notin Qoldalar
    BY <1>2, <1>3, <1>8 DEF Qoldalar
  <2>2. /\ IsFiniteSet(Qoldalar \cup {n + 1})
        /\ Cardinality(Qoldalar \cup {n + 1}) = Cardinality(Qoldalar) + 1
    BY <1>5, <2>1, FS_AddElement
  <2>3. Bayroq(ish.sorov) = 1 /\ Bayroq(ish'.sorov) = 0  BY <1>8 DEF Bayroq
  <2>4. Cardinality(Qoldalar \cup {n + 1}) + Bayroq(sorov) + Bayroq(ish'.sorov) <= bosildi
    BY <1>4, <1>5, <1>6, <2>2, <2>3
  <2>5. Bayroq(sorov)' = Bayroq(sorov) /\ Bayroq(ish.sorov)' = Bayroq(ish'.sorov)
    BY DEF Bayroq
  <2>6. IsFiniteSet(Qoldalar)'  BY <2>1, <2>2
  <2>7. Cardinality(Qoldalar)' = Cardinality(Qoldalar \cup {n + 1})  BY <2>1
  <2>. QED  BY <2>4, <2>5, <2>6, <2>7 DEF SorovSoni
<1>. QED  BY <1>7, <1>8

\* What appending the row of slot r does to the rest.
LEMMA QatorL ==
  ASSUME RadarInv, NEW r, r.turi \in RASMIY_TURLAR \cup {QOLDA}, r.sham \in Int,
         sessiyalar' = Append(sessiyalar, YangiSessiya(r)),
         UNCHANGED <<soat, sorov, hajm, delist, bosildi, uzilish, xato, yozilmagan, urinish>>,
         ish.pc = "slot", ish' \in IshTuri, ish'.pc = "sessiya",
         ish'.joriy = Len(sessiyalar) + 1, ish'.hajmUrinish = ish.hajmUrinish,
         ish'.korildi = ish.korildi,
         r.turi # QOLDA =>
            /\ r \in Slot /\ ~rasmiy_bormi(r) /\ ish'.sorov = ish.sorov
            /\ ish.reja # <<>> /\ r = Head(ish.reja) /\ ish'.reja = Tail(ish.reja),
         r.turi = QOLDA => ish.sorov /\ ~ish'.sorov /\ ish.reja = <<>> /\ ish'.reja = <<>>
  PROVE  RadarInv'
<1>. DEFINE n == Len(sessiyalar)
            q == ish.reja
<1>1. /\ sessiyalar \in Seq(QatorTuri) /\ Qatorli /\ ish \in IshTuri /\ soat \in 0..MaxSoat
      /\ soat \in Int
  BY TurlarL DEF RadarInv, Tipli
<1>2. /\ n \in Nat /\ DOMAIN sessiyalar = 1..n /\ DOMAIN sessiyalar' = 1..(n + 1)
      /\ \A i \in 1..n : sessiyalar'[i] = sessiyalar[i]
      /\ sessiyalar'[n + 1] = YangiSessiya(r) /\ Len(sessiyalar') = n + 1
  BY <1>1
<1>3. \A i \in 1..(n + 1) : i \in 1..n \/ i = n + 1  BY <1>2
<1>4. /\ YangiSessiya(r) \in QatorTuri /\ YangiSessiya(r).boshlandi \in {Yoq} \cup 0..soat
      /\ YangiSessiya(r).turi = r.turi /\ YangiSessiya(r).sham = r.sham
      /\ YangiSessiya(r).holat = YURMOQDA /\ YangiSessiya(r).natija = Natijasiz
  BY <1>1, YangiL
<1>5. /\ q \in Seq(Slot)
      /\ r.turi # QOLDA => /\ Len(q) \in Nat /\ Len(q) > 0 /\ DOMAIN q = 1..Len(q) /\ r = q[1]
                           /\ DOMAIN Tail(q) = 1..(Len(q) - 1)
                           /\ \A k \in 1..(Len(q) - 1) : Tail(q)[k] = q[k + 1]
  BY <1>1 DEF IshTuri
<1>6. \A k \in DOMAIN q : Karrali(q[k]) /\ Oynada(q[k], ish.korildi)
  BY DEF RadarInv, RejaTogri
<1>7. r.turi # QOLDA => Karrali(r) /\ Oynada(r, ish.korildi)  BY <1>5, <1>6
<1>8. r.turi \in RASMIY_TURLAR => r.turi # QOLDA
  BY DEF RASMIY_TURLAR, KASHFIYOT, TASDIQ, QOLDA
<1>9. r.turi \in RASMIY_TURLAR =>
         \A i \in DOMAIN sessiyalar : sessiyalar[i].turi = r.turi => sessiyalar[i].sham < r.sham
  BY <1>7, <1>8, KeyinL
<1>10. Qatorli'  BY <1>1, <1>9, QoshildiL
<1>11. SorovSoni'  BY QoldaSoniL
<1>12. Tipli'
  <2>1. sessiyalar' \in Seq(QatorTuri)  BY <1>1, <1>4
  <2>2. \A i \in DOMAIN sessiyalar' : sessiyalar'[i].boshlandi \in {Yoq} \cup 0..soat
    BY <1>2, <1>3, <1>4 DEF RadarInv, Tipli
  <2>3. yozilmagan \subseteq DOMAIN sessiyalar'
    BY <1>2 DEF RadarInv, Tipli
  <2>. QED  BY <2>1, <2>2, <2>3 DEF RadarInv, Tipli
<1>13. UrinishTogri'  BY DEF RadarInv, UrinishTogri
<1>14. JoriyTogri'
  <2>1. \A i \in DOMAIN sessiyalar' :
          sessiyalar'[i].holat # TUGADI => sessiyalar'[i].natija = Natijasiz
    BY <1>2, <1>3, <1>4 DEF RadarInv, JoriyTogri
  <2>2. sessiyalar'[ish'.joriy].holat = YURMOQDA /\ ish'.joriy = Len(sessiyalar') /\ ish'.joriy # 0
    BY <1>2, <1>4
  <2>. QED  BY <2>1, <2>2 DEF JoriyTogri, Natijasiz
<1>15. YurmoqdaRost'
  <2>1. ish.joriy = 0  BY DEF RadarInv, JoriyTogri
  <2>2. \A i \in 1..n : sessiyalar[i].holat = YURMOQDA => i \in yozilmagan
    BY <1>2, <2>1 DEF RadarInv, YurmoqdaRost
  <2>. QED  BY <1>2, <1>3, <2>2 DEF YurmoqdaRost
<1>16. BahoBoshRost'
  <2>1. \A c \in Coinlar : Natijasiz[c].baho # "bosh"  BY DEF Natijasiz
  <2>. QED  BY <1>2, <1>3, <1>4, <2>1 DEF RadarInv, BahoBoshRost
<1>17. ish.korildi \in Int /\ ish.korildi <= soat  BY <1>1 DEF IshTuri, RadarInv, RejaTogri
<1>18. VaqtTogri'
  <2>. SUFFICES ASSUME NEW i \in 1..(n + 1), NEW s, s = sessiyalar'[i], s.turi \in RASMIY_TURLAR
                PROVE  Karrali(s) /\ sessiya_vaqti(s) <= soat /\ sessiya_vaqti(s) <= ish.korildi
    BY <1>2 DEF VaqtTogri, Karrali, sessiya_vaqti
  <2>1. CASE i \in 1..n
    BY <1>2, <2>1 DEF RadarInv, VaqtTogri
  <2>2. CASE i = n + 1
    <3>1. s.turi = r.turi /\ s.sham = r.sham  BY <1>2, <1>4, <2>2
    <3>2. Karrali(r) /\ Oynada(r, ish.korildi)  BY <1>7, <1>8, <3>1
    <3>3. Karrali(s)  BY <3>1, <3>2 DEF Karrali
    <3>4. sessiya_vaqti(s) = sessiya_vaqti(r)  BY <3>1 DEF sessiya_vaqti
    <3>5. sessiya_vaqti(r) <= ish.korildi  BY <3>2 DEF Oynada
    <3>6. sessiya_vaqti(r) \in Int  BY VaqtFarazi DEF sessiya_vaqti
    <3>. QED  BY <1>1, <1>17, <3>3, <3>4, <3>5, <3>6
  <2>. QED  BY <1>3, <2>1, <2>2
<1>19. RejaTogri'
  <2>1. \A x : Qatorlar(x) # {} => Qatorlar(x)' # {}
    BY <1>2 DEF Qatorlar, Slotda
  <2>2. Qatorlar(r)' # {}
    BY <1>2, <1>4 DEF Qatorlar, Slotda
  <2>. DEFINE w == ish'.reja
  <2>0. r.turi # QOLDA => \E l \in Nat : /\ DOMAIN q = 1..l /\ DOMAIN w = 1..(l - 1) /\ r = q[1]
                                         /\ \A k \in 1..(l - 1) : w[k] = q[k + 1]
    <3>. SUFFICES ASSUME r.turi # QOLDA
                  PROVE  /\ Len(q) \in Nat /\ DOMAIN q = 1..Len(q)
                         /\ DOMAIN w = 1..(Len(q) - 1) /\ r = q[1]
                         /\ \A k \in 1..(Len(q) - 1) : w[k] = q[k + 1]
      OBVIOUS
    <3>1. w = Tail(q)  OBVIOUS
    <3>. HIDE DEF w, q
    <3>. QED  BY <1>5, <3>1
  <2>01. r.turi = QOLDA => w = q  OBVIOUS
  <2>. HIDE DEF w, q
  <2>3. \A k \in DOMAIN w : \E m \in DOMAIN q : w[k] = q[m]
    <3>1. CASE r.turi # QOLDA
      <4>1. PICK l \in Nat : /\ DOMAIN q = 1..l /\ DOMAIN w = 1..(l - 1)
                             /\ \A k \in 1..(l - 1) : w[k] = q[k + 1]
        BY <2>0, <3>1
      <4>2. \A k \in DOMAIN w : k + 1 \in DOMAIN q  BY <4>1
      <4>. QED  BY <4>1, <4>2
    <3>2. CASE r.turi = QOLDA
      BY <2>01, <3>2
    <3>. QED  BY <3>1, <3>2
  <2>4. \A m \in DOMAIN q : q[m] = r \/ \E k \in DOMAIN w : w[k] = q[m]
    <3>1. CASE r.turi # QOLDA
      <4>1. PICK l \in Nat : /\ DOMAIN q = 1..l /\ DOMAIN w = 1..(l - 1) /\ r = q[1]
                             /\ \A k \in 1..(l - 1) : w[k] = q[k + 1]
        BY <2>0, <3>1
      <4>. TAKE m \in DOMAIN q
      <4>2. CASE m = 1  BY <4>1, <4>2
      <4>3. CASE m # 1
        <5>1. m - 1 \in DOMAIN w /\ w[m - 1] = q[m]  BY <4>1, <4>3
        <5>. QED  BY <5>1
      <4>. QED  BY <4>2, <4>3
    <3>2. CASE r.turi = QOLDA
      BY <2>01, <3>2
    <3>. QED  BY <3>1, <3>2
  <2>5. \A x \in Slot : Karrali(x) /\ Oynada(x, ish.korildi) =>
          Qatorlar(x)' # {} \/ \E k \in DOMAIN w : w[k] = x
    <3>. SUFFICES ASSUME NEW x \in Slot, Karrali(x), Oynada(x, ish.korildi), Qatorlar(x) = {}
                  PROVE  Qatorlar(x)' # {} \/ \E k \in DOMAIN w : w[k] = x
      BY <2>1
    <3>1. PICK m \in DOMAIN q : q[m] = x  BY DEF RadarInv, RejaTogri, q
    <3>. QED  BY <2>2, <2>4, <3>1
  <2>6. \A k \in DOMAIN w : Karrali(w[k]) /\ Oynada(w[k], ish.korildi)
    BY <1>6, <2>3
  <2>7. ish'.korildi <= soat'  BY <1>17
  <2>. QED  BY <2>5, <2>6, <2>7 DEF RejaTogri, w
<1>. QED  BY <1>10, <1>11, <1>12, <1>13, <1>14, <1>15, <1>16, <1>18, <1>19 DEF RadarInv

\* The official session of the list, and the one the admin asked for.
LEMMA YangiSessiyaL ==
  ASSUME RadarInv, SessiyaBoshlanadi \/ QoldaBoshlanadi
  PROVE  RadarInv'
<1>1. /\ ish.pc = "slot" /\ ish \in IshTuri /\ soat \in Int /\ Len(sessiyalar) \in Nat
      /\ UNCHANGED <<soat, sorov, hajm, delist, bosildi, uzilish, xato, yozilmagan, urinish>>
  BY TurlarL DEF SessiyaBoshlanadi, QoldaBoshlanadi, tarix, RadarInv, Tipli
<1>2. CASE SessiyaBoshlanadi
  <2>. DEFINE r == Head(ish.reja)
  <2>1. /\ ish.reja # <<>> /\ ~rasmiy_bormi(r)
        /\ sessiyalar' = Append(sessiyalar, YangiSessiya(r))
        /\ ish' = [ish EXCEPT !.pc = "sessiya", !.reja = Tail(ish.reja),
                              !.joriy = Len(sessiyalar) + 1]
    BY <1>2 DEF SessiyaBoshlanadi
  <2>2. ish.reja \in Seq(Slot)  BY <1>1 DEF IshTuri
  <2>3. r \in Slot /\ Tail(ish.reja) \in Seq(Slot)  BY <2>1, <2>2
  <2>4. r.turi \in RASMIY_TURLAR /\ r.sham \in Int /\ r.turi # QOLDA
    BY <2>3 DEF Slot, RASMIY_TURLAR, KASHFIYOT, TASDIQ, QOLDA
  <2>5. /\ ish' \in IshTuri /\ ish'.pc = "sessiya" /\ ish'.joriy = Len(sessiyalar) + 1
        /\ ish'.hajmUrinish = ish.hajmUrinish /\ ish'.korildi = ish.korildi
        /\ ish'.reja = Tail(ish.reja)
    <3>1. PICK n \in Nat : n = Len(sessiyalar) + 1  BY <1>1
    <3>2. PICK w \in Seq(Slot) : w = Tail(ish.reja)  BY <2>3
    <3>3. ish' = [ish EXCEPT !.pc = "sessiya", !.reja = w, !.joriy = n]  BY <2>1, <3>1, <3>2
    <3>4. /\ ish' \in IshTuri /\ ish'.pc = "sessiya" /\ ish'.joriy = n
          /\ ish'.hajmUrinish = ish.hajmUrinish /\ ish'.korildi = ish.korildi /\ ish'.reja = w
      BY <1>1, <3>3 DEF IshTuri
    <3>. QED  BY <3>1, <3>2, <3>4
  <2>6. ish'.sorov = ish.sorov  BY <1>1, <2>1 DEF IshTuri
  <2>. HIDE DEF r
  <2>. QED  BY <1>1, <2>1, <2>3, <2>4, <2>5, <2>6, QatorL DEF r
<1>3. CASE QoldaBoshlanadi
  <2>. DEFINE r == Rejadagi(QOLDA, keyingi_sham(soat))
  <2>1. /\ ish.reja = <<>> /\ ish.sorov
        /\ sessiyalar' = Append(sessiyalar, YangiSessiya(r))
        /\ ish' = [ish EXCEPT !.pc = "sessiya", !.sorov = FALSE, !.joriy = Len(sessiyalar) + 1]
    BY <1>3 DEF QoldaBoshlanadi
  <2>2. r.turi = QOLDA /\ r.sham \in Int
    BY <1>1, BoshiL, VaqtFarazi DEF Rejadagi, keyingi_sham
  <2>3. /\ ish' \in IshTuri /\ ish'.pc = "sessiya" /\ ish'.joriy = Len(sessiyalar) + 1
        /\ ish'.hajmUrinish = ish.hajmUrinish /\ ish'.korildi = ish.korildi
        /\ ish'.reja = ish.reja
    <3>1. PICK n \in Nat : n = Len(sessiyalar) + 1  BY <1>1
    <3>2. ish' = [ish EXCEPT !.pc = "sessiya", !.sorov = FALSE, !.joriy = n]  BY <2>1, <3>1
    <3>3. /\ ish' \in IshTuri /\ ish'.pc = "sessiya" /\ ish'.joriy = n
          /\ ish'.hajmUrinish = ish.hajmUrinish /\ ish'.korildi = ish.korildi
          /\ ish'.reja = ish.reja
      BY <1>1, <3>2 DEF IshTuri
    <3>. QED  BY <3>1, <3>3
  <2>4. ish'.sorov = FALSE  BY <1>1, <2>1 DEF IshTuri
  <2>. HIDE DEF r
  <2>. QED  BY <1>1, <2>1, <2>2, <2>3, <2>4, QatorL
<1>. QED  BY <1>2, <1>3
-----------------------------------------------------------------------------
\* The theorems

\* A new database and a process that has just started.
LEMMA InitL ==
  ASSUME Init
  PROVE  RadarInv
<1>1. /\ soat = 0 /\ sessiyalar = <<>> /\ sorov = FALSE /\ hajm \in {Yoq, 0} /\ delist = {}
      /\ ish = Toza /\ bosildi = 0 /\ uzilish = 0 /\ xato = 0 /\ yozilmagan = {} /\ urinish = Yoq
  BY DEF Init
<1>2. MaxSoat \in Nat /\ MaxUzilish \in Nat /\ MaxXato \in Nat /\ MaxSorov \in Nat
  BY IshchiFarazi
<1>3. sessiyalar \in Seq(QatorTuri) /\ DOMAIN sessiyalar = {}  BY <1>1
<1>4. <<>> \in Seq(Slot) /\ Yoq \in Int  BY DEF Yoq
<1>5. /\ ish \in IshTuri /\ ish.pc = "boshlash" /\ ish.joriy = 0 /\ ish.hajmUrinish = Yoq
  BY <1>1, <1>4 DEF Toza, IshTuri
<1>6. ish.sorov = FALSE  BY <1>1 DEF Toza
<1>7. Tipli
  <2>1. soat \in 0..MaxSoat /\ hajm \in {Yoq} \cup 0..MaxSoat /\ sorov \in BOOLEAN
    <3>1. 0 \in 0..MaxSoat  BY <1>2
    <3>2. sorov \in BOOLEAN  BY <1>1
    <3>3. soat \in 0..MaxSoat  BY <1>1, <3>1
    <3>4. hajm \in {Yoq} \cup 0..MaxSoat  BY <1>1, <3>1
    <3>. QED  BY <3>2, <3>3, <3>4
  <2>2. bosildi \in 0..MaxSorov /\ uzilish \in 0..MaxUzilish /\ xato \in 0..MaxXato
    BY <1>1, <1>2
  <2>3. delist \subseteq Coinlar /\ yozilmagan \subseteq DOMAIN sessiyalar  BY <1>1
  <2>4. \A i \in DOMAIN sessiyalar : sessiyalar[i].boshlandi \in {Yoq} \cup 0..soat  BY <1>3
  <2>. QED  BY <1>3, <1>5, <2>1, <2>2, <2>3, <2>4 DEF Tipli
<1>8. UrinishTogri /\ JoriyTogri /\ YurmoqdaRost /\ RejaTogri /\ VaqtTogri /\ BahoBoshRost
  BY <1>1, <1>3, <1>5
  DEF UrinishTogri, JoriyTogri, YurmoqdaRost, RejaTogri, VaqtTogri, BahoBoshRost
<1>9. SorovSoni
  <2>1. Qoldalar = {}  BY <1>3 DEF Qoldalar
  <2>2. IsFiniteSet({}) /\ Cardinality({}) = 0  BY FS_EmptySet
  <2>3. Bayroq(sorov) = 0 /\ Bayroq(ish.sorov) = 0  BY <1>1, <1>6 DEF Bayroq
  <2>. QED  BY <1>1, <2>1, <2>2, <2>3 DEF SorovSoni
<1>10. Qatorli
  BY <1>3 DEF Qatorli, Tartibli, ElakKetma, KetmaTogri, TasdiqIkkiKorik, ChiqdiKorinadi
<1>. QED  BY <1>7, <1>8, <1>9, <1>10 DEF RadarInv

\* A step that changes nothing.
LEMMA TurganL ==
  ASSUME RadarInv, UNCHANGED vars
  PROVE  RadarInv'
<1>1. /\ sessiyalar' = sessiyalar /\ soat' = soat /\ sorov' = sorov /\ delist' = delist
      /\ hajm' = hajm /\ bosildi' = bosildi /\ uzilish' = uzilish /\ xato' = xato
      /\ yozilmagan' = yozilmagan /\ urinish' = urinish /\ ish' = ish
  BY DEF vars
<1>2. RejaQadami  BY <1>1 DEF RejaQadami
<1>3. Bayroq(sorov') + Bayroq(ish'.sorov) + bosildi <= Bayroq(sorov) + Bayroq(ish.sorov) + bosildi'
  BY TurlarL, <1>1
<1>. QED  BY TurlarL, <1>1, <1>2, <1>3, TinchL

\* Every step keeps the invariant.
LEMMA QadamL ==
  ASSUME RadarInv, [Next]_vars
  PROVE  RadarInv'
<1>1. CASE Ishchi
  <2>1. \/ Boshlanadi
        \/ QadamBoshi \/ SlotBor \/ QoldaYoq \/ BahoErta \/ Uygonadi
        \/ HajmYangilanadi \/ HajmYiqiladi \/ HajmKerakEmas
        \/ SessiyaBoshlanadi \/ QoldaBoshlanadi
        \/ SlotYiqiladi \/ SessiyaYopilmaydi \/ BahoYiqiladi
        \/ SessiyaTugaydi \/ SessiyaYiqiladi
        \/ Baholanadi
    BY <1>1 DEF Ishchi
  <2>. QED
    BY <2>1, BoshlanishL, HalqaL, HajmQadamL, YangiSessiyaL, YiqilishL, SessiyaL, BahoL
<1>2. CASE Tik \/ RadarSora \/ Uziladi \/ Delist
  BY <1>2, DunyoL
<1>3. CASE UNCHANGED vars
  BY <1>3, TurganL
<1>. QED  BY <1>1, <1>2, <1>3 DEF Next

\* The inductive invariant holds throughout.
THEOREM RadarInvTeoremasi == Spec => []RadarInv
<1>1. Init => RadarInv  BY InitL
<1>2. RadarInv /\ [Next]_vars => RadarInv'  BY QadamL
<1>. QED  BY <1>1, <1>2, PTL DEF Spec

\* Every slot of the timetable is run exactly once and seen in time, and every
\* press of the admin's button makes one session at most, through crashes, failed
\* sessions and failed writes (ishchi.py, repository.rasmiy_bormi).
THEOREM SlotlarTeoremasi == Spec => []SlotlarTogri
<1>1. RadarInv => SlotlarTogri
  <2>. SUFFICES ASSUME RadarInv PROVE SlotlarTogri  OBVIOUS
  <2>1. sessiyalar \in Seq(QatorTuri) /\ Tartibli  BY DEF RadarInv, Tipli, Qatorli
  <2>2. \A r \in Slotlar : r \in Slot /\ Karrali(r)
    <3>. SUFFICES ASSUME NEW T \in RASMIY_TURLAR, NEW k \in 0..(MaxSoat \div ShamDavri + 2)
                  PROVE  Rejadagi(T, ShamDavri * k) \in Slot /\ Karrali(Rejadagi(T, ShamDavri * k))
      BY DEF Slotlar
    <3>1. ShamDavri * k \in Int /\ k \in Int  BY VaqtFarazi
    <3>. QED  BY <3>1 DEF Rejadagi, Slot, Karrali
  <2>3. SlotBirMarta
    <3>. SUFFICES ASSUME NEW r \in Slotlar PROVE Cardinality(Qatorlar(r)) <= 1
      BY DEF SlotBirMarta
    <3>1. r.turi \in RASMIY_TURLAR  BY <2>2 DEF Slot
    <3>2. \A i, k \in Qatorlar(r) : i = k  BY <2>1, <3>1, YagonaL DEF Qatorlar
    <3>3. CASE Qatorlar(r) = {}  BY <3>3, FS_EmptySet
    <3>4. CASE Qatorlar(r) # {}
      <4>1. PICK i \in Qatorlar(r) : Qatorlar(r) = {i}  BY <3>2, <3>4
      <4>2. Cardinality({i}) = 1  BY FS_Singleton
      <4>. QED  BY <4>1, <4>2
    <3>. QED  BY <3>3, <3>4
  <2>4. SlotOlinadi  BY <2>2 DEF RadarInv, RejaTogri, SlotOlinadi
  <2>5. SorovBirMarta
    <3>1. Cardinality(Qoldalar) + Bayroq(sorov) + Bayroq(ish.sorov) <= bosildi
      BY DEF RadarInv, SorovSoni
    <3>2. Cardinality(Qoldalar) \in Int  BY FS_CardinalityType DEF RadarInv, SorovSoni
    <3>3. Cardinality(Qoldalar) <= bosildi  BY TurlarL, <3>1, <3>2
    <3>. QED  BY <3>3 DEF SorovBirMarta, Qoldalar
  <2>6. TypeOK
    <3>1. \A i \in DOMAIN sessiyalar :
            /\ sessiyalar[i].turi \in RASMIY_TURLAR \cup {QOLDA}
            /\ sessiyalar[i].holat \in {YURMOQDA, TUGADI, XATO}
      <4>. TAKE i \in DOMAIN sessiyalar
      <4>1. sessiyalar[i] \in QatorTuri  BY <2>1
      <4>. QED  BY <4>1 DEF QatorTuri
    <3>2. /\ ish.pc \in {"boshlash", "uyqu", "hajm", "slot", "sessiya", "hajm2", "baho", "uxladi"}
          /\ ish.hajmUrinish \in {Yoq} \cup 0..MaxSoat
      BY TurlarL DEF IshTuri
    <3>3. ish.joriy \in {0} \cup DOMAIN sessiyalar
      BY <2>1 DEF RadarInv, JoriyTogri
    <3>. QED  BY TurlarL, <3>1, <3>2, <3>3 DEF TypeOK, RadarInv, Tipli
  <2>. QED  BY <2>3, <2>4, <2>5, <2>6 DEF SlotlarTogri
<1>. QED  BY <1>1, RadarInvTeoremasi, PTL

\* What the screen concludes from several sessions follows from them: streaks,
\* confirmations, coins that lost their place, the row shown as running, results
\* closed without numbers (sessiya.py, repository.py, baholash.py).
THEOREM KorinishTeoremasi == Spec => []KorinishTogri
<1>1. RadarInv => KorinishTogri
  BY DEF RadarInv, Qatorli, KorinishTogri
<1>. QED  BY <1>1, RadarInvTeoremasi, PTL

\* Two refreshes of the volumes are HajmQayta apart in one life of the process,
\* whether the first failed, was partial or succeeded (ishchi.py: hajm_urinish).
THEOREM HajmTeoremasi == Spec => HajmOraligi
<1>. DEFINE A == urinish # Yoq /\ urinish' \notin {Yoq, urinish} => urinish' - urinish >= HajmQayta
<1>1. RadarInv /\ [Next]_vars => [A]_vars
  <2>. SUFFICES ASSUME RadarInv, Next, urinish # Yoq, urinish' \notin {Yoq, urinish}
                PROVE  urinish' - urinish >= HajmQayta
    OBVIOUS
  <2>1. HajmYangilanadi \/ HajmYiqiladi
    BY DEF Next, Ishchi, Boshlanadi, QadamBoshi, HajmKerakEmas, SlotBor, SessiyaBoshlanadi,
           QoldaBoshlanadi, QoldaYoq, SlotYiqiladi, SessiyaTugaydi, SessiyaYiqiladi,
           SessiyaYopilmaydi, Baholanadi, BahoYiqiladi, BahoErta, Uygonadi, Tik, RadarSora,
           Uziladi, Delist, tarix
  <2>2. HajmVaqtiKeldimi(ish.hajmUrinish) /\ urinish' = soat
    BY <2>1 DEF HajmYangilanadi, HajmYiqiladi, HajmKerak
  <2>3. urinish = ish.hajmUrinish  BY TurlarL
  <2>. QED  BY <2>2, <2>3 DEF HajmVaqtiKeldimi
<1>. QED  BY <1>1, RadarInvTeoremasi, PTL DEF Spec, HajmOraligi
=============================================================================
