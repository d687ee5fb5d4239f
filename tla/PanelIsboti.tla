------------------------------- MODULE PanelIsboti ------------------------------
(* Proofs about the watch panel and the search beside it: for any coins, any     *)
(* lengths of the lists, any number of scans, failures, restarts and presses,    *)
(* and any limits of the tiers.                                                  *)
EXTENDS Qidiruv, FiniteSetTheorems, TLAPS

NatijaTuri == [yiqildi : SUBSET PanelCoinlari, otdi : SetToAllKPermutations(PanelCoinlari)]
HolatTuri == [royxat : {"yoq", TOP, KUZATUVDA, TASHQARIDA}, orin : 0..(TopHajm + KuzatuvHajm)]
VazifaTuri == [pc : {"kutish", "olindi", "skan", "yozdi", "ochirish"}, top : SUBSET PanelCoinlari]
JonliTuri == [pc : {"kutish", "yozish"}, yigmalar : SUBSET PanelCoinlari]

\* A press is the flag, a task that has taken it, or a scan made for it.
Bayroq(b) == IF b THEN 1 ELSE 0
Sorovlar == sorovSkan + Bayroq(vazifa["sorov"].pc = "olindi") + Bayroq(sorov) <= bosildi

PanelInv == PTypeOK /\ RoyxatBirSkandan /\ YurmoqdaRost /\ Sorovlar
-----------------------------------------------------------------------------
\* What a scan finds

\* A ranking is injective, and nobody in it failed.
LEMMA NatijaL ==
  ASSUME NEW n \in SkanNatijalari
  PROVE  /\ n.yiqildi \subseteq PanelCoinlari /\ DOMAIN n.otdi \subseteq Nat \ {0}
         /\ \A i \in DOMAIN n.otdi : n.otdi[i] \in PanelCoinlari /\ n.otdi[i] \notin n.yiqildi
         /\ \A i, k \in DOMAIN n.otdi : n.otdi[i] = n.otdi[k] => i = k
<1>1. n \in NatijaTuri /\ n.yiqildi \cap ToSet(n.otdi) = {}  BY DEF SkanNatijalari, NatijaTuri
<1>2. n.yiqildi \subseteq PanelCoinlari /\ n.otdi \in SetToAllKPermutations(PanelCoinlari)
  BY <1>1 DEF NatijaTuri
<1>3. PICK S \in SUBSET PanelCoinlari : n.otdi \in SetToSeqs(S)
  BY <1>2 DEF SetToAllKPermutations
<1>4. /\ n.otdi \in [1..Cardinality(S) -> S]
      /\ \A i, k \in 1..Cardinality(S) : i # k => n.otdi[i] # n.otdi[k]
  BY <1>3 DEF SetToSeqs
<1>5. \A i \in DOMAIN n.otdi : n.otdi[i] \in ToSet(n.otdi)  BY DEF ToSet
<1>6. DOMAIN n.otdi = 1..Cardinality(S)  BY <1>4
<1>7. Cardinality(S) \in Nat
  <2>1. IsFiniteSet(S)  BY <1>3, PanelFarazi, FS_Subset
  <2>. QED  BY <2>1, FS_CardinalityType
<1>8. DOMAIN n.otdi \subseteq Nat \ {0}  BY <1>6, <1>7
<1>9. \A i \in DOMAIN n.otdi : n.otdi[i] \in PanelCoinlari
  BY <1>3, <1>4, <1>6
<1>10. \A i \in DOMAIN n.otdi : n.otdi[i] \notin n.yiqildi  BY <1>1, <1>5
<1>11. \A i, k \in DOMAIN n.otdi : n.otdi[i] = n.otdi[k] => i = k  BY <1>4, <1>6
<1>. QED  BY <1>2, <1>8, <1>9, <1>10, <1>11

\* The lists are disjoint, hold nobody who failed, and a place on them is held by
\* one coin.
LEMMA OrinL ==
  ASSUME NEW n \in SkanNatijalari
  PROVE  /\ Top(n) \subseteq PanelCoinlari /\ Kuzatuvda(n) \subseteq PanelCoinlari
         /\ Top(n) \cap n.yiqildi = {} /\ Kuzatuvda(n) \cap n.yiqildi = {}
         /\ \A c \in Top(n) \cup Kuzatuvda(n) :
               Orni(n, c) \in 1..(TopHajm + KuzatuvHajm) /\ n.otdi[Orni(n, c)] = c
         /\ Top(n) \cap Kuzatuvda(n) = {}
<1>0. TopHajm \in Nat /\ KuzatuvHajm \in Nat  BY PanelFarazi
<1>1. /\ DOMAIN n.otdi \subseteq Nat \ {0}
      /\ \A i \in DOMAIN n.otdi : n.otdi[i] \in PanelCoinlari /\ n.otdi[i] \notin n.yiqildi
      /\ \A i, k \in DOMAIN n.otdi : n.otdi[i] = n.otdi[k] => i = k
  BY NatijaL
<1>2. \A a, b : \A c \in OrinOralig(n, a, b) :
        \E i \in DOMAIN n.otdi : a < i /\ i <= b /\ c = n.otdi[i]
  BY DEF OrinOralig
<1>3. \A c : (\E i \in DOMAIN n.otdi : n.otdi[i] = c) =>
        Orni(n, c) \in DOMAIN n.otdi /\ n.otdi[Orni(n, c)] = c
  BY DEF Orni
<1>4. \A c \in Top(n) : \E i \in DOMAIN n.otdi : i <= TopHajm /\ c = n.otdi[i]
  BY <1>2 DEF Top
<1>5. \A c \in Kuzatuvda(n) :
        \E i \in DOMAIN n.otdi : TopHajm < i /\ i <= TopHajm + KuzatuvHajm /\ c = n.otdi[i]
  BY <1>2 DEF Kuzatuvda
<1>6. \A c \in Top(n) \cup Kuzatuvda(n) : \E i \in DOMAIN n.otdi :
         i <= TopHajm + KuzatuvHajm /\ c = n.otdi[i]
  <2>1. \A i \in Nat : i <= TopHajm => i <= TopHajm + KuzatuvHajm  BY <1>0
  <2>. QED  BY <1>1, <1>4, <1>5, <2>1
<1>7. \A c \in Top(n) \cup Kuzatuvda(n) :
         Orni(n, c) \in 1..(TopHajm + KuzatuvHajm) /\ n.otdi[Orni(n, c)] = c
  <2>. TAKE c \in Top(n) \cup Kuzatuvda(n)
  <2>1. PICK i \in DOMAIN n.otdi : i <= TopHajm + KuzatuvHajm /\ c = n.otdi[i]  BY <1>6
  <2>2. Orni(n, c) \in DOMAIN n.otdi /\ n.otdi[Orni(n, c)] = c  BY <1>3, <2>1
  <2>3. Orni(n, c) = i  BY <1>1, <2>1, <2>2
  <2>4. i \in Nat \ {0}  BY <1>1
  <2>. QED  BY <1>0, <2>1, <2>2, <2>3, <2>4
<1>8. Top(n) \cap Kuzatuvda(n) = {}
  <2>. SUFFICES ASSUME NEW c \in Top(n), c \in Kuzatuvda(n) PROVE FALSE  OBVIOUS
  <2>1. PICK i \in DOMAIN n.otdi : i <= TopHajm /\ c = n.otdi[i]  BY <1>4
  <2>2. PICK k \in DOMAIN n.otdi : TopHajm < k /\ c = n.otdi[k]  BY <1>5
  <2>3. i = k /\ i \in Nat  BY <1>1, <2>1, <2>2
  <2>. QED  BY <1>0, <2>1, <2>2, <2>3
<1>. QED  BY <1>1, <1>4, <1>5, <1>7, <1>8

\* What the screen shows of a coin once a scan is written.
LEMMA YozL ==
  ASSUME PTypeOK, NEW n \in SkanNatijalari
  PROVE  /\ royxatlarni_yoz(n) \in [PanelCoinlari -> HolatTuri]
         /\ \A c \in PanelCoinlari :
              /\ c \in Top(n) =>
                   royxatlarni_yoz(n)[c].royxat = TOP /\ royxatlarni_yoz(n)[c].orin = Orni(n, c)
              /\ c \in Kuzatuvda(n) =>
                   /\ royxatlarni_yoz(n)[c].royxat = KUZATUVDA
                   /\ royxatlarni_yoz(n)[c].orin = Orni(n, c)
              /\ c \notin Top(n) \cup Kuzatuvda(n) \cup n.yiqildi =>
                   /\ royxatlarni_yoz(n)[c].royxat = TASHQARIDA
                   /\ royxatlarni_yoz(n)[c].orin = 0
<1>. DEFINE y == royxatlarni_yoz(n)
<1>0. TopHajm + KuzatuvHajm \in Nat  BY PanelFarazi
<1>1. ASSUME NEW c \in PanelCoinlari, c \in Top(n)
      PROVE  y[c] \in HolatTuri /\ y[c].royxat = TOP /\ y[c].orin = Orni(n, c)
  <2>1. y[c] = [royxat |-> TOP, orin |-> Orni(n, c)]
    BY <1>1, OrinL DEF royxatlarni_yoz
  <2>2. Orni(n, c) \in 0..(TopHajm + KuzatuvHajm)  BY <1>0, <1>1, OrinL
  <2>. QED  BY <2>1, <2>2 DEF HolatTuri
<1>2. ASSUME NEW c \in PanelCoinlari, c \in Kuzatuvda(n)
      PROVE  y[c] \in HolatTuri /\ y[c].royxat = KUZATUVDA /\ y[c].orin = Orni(n, c)
  <2>1. y[c] = [royxat |-> KUZATUVDA, orin |-> Orni(n, c)]
    BY <1>2, OrinL DEF royxatlarni_yoz
  <2>2. Orni(n, c) \in 0..(TopHajm + KuzatuvHajm)  BY <1>0, <1>2, OrinL
  <2>. QED  BY <2>1, <2>2 DEF HolatTuri
<1>3. ASSUME NEW c \in PanelCoinlari, c \notin Top(n) \cup Kuzatuvda(n), c \in n.yiqildi
      PROVE  y[c] \in HolatTuri
  <2>1. y[c] = holatlar[c]  BY <1>3 DEF royxatlarni_yoz
  <2>. QED  BY <2>1 DEF PTypeOK, HolatTuri
<1>4. ASSUME NEW c \in PanelCoinlari, c \notin Top(n) \cup Kuzatuvda(n) \cup n.yiqildi
      PROVE  y[c] \in HolatTuri /\ y[c].royxat = TASHQARIDA /\ y[c].orin = 0
  <2>1. y[c] = [royxat |-> TASHQARIDA, orin |-> 0]  BY <1>4 DEF royxatlarni_yoz
  <2>. QED  BY <1>0, <2>1 DEF HolatTuri
<1>5. y \in [PanelCoinlari -> HolatTuri]
  <2>1. y = [c \in PanelCoinlari |-> y[c]]  BY DEF royxatlarni_yoz
  <2>2. \A c \in PanelCoinlari : y[c] \in HolatTuri  BY <1>1, <1>2, <1>3, <1>4
  <2>. HIDE DEF y
  <2>. QED  BY <2>1, <2>2
<1>. QED  BY <1>1, <1>2, <1>4, <1>5

-----------------------------------------------------------------------------
\* The invariant, action by action

\* Nothing has been scanned, asked for or shown yet.
LEMMA BoshidaL ==
  ASSUME PInit PROVE PanelInv
<1>0. TopHajm \in Nat \ {0} /\ KuzatuvHajm \in Nat /\ {MaxBosish, MaxNosozlik} \subseteq Nat
      /\ IsFiniteSet(PanelCoinlari)
  BY PanelFarazi
<1>1. oxirgiSkan \in SkanNatijalari
  <2>1. <<>> \in SetToSeqs({})
    <3>1. Cardinality({}) = 0  BY FS_EmptySet
    <3>. QED  BY <3>1 DEF SetToSeqs
  <2>2. <<>> \in SetToAllKPermutations(PanelCoinlari)  BY <2>1 DEF SetToAllKPermutations
  <2>3. ToSet(<<>>) = {}  BY DEF ToSet
  <2>4. oxirgiSkan = [yiqildi |-> PanelCoinlari, otdi |-> <<>>]  BY DEF PInit
  <2>. QED  BY <2>2, <2>3, <2>4 DEF SkanNatijalari
<1>2. PTypeOK
  <2>1. holatlar \in [PanelCoinlari -> HolatTuri]
    <3>1. Qatorsiz \in HolatTuri  BY <1>0 DEF Qatorsiz, HolatTuri
    <3>. QED  BY <3>1 DEF PInit
  <2>2. vazifa \in [Skanerlar -> VazifaTuri] /\ jonli \in JonliTuri
    BY DEF PInit, BoshVazifa, BoshJonli, VazifaTuri, JonliTuri
  <2>3. /\ skan \in {BOSH, YURMOQDA, TUGADI, XATO} /\ sorov \in BOOLEAN
        /\ kbozor \subseteq PanelCoinlari /\ oqim \subseteq PanelCoinlari /\ tashlandi \in BOOLEAN
    BY DEF PInit
  <2>4. bosildi \in 0..MaxBosish /\ sorovSkan \in Nat /\ nosozlik \in 0..MaxNosozlik
    BY <1>0 DEF PInit
  <2>. QED  BY <1>1, <2>1, <2>2, <2>3, <2>4 DEF PTypeOK, HolatTuri, VazifaTuri, JonliTuri
<1>3. RoyxatBirSkandan
  <2>1. Ekranda(TOP) = {}  BY DEF PInit, Ekranda, Qatorsiz, TOP
  <2>2. Top(oxirgiSkan) = {}
    <3>1. DOMAIN oxirgiSkan.otdi = {}  BY DEF PInit
    <3>. QED  BY <3>1 DEF Top, OrinOralig
  <2>3. PanelCoinlari \ oxirgiSkan.yiqildi = {}  BY DEF PInit
  <2>. QED  BY <2>1, <2>2, <2>3 DEF RoyxatBirSkandan
<1>4. YurmoqdaRost  BY DEF PInit, YurmoqdaRost, BOSH, YURMOQDA
<1>5. Sorovlar  BY DEF PInit, Sorovlar, Bayroq, BoshVazifa, Skanerlar
<1>. QED  BY <1>2, <1>3, <1>4, <1>5 DEF PanelInv

\* Once written, the lists on the screen are those of the scan just written.
LEMMA YozilganL ==
  ASSUME PTypeOK, NEW n \in SkanNatijalari, holatlar' = royxatlarni_yoz(n), oxirgiSkan' = n
  PROVE  RoyxatBirSkandan'
<1>. DEFINE y == royxatlarni_yoz(n)
<1>0. y \in [PanelCoinlari -> HolatTuri]  BY YozL
<1>1. ASSUME NEW c \in PanelCoinlari, c \notin n.yiqildi
      PROVE  y[c].royxat = TOP <=> c \in Top(n)
  <2>1. TOP # KUZATUVDA /\ TOP # TASHQARIDA  BY DEF TOP, KUZATUVDA, TASHQARIDA
  <2>. QED  BY <1>1, <2>1, YozL
<1>2. Ekranda(TOP)' \ n.yiqildi = Top(n)
  <2>1. Ekranda(TOP)' = {c \in PanelCoinlari : y[c].royxat = TOP}  BY DEF Ekranda
  <2>2. Top(n) \subseteq PanelCoinlari /\ Top(n) \cap n.yiqildi = {}  BY OrinL
  <2>. HIDE DEF y
  <2>. QED  BY <1>1, <2>1, <2>2
<1>3. ASSUME NEW c \in PanelCoinlari \ n.yiqildi, NEW d \in PanelCoinlari \ n.yiqildi,
             c # d, y[c].orin = y[d].orin
      PROVE  y[c].orin = 0
  <2>. DEFINE R == Top(n) \cup Kuzatuvda(n)
  <2>1. CASE c \in R /\ d \in R
    <3>1. y[c].orin = Orni(n, c) /\ y[d].orin = Orni(n, d)  BY <2>1, YozL
    <3>2. n.otdi[Orni(n, c)] = c /\ n.otdi[Orni(n, d)] = d  BY <2>1, OrinL
    <3>. QED  BY <1>3, <3>1, <3>2
  <2>2. CASE c \notin R
    BY <2>2, YozL
  <2>3. CASE d \notin R
    <3>1. y[d].orin = 0  BY <2>3, YozL
    <3>. QED  BY <1>3, <3>1
  <2>. QED  BY <2>1, <2>2, <2>3
<1>. QED
  <2>1. \A c, d \in PanelCoinlari \ n.yiqildi : c # d /\ y[c].orin = y[d].orin => y[c].orin = 0
    BY <1>3
  <2>2. holatlar' = y /\ oxirgiSkan' = n  OBVIOUS
  <2>3. Top(oxirgiSkan)' = Top(n)  BY DEF Top, OrinOralig
  <2>. HIDE DEF y
  <2>. QED  BY <1>2, <2>1, <2>2, <2>3 DEF RoyxatBirSkandan

\* Where neither the screen's lists nor the last scan change, they still agree.
LEMMA RoyxatTurgunL ==
  ASSUME RoyxatBirSkandan, UNCHANGED <<holatlar, oxirgiSkan>>
  PROVE  RoyxatBirSkandan'
BY DEF RoyxatBirSkandan, Ekranda, Top, OrinOralig

\* What a step of one task does to the two of them.
LEMMA VazifaL ==
  ASSUME NEW t \in Skanerlar, NEW v \in VazifaTuri,
         vazifa \in [Skanerlar -> VazifaTuri], vazifa' = [vazifa EXCEPT ![t] = v]
  PROVE  /\ vazifa' \in [Skanerlar -> VazifaTuri]
         /\ vazifa'[t] = v /\ \A u \in Skanerlar \ {t} : vazifa'[u] = vazifa[u]
OBVIOUS

LEMMA SorovOlinadiL ==
  ASSUME PanelInv, SorovOlinadi PROVE PanelInv'
<1>1. PTypeOK /\ RoyxatBirSkandan /\ YurmoqdaRost /\ Sorovlar  BY DEF PanelInv
<1>2. /\ vazifa["sorov"].pc = "kutish" /\ sorov /\ sorov' = FALSE
      /\ vazifa' = [vazifa EXCEPT !["sorov"].pc = "olindi"]
      /\ UNCHANGED <<holatlar, skan, kbozor, oqim, jonli, oxirgiSkan, tashlandi,
                     sorovSkan, bosildi, nosozlik>>
  BY DEF SorovOlinadi, SorovdanKeyin, tarix
<1>3. vazifa \in [Skanerlar -> VazifaTuri] /\ "sorov" \in Skanerlar
  BY <1>1 DEF PTypeOK, VazifaTuri, Skanerlar
<1>4. /\ vazifa' \in [Skanerlar -> VazifaTuri] /\ vazifa'["sorov"].pc = "olindi"
      /\ \A u \in Skanerlar : vazifa[u].pc \in {"skan", "yozdi"} => vazifa'[u].pc = vazifa[u].pc
  BY <1>2, <1>3 DEF VazifaTuri
<1>5. PTypeOK'  BY <1>1, <1>2, <1>4 DEF PTypeOK, VazifaTuri
<1>6. RoyxatBirSkandan'  BY <1>1, <1>2, RoyxatTurgunL
<1>7. YurmoqdaRost'  BY <1>1, <1>2, <1>4 DEF YurmoqdaRost
<1>8. Sorovlar'
  <2>1. sorovSkan + 0 + 1 <= bosildi  BY <1>1, <1>2 DEF Sorovlar, Bayroq
  <2>2. sorovSkan \in Nat /\ bosildi \in Int  BY <1>1 DEF PTypeOK
  <2>. QED  BY <1>2, <1>4, <2>1, <2>2 DEF Sorovlar, Bayroq
<1>. QED  BY <1>5, <1>6, <1>7, <1>8 DEF PanelInv

LEMMA SkanBoshlanadiL ==
  ASSUME PanelInv, NEW t \in Skanerlar, SkanBoshlanadi(t) PROVE PanelInv'
<1>1. PTypeOK /\ RoyxatBirSkandan /\ YurmoqdaRost /\ Sorovlar  BY DEF PanelInv
<1>2. /\ Boshlaydi(t) /\ skan' = YURMOQDA /\ tashlandi' = FALSE
      /\ vazifa' = [vazifa EXCEPT ![t].pc = "skan"]
      /\ sorovSkan' = sorovSkan + (IF t = "sorov" THEN 1 ELSE 0)
      /\ UNCHANGED <<holatlar, sorov, kbozor, oqim, jonli, oxirgiSkan, bosildi, nosozlik>>
  BY DEF SkanBoshlanadi
<1>3. vazifa \in [Skanerlar -> VazifaTuri] /\ "sorov" \in Skanerlar
  BY <1>1 DEF PTypeOK, VazifaTuri, Skanerlar
<1>4. vazifa' \in [Skanerlar -> VazifaTuri] /\ vazifa'[t].pc = "skan"
      /\ \A u \in Skanerlar \ {t} : vazifa'[u] = vazifa[u]
  BY <1>2, <1>3 DEF VazifaTuri
<1>5. PTypeOK'
  <2>1. sorovSkan' \in Nat  BY <1>1, <1>2 DEF PTypeOK
  <2>. QED  BY <1>1, <1>2, <1>4, <2>1 DEF PTypeOK, VazifaTuri
<1>6. RoyxatBirSkandan'  BY <1>1, <1>2, RoyxatTurgunL
<1>7. YurmoqdaRost'  BY <1>4 DEF YurmoqdaRost
<1>8. Sorovlar'
  <2>1. sorovSkan \in Nat /\ bosildi \in Int  BY <1>1 DEF PTypeOK
  <2>2. CASE t = "sorov"
    <3>1. vazifa["sorov"].pc = "olindi"  BY <1>2, <2>2 DEF Boshlaydi
    <3>2. vazifa'["sorov"].pc = "skan" /\ sorovSkan' = sorovSkan + 1  BY <1>2, <1>4, <2>2
    <3>3. sorovSkan + 1 + Bayroq(sorov) <= bosildi  BY <1>1, <3>1 DEF Sorovlar, Bayroq
    <3>4. Bayroq(sorov) \in {0, 1}  BY DEF Bayroq
    <3>5. sorovSkan' + 0 + Bayroq(sorov) <= bosildi  BY <2>1, <3>2, <3>3, <3>4
    <3>6. Bayroq(vazifa'["sorov"].pc = "olindi") = 0  BY <3>2 DEF Bayroq
    <3>. QED  BY <1>2, <3>5, <3>6 DEF Sorovlar, Bayroq
  <2>3. CASE t # "sorov"
    <3>1. vazifa'["sorov"] = vazifa["sorov"] /\ sorovSkan' = sorovSkan
      BY <1>2, <1>3, <1>4, <2>1, <2>3
    <3>. QED  BY <1>1, <1>2, <3>1 DEF Sorovlar, Bayroq
  <2>. QED  BY <2>2, <2>3
<1>. QED  BY <1>5, <1>6, <1>7, <1>8 DEF PanelInv

\* A step that takes a task out of a scan, or moves it along one, makes no request.
LEMMA VazifaQoladiL ==
  ASSUME PTypeOK, Sorovlar, NEW t \in Skanerlar, NEW v \in VazifaTuri, v.pc # "olindi",
         vazifa' = [vazifa EXCEPT ![t] = v], UNCHANGED <<sorov, sorovSkan, bosildi>>
  PROVE  Sorovlar'
<1>1. vazifa \in [Skanerlar -> VazifaTuri] /\ sorovSkan \in Nat /\ bosildi \in Int
  BY DEF PTypeOK, VazifaTuri
<1>2. vazifa'["sorov"].pc = "olindi" => vazifa["sorov"].pc = "olindi"
  BY <1>1, VazifaL DEF Skanerlar
<1>. DEFINE a == Bayroq(vazifa["sorov"].pc = "olindi")
            b == Bayroq(vazifa'["sorov"].pc = "olindi")
            c == Bayroq(sorov)
<1>3. a \in {0, 1} /\ b \in {0, 1} /\ c \in {0, 1} /\ b <= a  BY <1>2 DEF Bayroq
<1>4. sorovSkan + a + c <= bosildi  BY DEF Sorovlar
<1>5. Sorovlar' <=> sorovSkan + b + c <= bosildi  BY DEF Sorovlar, Bayroq
<1>. HIDE DEF a, b, c
<1>. QED  BY <1>1, <1>3, <1>4, <1>5

LEMMA SkanYozadiL ==
  ASSUME PanelInv, NEW t \in Skanerlar, SkanYozadi(t) PROVE PanelInv'
<1>1. PTypeOK /\ RoyxatBirSkandan /\ YurmoqdaRost /\ Sorovlar  BY DEF PanelInv
<1>2. PICK n \in SkanNatijalari :
         /\ holatlar' = royxatlarni_yoz(n) /\ oxirgiSkan' = n
         /\ vazifa' = [vazifa EXCEPT ![t] = [pc |-> "yozdi", top |-> Top(n)]]
  BY DEF SkanYozadi
<1>3. /\ vazifa[t].pc = "skan"
      /\ UNCHANGED <<skan, sorov, kbozor, oqim, jonli, tashlandi, sorovSkan, bosildi, nosozlik>>
  BY DEF SkanYozadi, tarix
<1>. DEFINE v == [pc |-> "yozdi", top |-> Top(n)]
<1>4. v \in VazifaTuri /\ v.pc = "yozdi"  BY OrinL DEF VazifaTuri
<1>5. vazifa \in [Skanerlar -> VazifaTuri]  BY <1>1 DEF PTypeOK, VazifaTuri
<1>6. vazifa' = [vazifa EXCEPT ![t] = v]  BY <1>2
<1>. HIDE DEF v
<1>7. vazifa' \in [Skanerlar -> VazifaTuri] /\ vazifa'[t] = v
  BY <1>4, <1>5, <1>6, VazifaL
<1>8. PTypeOK'
  <2>1. holatlar' \in [PanelCoinlari -> HolatTuri]  BY <1>1, <1>2, YozL
  <2>. QED  BY <1>1, <1>2, <1>3, <1>7, <2>1 DEF PTypeOK, HolatTuri, VazifaTuri
<1>9. RoyxatBirSkandan'  BY <1>1, <1>2, YozilganL
<1>10. YurmoqdaRost'  BY <1>4, <1>7 DEF YurmoqdaRost
<1>11. Sorovlar'  BY <1>1, <1>3, <1>4, <1>6, VazifaQoladiL
<1>. QED  BY <1>8, <1>9, <1>10, <1>11 DEF PanelInv

LEMMA SkanYiqiladiL ==
  ASSUME PanelInv, NEW t \in Skanerlar, SkanYiqiladi(t) PROVE PanelInv'
<1>1. PTypeOK /\ RoyxatBirSkandan /\ YurmoqdaRost /\ Sorovlar  BY DEF PanelInv
<1>2. /\ skan' = XATO /\ vazifa' = [vazifa EXCEPT ![t] = BoshVazifa]
      /\ UNCHANGED <<holatlar, sorov, kbozor, oqim, jonli, oxirgiSkan, tashlandi,
                     sorovSkan, bosildi, nosozlik>>
  BY DEF SkanYiqiladi, tarix
<1>3. BoshVazifa \in VazifaTuri /\ BoshVazifa.pc = "kutish"  BY DEF BoshVazifa, VazifaTuri
<1>4. vazifa \in [Skanerlar -> VazifaTuri]  BY <1>1 DEF PTypeOK, VazifaTuri
<1>5. vazifa' \in [Skanerlar -> VazifaTuri]  BY <1>2, <1>3, <1>4, VazifaL
<1>6. PTypeOK'  BY <1>1, <1>2, <1>5 DEF PTypeOK, VazifaTuri
<1>7. RoyxatBirSkandan'  BY <1>1, <1>2, RoyxatTurgunL
<1>8. YurmoqdaRost'  BY <1>2 DEF YurmoqdaRost, YURMOQDA, XATO
<1>9. Sorovlar'  BY <1>1, <1>2, <1>3, VazifaQoladiL
<1>. QED  BY <1>6, <1>7, <1>8, <1>9 DEF PanelInv

LEMMA SkanTugaydiL ==
  ASSUME PanelInv, NEW t \in Skanerlar, SkanTugaydi(t) PROVE PanelInv'
<1>1. PTypeOK /\ RoyxatBirSkandan /\ YurmoqdaRost /\ Sorovlar  BY DEF PanelInv
<1>2. /\ skan' = TUGADI /\ oqim' = vazifa[t].top
      /\ vazifa' = [vazifa EXCEPT ![t].pc = "ochirish"]
      /\ UNCHANGED <<holatlar, sorov, kbozor, jonli, oxirgiSkan, tashlandi,
                     sorovSkan, bosildi, nosozlik>>
  BY DEF SkanTugaydi, kuzat, tarix
<1>3. vazifa \in [Skanerlar -> VazifaTuri]  BY <1>1 DEF PTypeOK, VazifaTuri
<1>. DEFINE v == [vazifa[t] EXCEPT !.pc = "ochirish"]
<1>4. v \in VazifaTuri /\ v.pc = "ochirish" /\ vazifa[t].top \subseteq PanelCoinlari
  BY <1>3 DEF VazifaTuri
<1>5. vazifa' = [vazifa EXCEPT ![t] = v]  BY <1>2
<1>. HIDE DEF v
<1>6. vazifa' \in [Skanerlar -> VazifaTuri]  BY <1>3, <1>4, <1>5, VazifaL
<1>7. PTypeOK'  BY <1>1, <1>2, <1>4, <1>6 DEF PTypeOK, VazifaTuri
<1>8. RoyxatBirSkandan'  BY <1>1, <1>2, RoyxatTurgunL
<1>9. YurmoqdaRost'  BY <1>2 DEF YurmoqdaRost, YURMOQDA, TUGADI
<1>10. Sorovlar'  BY <1>1, <1>2, <1>4, <1>5, VazifaQoladiL
<1>. QED  BY <1>7, <1>8, <1>9, <1>10 DEF PanelInv

LEMMA JonliOchiriladiL ==
  ASSUME PanelInv, NEW t \in Skanerlar, JonliOchiriladi(t) PROVE PanelInv'
<1>1. PTypeOK /\ RoyxatBirSkandan /\ YurmoqdaRost /\ Sorovlar  BY DEF PanelInv
<1>2. /\ vazifa[t].pc = "ochirish" /\ kbozor' = kbozor \cap vazifa[t].top
      /\ vazifa' = [vazifa EXCEPT ![t] = BoshVazifa]
      /\ UNCHANGED <<holatlar, skan, sorov, oqim, jonli, oxirgiSkan, tashlandi,
                     sorovSkan, bosildi, nosozlik>>
  BY DEF JonliOchiriladi, Qoladi, tarix
<1>3. BoshVazifa \in VazifaTuri /\ BoshVazifa.pc = "kutish"  BY DEF BoshVazifa, VazifaTuri
<1>4. vazifa \in [Skanerlar -> VazifaTuri]  BY <1>1 DEF PTypeOK, VazifaTuri
<1>5. /\ vazifa' \in [Skanerlar -> VazifaTuri]
      /\ \A u \in Skanerlar \ {t} : vazifa'[u] = vazifa[u]
  BY <1>2, <1>3, <1>4, VazifaL
<1>6. PTypeOK'  BY <1>1, <1>2, <1>5 DEF PTypeOK, VazifaTuri
<1>7. RoyxatBirSkandan'  BY <1>1, <1>2, RoyxatTurgunL
<1>8. YurmoqdaRost'
  <2>1. \A u \in Skanerlar : vazifa[u].pc \in {"skan", "yozdi"} => vazifa'[u] = vazifa[u]
    BY <1>2, <1>5
  <2>. QED  BY <1>1, <1>2, <2>1 DEF YurmoqdaRost
<1>9. Sorovlar'  BY <1>1, <1>2, <1>3, VazifaQoladiL
<1>. QED  BY <1>6, <1>7, <1>8, <1>9 DEF PanelInv

LEMMA SkanUziladiL ==
  ASSUME PanelInv, NEW t \in Skanerlar, SkanUziladi(t) PROVE PanelInv'
<1>1. PTypeOK /\ RoyxatBirSkandan /\ YurmoqdaRost /\ Sorovlar  BY DEF PanelInv
<1>2. /\ nosozlik < MaxNosozlik /\ nosozlik' = nosozlik + 1
      /\ tashlandi' = (tashlandi \/ vazifa[t].pc \in {"skan", "yozdi"})
      /\ vazifa' = [vazifa EXCEPT ![t] = BoshVazifa]
      /\ UNCHANGED <<holatlar, skan, sorov, kbozor, oqim, jonli, oxirgiSkan, sorovSkan, bosildi>>
  BY DEF SkanUziladi
<1>3. BoshVazifa \in VazifaTuri /\ BoshVazifa.pc = "kutish"  BY DEF BoshVazifa, VazifaTuri
<1>4. vazifa \in [Skanerlar -> VazifaTuri]  BY <1>1 DEF PTypeOK, VazifaTuri
<1>5. /\ vazifa' \in [Skanerlar -> VazifaTuri]
      /\ \A u \in Skanerlar \ {t} : vazifa'[u] = vazifa[u]
  BY <1>2, <1>3, <1>4, VazifaL
<1>6. PTypeOK'
  <2>1. nosozlik' \in 0..MaxNosozlik  BY <1>1, <1>2, PanelFarazi DEF PTypeOK
  <2>2. tashlandi' \in BOOLEAN  BY <1>2
  <2>. QED  BY <1>1, <1>2, <1>5, <2>1, <2>2 DEF PTypeOK, VazifaTuri
<1>7. RoyxatBirSkandan'  BY <1>1, <1>2, RoyxatTurgunL
<1>8. YurmoqdaRost'
  <2>. SUFFICES ASSUME skan = YURMOQDA
                PROVE  tashlandi' \/ \E u \in Skanerlar : vazifa'[u].pc \in {"skan", "yozdi"}
    BY <1>2 DEF YurmoqdaRost
  <2>1. CASE tashlandi  BY <1>2, <2>1
  <2>2. CASE \E u \in Skanerlar : vazifa[u].pc \in {"skan", "yozdi"}
    <3>1. PICK u \in Skanerlar : vazifa[u].pc \in {"skan", "yozdi"}  BY <2>2
    <3>. QED  BY <1>2, <1>5, <3>1
  <2>. QED  BY <1>1, <2>1, <2>2 DEF YurmoqdaRost
<1>9. Sorovlar'  BY <1>1, <1>2, <1>3, VazifaQoladiL
<1>. QED  BY <1>6, <1>7, <1>8, <1>9 DEF PanelInv

\* The live rows: nothing of the scans changes.
LEMMA JonliL ==
  ASSUME PanelInv, Jonli PROVE PanelInv'
<1>1. PTypeOK /\ RoyxatBirSkandan /\ YurmoqdaRost /\ Sorovlar  BY DEF PanelInv
<1>2. UNCHANGED <<holatlar, skan, sorov, oqim, vazifa, oxirgiSkan, tashlandi, sorovSkan, bosildi>>
  BY DEF Jonli, JonliOqiydi, JonliYozadi, JonliYiqiladi, tarix
<1>3. /\ kbozor' \subseteq PanelCoinlari /\ nosozlik' \in 0..MaxNosozlik
      /\ jonli' \in [pc : {"kutish", "yozish"}, yigmalar : SUBSET PanelCoinlari]
  <2>1. CASE JonliOqiydi  BY <1>1, <2>1 DEF JonliOqiydi, PTypeOK, tarix
  <2>2. CASE JonliYozadi  BY <1>1, <2>2 DEF JonliYozadi, BoshJonli, PTypeOK, tarix
  <2>3. CASE JonliYiqiladi  BY <1>1, <2>3, PanelFarazi DEF JonliYiqiladi, BoshJonli, PTypeOK
  <2>. QED  BY <2>1, <2>2, <2>3 DEF Jonli
<1>4. PTypeOK'  BY <1>1, <1>2, <1>3 DEF PTypeOK
<1>5. RoyxatBirSkandan'  BY <1>1, <1>2, RoyxatTurgunL
<1>6. YurmoqdaRost' /\ Sorovlar'  BY <1>1, <1>2 DEF YurmoqdaRost, Sorovlar, Bayroq
<1>. QED  BY <1>4, <1>5, <1>6 DEF PanelInv

\* A press while the flag still stands adds no scan.
LEMMA SorashL ==
  ASSUME PanelInv, kuzatuvSkaniSora PROVE PanelInv'
<1>1. PTypeOK /\ RoyxatBirSkandan /\ YurmoqdaRost /\ Sorovlar  BY DEF PanelInv
<1>2. /\ bosildi < MaxBosish /\ sorov' = TRUE /\ bosildi' = bosildi + 1
      /\ UNCHANGED <<holatlar, skan, kbozor, oqim, vazifa, jonli, oxirgiSkan, tashlandi,
                     sorovSkan, nosozlik>>
  BY DEF kuzatuvSkaniSora
<1>3. PTypeOK'
  <2>1. bosildi' \in 0..MaxBosish  BY <1>1, <1>2, PanelFarazi DEF PTypeOK
  <2>. QED  BY <1>1, <1>2, <2>1 DEF PTypeOK
<1>4. RoyxatBirSkandan'  BY <1>1, <1>2, RoyxatTurgunL
<1>5. YurmoqdaRost'  BY <1>1, <1>2 DEF YurmoqdaRost
<1>6. Sorovlar'
  <2>. DEFINE a == Bayroq(vazifa["sorov"].pc = "olindi")
              c == Bayroq(sorov)
  <2>1. a \in {0, 1} /\ c \in {0, 1}  BY DEF Bayroq
  <2>2. sorovSkan + a + c <= bosildi  BY <1>1 DEF Sorovlar
  <2>3. Sorovlar' <=> sorovSkan + a + 1 <= bosildi + 1  BY <1>2 DEF Sorovlar, Bayroq
  <2>4. sorovSkan \in Nat /\ bosildi \in Nat  BY <1>1 DEF PTypeOK
  <2>. HIDE DEF a, c
  <2>. QED  BY <2>1, <2>2, <2>3, <2>4
<1>. QED  BY <1>3, <1>4, <1>5, <1>6 DEF PanelInv

\* A restart loses the scans, the stream and the requests already taken.
LEMMA UzilishL ==
  ASSUME PanelInv, Uziladi PROVE PanelInv'
<1>1. PTypeOK /\ RoyxatBirSkandan /\ YurmoqdaRost /\ Sorovlar  BY DEF PanelInv
<1>2. /\ nosozlik < MaxNosozlik /\ nosozlik' = nosozlik + 1
      /\ tashlandi' = (tashlandi \/ \E t \in Skanerlar : vazifa[t].pc \in {"skan", "yozdi"})
      /\ oqim' = {} /\ jonli' = BoshJonli
      /\ vazifa' = [t \in Skanerlar |-> BoshVazifa]
      /\ UNCHANGED <<holatlar, skan, sorov, kbozor, oxirgiSkan, sorovSkan, bosildi>>
  BY DEF Uziladi
<1>3. PTypeOK'
  <2>1. nosozlik' \in 0..MaxNosozlik  BY <1>1, <1>2, PanelFarazi DEF PTypeOK
  <2>2. vazifa' \in [Skanerlar -> VazifaTuri] /\ jonli' \in JonliTuri
    BY <1>2 DEF BoshVazifa, VazifaTuri, BoshJonli, JonliTuri
  <2>3. tashlandi' \in BOOLEAN  BY <1>2
  <2>. QED  BY <1>1, <1>2, <2>1, <2>2, <2>3 DEF PTypeOK, VazifaTuri, JonliTuri
<1>4. RoyxatBirSkandan'  BY <1>1, <1>2, RoyxatTurgunL
<1>5. YurmoqdaRost'  BY <1>1, <1>2 DEF YurmoqdaRost
<1>6. Sorovlar'
  <2>. DEFINE a == Bayroq(vazifa["sorov"].pc = "olindi")
              c == Bayroq(sorov)
  <2>1. a \in {0, 1} /\ c \in {0, 1}  BY DEF Bayroq
  <2>2. sorovSkan + a + c <= bosildi  BY <1>1 DEF Sorovlar
  <2>3. vazifa'["sorov"].pc = "kutish"  BY <1>2 DEF BoshVazifa, Skanerlar
  <2>4. Sorovlar' <=> sorovSkan + 0 + c <= bosildi  BY <1>2, <2>3 DEF Sorovlar, Bayroq
  <2>5. sorovSkan \in Nat /\ bosildi \in Nat  BY <1>1 DEF PTypeOK
  <2>. HIDE DEF a, c
  <2>. QED  BY <2>1, <2>2, <2>4, <2>5
<1>. QED  BY <1>3, <1>4, <1>5, <1>6 DEF PanelInv

LEMMA QadamL ==
  ASSUME PanelInv, [PNext]_pvars PROVE PanelInv'
<1>1. CASE PNext
  <2>1. ASSUME NEW t \in Skanerlar, Skaner(t) PROVE PanelInv'
    BY <2>1, SkanBoshlanadiL, SkanYozadiL, SkanYiqiladiL, SkanTugaydiL, JonliOchiriladiL,
       SkanUziladiL DEF Skaner
  <2>. QED  BY <1>1, <2>1, SorovOlinadiL, JonliL, SorashL, UzilishL DEF PNext
<1>2. CASE UNCHANGED pvars
  <2>1. RoyxatBirSkandan'  BY <1>2, RoyxatTurgunL DEF PanelInv, pvars
  <2>. QED
    BY <1>2, <2>1 DEF PanelInv, PTypeOK, YurmoqdaRost, Sorovlar, Bayroq, pvars
<1>. QED  BY <1>1, <1>2

LEMMA ButunL == PanelInv => RoyxatButun
<1>. SUFFICES ASSUME PanelInv PROVE RoyxatButun  OBVIOUS
<1>. DEFINE a == Bayroq(vazifa["sorov"].pc = "olindi")
            c == Bayroq(sorov)
<1>1. a \in {0, 1} /\ c \in {0, 1}  BY DEF Bayroq
<1>2. sorovSkan + a + c <= bosildi  BY DEF PanelInv, Sorovlar
<1>3. sorovSkan \in Nat /\ bosildi \in Nat  BY DEF PanelInv, PTypeOK
<1>. HIDE DEF a, c
<1>4. SorovBirMarta  BY <1>1, <1>2, <1>3 DEF SorovBirMarta
<1>. QED  BY <1>4 DEF PanelInv, RoyxatButun

\* Whatever two scans at once, failed writes, restarts and presses of "update
\* now" do: the lists, the status line and the scans made on request are those of
\* real scans (scheduler.py's _kuzatuv_skani and _kuzatuv_sorovi).
THEOREM RoyxatTeoremasi == PSpec => []RoyxatButun
<1>1. PInit => PanelInv  BY BoshidaL
<1>2. PanelInv /\ [PNext]_pvars => PanelInv'  BY QadamL
<1>. QED  BY <1>1, <1>2, ButunL, PTL DEF PSpec
-----------------------------------------------------------------------------
\* The search

QidiruvInv ==
    /\ kun \in 0..MaxKun /\ soni \in Nat /\ tarif \in Tariflar /\ eng \in Nat
    /\ Chegara[tarif] <= eng
    /\ BugunChegarada

\* Whatever tiers come and end during the day (queries.ts's qidiruvIshlat): no
\* more coins are shown than the highest of them allows, and a refusal is not
\* charged.
THEOREM QidiruvTeoremasi == QSpec => []BugunChegarada
<1>0. Chegara \in [Tariflar -> Nat] /\ MaxKun \in Nat  BY QidiruvFarazi
<1>1. InitQ => QidiruvInv  BY <1>0 DEF InitQ, QidiruvInv, BugunChegarada
<1>2. QidiruvInv /\ [QNext]_<<pvars, qvars>> => QidiruvInv'
  <2>. SUFFICES ASSUME QidiruvInv, [QNext]_<<pvars, qvars>> PROVE QidiruvInv'  OBVIOUS
  <2>0. /\ kun \in 0..MaxKun /\ soni \in Nat /\ tarif \in Tariflar /\ eng \in Nat
        /\ Chegara[tarif] <= eng /\ berildi <= eng /\ soni = berildi
    BY DEF QidiruvInv, BugunChegarada
  <2>1. CASE Qidir
    <3>1. Chegara[tarif] \in Nat  BY <1>0, <2>0
    <3>. QED  BY <2>0, <2>1, <3>1
           DEF Qidir, qidiruvIshlat, mumkin, QidiruvInv, BugunChegarada
  <2>2. CASE TarifOzgaradi
    <3>1. PICK t \in Tariflar : tarif' = t /\ eng' = IF Chegara[t] > eng THEN Chegara[t] ELSE eng
      BY <2>2 DEF TarifOzgaradi
    <3>2. Chegara[t] \in Nat  BY <1>0
    <3>3. kun' = kun /\ soni' = soni /\ berildi' = berildi  BY <2>2 DEF TarifOzgaradi
    <3>. QED  BY <2>0, <3>1, <3>2, <3>3 DEF QidiruvInv, BugunChegarada
  <2>3. CASE YangiKun
    BY <1>0, <2>0, <2>3 DEF YangiKun, QidiruvInv, BugunChegarada
  <2>4. CASE UNCHANGED qvars
    BY <2>4 DEF qvars, QidiruvInv, BugunChegarada
  <2>. QED  BY <2>1, <2>2, <2>3, <2>4 DEF QNext
<1>3. QidiruvInv => BugunChegarada  BY DEF QidiruvInv
<1>. QED  BY <1>1, <1>2, <1>3, PTL DEF QSpec
=============================================================================
