------------------------------- MODULE SaytIsboti -------------------------------
(* Proofs about the rows the site and the bot both write, about the bot's        *)
(* dialogs, and about the container and the schema of its database: for any      *)
(* users, ids, prices and limits, any number of messages at once, any            *)
(* interleaving of the two processes with the admin and the timer, and any       *)
(* number of crashes, starts and downgrades.                                     *)
EXTENDS Postlar, Darslar, Formalar, Konteyner, SxemaYoli, FiniteSetTheorems, SequenceTheorems,
        WellFoundedInduction, TLAPS

(*********************************** Positions **********************************)

FormaTuri == [signal : Idlar, narx : Narxlar]
SaqlashTuri == [signal : Idlar, narx : Narxlar \cup {Yoq}]

\* A price is the row's, or of an id that was deleted at least once.
NarxiBor(s, q, id, n) == id \in q \/ (s[id] # Yoq /\ s[id].narx = n)

NarxlarTogri ==
    /\ \A o \in Odamlar, id \in Idlar : \A i \in DOMAIN pozitsiyalar[o][id] :
          NarxiBor(signallar, qaytgan, id, pozitsiyalar[o][id][i])
    /\ \A o \in Odamlar : formalar[o] # Yoq =>
          NarxiBor(signallar, qaytgan, formalar[o].signal, formalar[o].narx)
    /\ \A o \in Odamlar : \A i \in DOMAIN saqlash[o] :
          saqlash[o][i].narx # Yoq =>
             NarxiBor(signallar, qaytgan, saqlash[o][i].signal, saqlash[o][i].narx)

PTuri ==
    /\ signallar \in [Idlar -> Qator \cup {Yoq}]
    /\ pozitsiyalar \in [Odamlar -> [Idlar -> Seq(Narxlar)]]
    /\ formalar \in [Odamlar -> FormaTuri \cup {Yoq}]
    /\ saqlash \in [Odamlar -> Seq(SaqlashTuri)]
    /\ \A o \in Odamlar : Len(saqlash[o]) <= MaxXabar
    /\ kun \in Nat /\ yozilgan \in 0..MaxSignal /\ qaytgan \subseteq Idlar

\* An open form and a call under way carry a price too: it is right for as long as
\* its signal has not been deleted, which NarxSignaldan alone does not say.
PInv == PTuri /\ YetimYoq /\ BirPozitsiya /\ NarxlarTogri

LEMMA EngKichikL ==
  ASSUME NEW T, T \subseteq Nat, T # {}
  PROVE  \E x \in T : \A y \in T : x <= y
<1>1. PICK x \in T : \A y \in T : ~(<<y, x>> \in OpToRel(<, Nat))
  BY NatLessThanWellFounded, WFMin
<1>2. \A y \in T : ~(y < x)  BY <1>1 DEF OpToRel
<1>. QED  BY <1>2

\* A set of numbers below a bound has a greatest.
LEMMA EngKattaL ==
  ASSUME NEW S, S \subseteq Nat, S # {}, NEW N \in Nat, \A x \in S : x <= N
  PROVE  Max(S) \in S /\ \A y \in S : y <= Max(S)
<1>. DEFINE B == {b \in Nat : \A x \in S : x <= b}
<1>1. B \subseteq Nat /\ B # {}  OBVIOUS
<1>2. PICK b \in B : \A c \in B : b <= c  BY <1>1, EngKichikL
<1>3. b \in S
  <2>. SUFFICES ASSUME b \notin S PROVE FALSE  OBVIOUS
  <2>1. b \in Nat /\ \A x \in S : x <= b  BY <1>2
  <2>2. PICK x \in S : TRUE  OBVIOUS
  <2>3. b # 0  BY <2>1, <2>2
  <2>4. b - 1 \in Nat  BY <2>1, <2>3
  <2>5. \A y \in S : y <= b - 1
    <3>. TAKE y \in S
    <3>1. y \in Nat /\ y <= b /\ y # b  BY <2>1
    <3>. QED  BY <2>1, <3>1
  <2>6. b - 1 \in B  BY <2>4, <2>5
  <2>7. b <= b - 1  BY <1>2, <2>6
  <2>. QED  BY <2>1, <2>7
<1>4. \E x \in S : \A y \in S : x >= y
  <2>1. \A y \in S : b >= y  BY <1>2
  <2>. QED  BY <1>3, <2>1
<1>5. Max(S) \in S /\ \A y \in S : Max(S) >= y  BY <1>4 DEF Max
<1>. QED  BY <1>5

\* A new row never takes the place of another.
LEMMA YangiIdL ==
  ASSUME YangiId \in Idlar
  PROVE  ~Bor(YangiId)
<1>. DEFINE S == {0} \cup {id \in Idlar : Bor(id)}
<1>1. PICK N \in Nat : Idlar = 1..N
  <2>1. Cardinality(Idlar) \in Nat  BY PozitsiyaFarazi, FS_CardinalityType
  <2>. QED  BY <2>1, PozitsiyaFarazi
<1>2. S \subseteq Nat /\ S # {} /\ \A x \in S : x <= N  BY <1>1
<1>3. Max(S) \in S /\ \A y \in S : y <= Max(S)
  <2>. HIDE DEF S
  <2>. QED  BY <1>2, EngKattaL
<1>4. YangiId = 1 + Max(S)  BY DEF YangiId
<1>5. Max(S) \in Nat  BY <1>2, <1>3
<1>6. Bor(YangiId) => YangiId \in S  OBVIOUS
<1>. HIDE DEF S
<1>. QED  BY <1>3, <1>4, <1>5, <1>6

LEMMA PBoshL ==
  ASSUME PInit PROVE PInv
<1>1. {MaxSignal, MaxXabar} \subseteq Nat  BY PozitsiyaFarazi
<1>2. <<>> \in Seq(Narxlar) /\ <<>> \in Seq(SaqlashTuri) /\ Len(<<>>) = 0 /\ DOMAIN <<>> = {}
  OBVIOUS
<1>3. PTuri  BY <1>1, <1>2 DEF PInit, PTuri
<1>4. YetimYoq /\ BirPozitsiya  BY <1>2 DEF PInit, YetimYoq, BirPozitsiya
<1>5. NarxlarTogri  BY <1>2 DEF PInit, NarxlarTogri
<1>. QED  BY <1>3, <1>4, <1>5 DEF PInv

\* What holds of prices survives every step that leaves the rows' prices alone, or
\* remembers the deletion.
LEMMA NarxiTurgunL ==
  ASSUME \A id \in Idlar : id \in qaytgan => id \in qaytgan',
         \A id \in Idlar : Bor(id) =>
            \/ id \in qaytgan'
            \/ Bor(id)' /\ signallar'[id].narx = signallar[id].narx
  PROVE  \A id \in Idlar, n \in Narxlar :
            NarxiBor(signallar, qaytgan, id, n) => NarxiBor(signallar', qaytgan', id, n)
BY DEF NarxiBor, Bor

\* The forms and the calls are as before, and no position has been added.
LEMMA SignalQadamiL ==
  ASSUME PInv, UNCHANGED <<formalar, saqlash>>,
         signallar' \in [Idlar -> Qator \cup {Yoq}], kun' \in Nat, yozilgan' \in 0..MaxSignal,
         qaytgan \subseteq qaytgan', qaytgan' \subseteq Idlar,
         \A id \in Idlar : Bor(id) =>
            \/ id \in qaytgan'
            \/ Bor(id)' /\ signallar'[id].narx = signallar[id].narx,
         pozitsiyalar' \in [Odamlar -> [Idlar -> Seq(Narxlar)]],
         \A o \in Odamlar, id \in Idlar :
            \/ pozitsiyalar'[o][id] = <<>>
            \/ pozitsiyalar'[o][id] = pozitsiyalar[o][id] /\ (Bor(id) => Bor(id)')
  PROVE  PInv'
<1>1. PTuri /\ YetimYoq /\ BirPozitsiya /\ NarxlarTogri  BY DEF PInv
<1>2. PTuri'  BY <1>1 DEF PTuri
<1>3. Len(<<>>) = 0 /\ DOMAIN <<>> = {}  OBVIOUS
<1>4. YetimYoq'  BY <1>1 DEF YetimYoq
<1>5. BirPozitsiya'  BY <1>1, <1>3 DEF BirPozitsiya
<1>6. \A id \in Idlar, n \in Narxlar :
            NarxiBor(signallar, qaytgan, id, n) => NarxiBor(signallar', qaytgan', id, n)  BY NarxiTurgunL
<1>7. NarxlarTogri'
  <2>1. ASSUME NEW o \in Odamlar, NEW id \in Idlar, NEW i \in DOMAIN pozitsiyalar'[o][id]
        PROVE  NarxiBor(signallar', qaytgan', id, pozitsiyalar'[o][id][i])
    <3>1. pozitsiyalar'[o][id] = pozitsiyalar[o][id]  BY <1>3, <2>1
    <3>2. i \in DOMAIN pozitsiyalar[o][id] /\ pozitsiyalar[o][id] \in Seq(Narxlar)
      BY <1>1, <3>1 DEF PTuri
    <3>3. pozitsiyalar[o][id][i] \in Narxlar  BY <3>2
    <3>4. NarxiBor(signallar, qaytgan, id, pozitsiyalar[o][id][i])  BY <1>1, <3>2 DEF NarxlarTogri
    <3>5. PICK n \in Narxlar : n = pozitsiyalar[o][id][i]  BY <3>3
    <3>6. NarxiBor(signallar', qaytgan', id, n)  BY <1>6, <3>4, <3>5
    <3>. QED  BY <3>1, <3>5, <3>6 DEF NarxiBor
  <2>2. ASSUME NEW o \in Odamlar, formalar'[o] # Yoq
        PROVE  NarxiBor(signallar', qaytgan', formalar'[o].signal, formalar'[o].narx)
    <3>1. formalar[o] \in FormaTuri /\ formalar'[o] = formalar[o]  BY <1>1, <2>2 DEF PTuri
    <3>2. PICK id \in Idlar, n \in Narxlar : id = formalar[o].signal /\ n = formalar[o].narx
      BY <3>1 DEF FormaTuri
    <3>3. NarxiBor(signallar, qaytgan, id, n)  BY <1>1, <2>2, <3>1, <3>2 DEF NarxlarTogri
    <3>4. NarxiBor(signallar', qaytgan', id, n)  BY <1>6, <3>3
    <3>. QED  BY <3>1, <3>2, <3>4 DEF NarxiBor
  <2>3. ASSUME NEW o \in Odamlar, NEW i \in DOMAIN saqlash'[o], saqlash'[o][i].narx # Yoq
        PROVE  NarxiBor(signallar', qaytgan', saqlash'[o][i].signal, saqlash'[o][i].narx)
    <3>1. saqlash[o] \in Seq(SaqlashTuri) /\ saqlash'[o] = saqlash[o]  BY <1>1 DEF PTuri
    <3>2. saqlash[o][i] \in SaqlashTuri  BY <2>3, <3>1
    <3>3. PICK id \in Idlar, n \in Narxlar : id = saqlash[o][i].signal /\ n = saqlash[o][i].narx
      BY <2>3, <3>1, <3>2 DEF SaqlashTuri
    <3>4. NarxiBor(signallar, qaytgan, id, n)  BY <1>1, <2>3, <3>1, <3>3 DEF NarxlarTogri
    <3>5. NarxiBor(signallar', qaytgan', id, n)  BY <1>6, <3>4
    <3>. QED  BY <3>1, <3>3, <3>5 DEF NarxiBor
  <2>. QED  BY <2>1, <2>2, <2>3 DEF NarxlarTogri
<1>. QED  BY <1>2, <1>4, <1>5, <1>7 DEF PInv

LEMMA signalYaratL ==
  ASSUME PInv, NEW n \in Narxlar, signalYarat(n)
  PROVE  PInv'
<1>1. PTuri /\ YetimYoq  BY DEF PInv
<1>2. PICK y \in Idlar : y = YangiId  BY DEF signalYarat
<1>3. ~Bor(y)  BY <1>2, YangiIdL
<1>. DEFINE q == [holat |-> "pending", narx |-> n, tarqatildi |-> Yoq, tp1 |-> Yoq, tp2 |-> Yoq]
<1>4. q \in Qator  BY DEF Qator, Holatlar
<1>5. /\ yozilgan < MaxSignal /\ signallar' = [signallar EXCEPT ![y] = q]
      /\ yozilgan' = yozilgan + 1
      /\ UNCHANGED <<pozitsiyalar, formalar, saqlash, kun, qaytgan>>
  BY <1>2 DEF signalYarat
<1>. HIDE DEF q
<1>6. /\ signallar' \in [Idlar -> Qator \cup {Yoq}]
      /\ \A id \in Idlar : Bor(id) => signallar'[id] = signallar[id]
  BY <1>1, <1>3, <1>4, <1>5 DEF PTuri, Bor
<1>7. yozilgan' \in 0..MaxSignal /\ kun' \in Nat  BY <1>1, <1>5, PozitsiyaFarazi DEF PTuri
<1>8. qaytgan \subseteq qaytgan' /\ qaytgan' \subseteq Idlar  BY <1>1, <1>5 DEF PTuri
<1>9. \A id \in Idlar : Bor(id) => Bor(id)' /\ signallar'[id].narx = signallar[id].narx
  BY <1>6 DEF Bor
<1>10. pozitsiyalar' \in [Odamlar -> [Idlar -> Seq(Narxlar)]]  BY <1>1, <1>5 DEF PTuri
<1>. QED  BY <1>5, <1>6, <1>7, <1>8, <1>9, <1>10, SignalQadamiL

LEMMA signalOchirL ==
  ASSUME PInv, NEW d \in Idlar, signalOchir(d)
  PROVE  PInv'
<1>1. PTuri  BY DEF PInv
<1>2. /\ signallar' = [signallar EXCEPT ![d] = Yoq]
      /\ pozitsiyalar' = [o \in Odamlar |-> [pozitsiyalar[o] EXCEPT ![d] = <<>>]]
      /\ qaytgan' = qaytgan \cup {d}
      /\ UNCHANGED <<formalar, saqlash, kun, yozilgan>>
  BY DEF signalOchir
<1>3. /\ signallar' \in [Idlar -> Qator \cup {Yoq}]
      /\ \A id \in Idlar \ {d} : signallar'[id] = signallar[id]
  BY <1>1, <1>2 DEF PTuri
<1>4. pozitsiyalar' \in [Odamlar -> [Idlar -> Seq(Narxlar)]]
  <2>1. <<>> \in Seq(Narxlar)  OBVIOUS
  <2>. QED  BY <1>1, <1>2, <2>1 DEF PTuri
<1>5. ASSUME NEW o \in Odamlar, NEW id \in Idlar
      PROVE  \/ pozitsiyalar'[o][id] = <<>>
             \/ pozitsiyalar'[o][id] = pozitsiyalar[o][id] /\ (Bor(id) => Bor(id)')
  <2>1. pozitsiyalar'[o] = [pozitsiyalar[o] EXCEPT ![d] = <<>>]  BY <1>2
  <2>2. pozitsiyalar[o] \in [Idlar -> Seq(Narxlar)]  BY <1>1 DEF PTuri
  <2>3. CASE id = d  BY <2>1, <2>2, <2>3
  <2>4. CASE id # d
    <3>1. pozitsiyalar'[o][id] = pozitsiyalar[o][id]  BY <2>1, <2>2, <2>4
    <3>2. signallar'[id] = signallar[id]  BY <1>3, <2>4
    <3>. QED  BY <3>1, <3>2 DEF Bor
  <2>. QED  BY <2>3, <2>4
<1>6. \A id \in Idlar : Bor(id) =>
         \/ id \in qaytgan'
         \/ Bor(id)' /\ signallar'[id].narx = signallar[id].narx
  BY <1>2, <1>3 DEF Bor
<1>7. qaytgan \subseteq qaytgan' /\ qaytgan' \subseteq Idlar /\ kun' \in Nat
      /\ yozilgan' \in 0..MaxSignal
  BY <1>1, <1>2 DEF PTuri
<1>. QED  BY <1>2, <1>3, <1>4, <1>5, <1>6, <1>7, SignalQadamiL

\* A step that changes an open row and not its price.
LEMMA QatorQadamiL ==
  ASSUME PInv, NEW d \in Idlar, NEW q \in Qator, Bor(d), q.narx = signallar[d].narx,
         signallar' = [signallar EXCEPT ![d] = q],
         UNCHANGED <<pozitsiyalar, formalar, saqlash, kun, yozilgan, qaytgan>>
  PROVE  PInv'
<1>1. PTuri  BY DEF PInv
<1>2. /\ signallar' \in [Idlar -> Qator \cup {Yoq}] /\ signallar'[d] = q
      /\ \A id \in Idlar \ {d} : signallar'[id] = signallar[id]
  BY <1>1 DEF PTuri
<1>3. \A id \in Idlar : Bor(id) => Bor(id)' /\ signallar'[id].narx = signallar[id].narx
  BY <1>2, YoqFarazi DEF Bor
<1>4. /\ qaytgan \subseteq qaytgan' /\ qaytgan' \subseteq Idlar /\ kun' \in Nat
      /\ yozilgan' \in 0..MaxSignal
      /\ pozitsiyalar' \in [Odamlar -> [Idlar -> Seq(Narxlar)]]
  BY <1>1 DEF PTuri
<1>5. \A o \in Odamlar, id \in Idlar :
         pozitsiyalar'[o][id] = pozitsiyalar[o][id] /\ (Bor(id) => Bor(id)')
  BY <1>3
<1>. QED  BY <1>2, <1>3, <1>4, <1>5, SignalQadamiL

LEMMA apply_eventL ==
  ASSUME PInv, NEW d \in Idlar, NEW h \in Holatlar, apply_event(d, h)
  PROVE  PInv'
<1>1. PTuri  BY DEF PInv
<1>. DEFINE q == [signallar[d] EXCEPT !.holat = h,
                     !.tp1 = IF h = "tp1_hit" THEN kun ELSE @,
                     !.tp2 = IF h = "tp2_hit" THEN kun ELSE @]
<1>2. Bor(d) /\ signallar[d] \in Qator  BY <1>1 DEF apply_event, PTuri, Bor
<1>3. q \in Qator /\ q.narx = signallar[d].narx
  <2>1. kun \in Nat  BY <1>1 DEF PTuri
  <2>. QED  BY <1>2, <2>1 DEF Qator
<1>4. signallar' = [signallar EXCEPT ![d] = q]
  BY <1>1, <1>2 DEF apply_event, PTuri, Qator
<1>5. UNCHANGED <<pozitsiyalar, formalar, saqlash, kun, yozilgan, qaytgan>>  BY DEF apply_event
<1>. HIDE DEF q
<1>. QED  BY <1>2, <1>3, <1>4, <1>5, QatorQadamiL

LEMMA TarqatiladiL ==
  ASSUME PInv, NEW d \in Idlar, Tarqatiladi(d)
  PROVE  PInv'
<1>1. PTuri  BY DEF PInv
<1>. DEFINE q == [signallar[d] EXCEPT !.tarqatildi = kun]
<1>2. Bor(d) /\ signallar[d] \in Qator  BY <1>1 DEF Tarqatiladi, PTuri, Bor
<1>3. q \in Qator /\ q.narx = signallar[d].narx
  <2>1. kun \in Nat  BY <1>1 DEF PTuri
  <2>. QED  BY <1>2, <2>1 DEF Qator
<1>4. signallar' = [signallar EXCEPT ![d] = q]  BY <1>1, <1>2 DEF Tarqatiladi, PTuri, Qator
<1>5. UNCHANGED <<pozitsiyalar, formalar, saqlash, kun, yozilgan, qaytgan>>  BY DEF Tarqatiladi
<1>. HIDE DEF q
<1>. QED  BY <1>2, <1>3, <1>4, <1>5, QatorQadamiL

\* A day goes by.
LEMMA KunL ==
  ASSUME PInv, kun' \in Nat,
         UNCHANGED <<signallar, pozitsiyalar, formalar, saqlash, yozilgan, qaytgan>>
  PROVE  PInv'
BY DEF PInv, PTuri, YetimYoq, BirPozitsiya, NarxlarTogri, Bor, NarxiBor

-----------------------------------------------------------------------------
\* The forms

\* The rows do not change; a form and a call that are new carry a price that is right.
LEMMA FormaQadamiL ==
  ASSUME PInv, UNCHANGED <<signallar, kun, yozilgan, qaytgan>>,
         pozitsiyalar' \in [Odamlar -> [Idlar -> Seq(Narxlar)]],
         formalar' \in [Odamlar -> FormaTuri \cup {Yoq}],
         saqlash' \in [Odamlar -> Seq(SaqlashTuri)],
         \A o \in Odamlar : Len(saqlash'[o]) <= MaxXabar,
         \A o \in Odamlar, id \in Idlar :
            \/ pozitsiyalar'[o][id] = pozitsiyalar[o][id]
            \/ /\ Bor(id) /\ Len(pozitsiyalar'[o][id]) = 1
               /\ NarxiBor(signallar, qaytgan, id, pozitsiyalar'[o][id][1]),
         \A o \in Odamlar :
            \/ formalar'[o] = formalar[o] \/ formalar'[o] = Yoq
            \/ NarxiBor(signallar, qaytgan, formalar'[o].signal, formalar'[o].narx),
         \A o \in Odamlar : \A i \in DOMAIN saqlash'[o] :
            \/ \E k \in DOMAIN saqlash[o] : saqlash'[o][i] = saqlash[o][k]
            \/ saqlash'[o][i].narx = Yoq
            \/ NarxiBor(signallar, qaytgan, saqlash'[o][i].signal, saqlash'[o][i].narx)
  PROVE  PInv'
<1>1. PTuri /\ YetimYoq /\ BirPozitsiya /\ NarxlarTogri  BY DEF PInv
<1>2. PTuri'  BY <1>1 DEF PTuri
<1>3. YetimYoq'  BY <1>1 DEF YetimYoq, Bor
<1>4. BirPozitsiya'
  <2>. SUFFICES ASSUME NEW o \in Odamlar, NEW id \in Idlar
                PROVE  Len(pozitsiyalar'[o][id]) <= 1
    BY DEF BirPozitsiya
  <2>1. CASE pozitsiyalar'[o][id] = pozitsiyalar[o][id]  BY <1>1, <2>1 DEF BirPozitsiya
  <2>2. CASE Len(pozitsiyalar'[o][id]) = 1  BY <2>2
  <2>. QED  BY <2>1, <2>2
<1>5. NarxlarTogri'
  <2>1. ASSUME NEW o \in Odamlar, NEW id \in Idlar, NEW i \in DOMAIN pozitsiyalar'[o][id]
        PROVE  NarxiBor(signallar, qaytgan, id, pozitsiyalar'[o][id][i])
    <3>1. CASE pozitsiyalar'[o][id] = pozitsiyalar[o][id]
      BY <1>1, <3>1 DEF NarxlarTogri
    <3>2. CASE Len(pozitsiyalar'[o][id]) = 1
               /\ NarxiBor(signallar, qaytgan, id, pozitsiyalar'[o][id][1])
      <4>1. pozitsiyalar'[o][id] \in Seq(Narxlar)  OBVIOUS
      <4>2. i = 1  BY <3>2, <4>1
      <4>. QED  BY <3>2, <4>2
    <3>. QED  BY <3>1, <3>2
  <2>2. ASSUME NEW o \in Odamlar, formalar'[o] # Yoq
        PROVE  NarxiBor(signallar, qaytgan, formalar'[o].signal, formalar'[o].narx)
    BY <1>1, <2>2 DEF NarxlarTogri
  <2>3. ASSUME NEW o \in Odamlar, NEW i \in DOMAIN saqlash'[o], saqlash'[o][i].narx # Yoq
        PROVE  NarxiBor(signallar, qaytgan, saqlash'[o][i].signal, saqlash'[o][i].narx)
    BY <1>1, <2>3 DEF NarxlarTogri
  <2>. QED  BY <2>1, <2>2, <2>3 DEF NarxlarTogri
<1>. QED  BY <1>2, <1>3, <1>4, <1>5 DEF PInv

\* A step that leaves forms, calls or positions alone.
LEMMA OzgarmaganL ==
  ASSUME PInv
  PROVE  /\ pozitsiyalar \in [Odamlar -> [Idlar -> Seq(Narxlar)]]
         /\ formalar \in [Odamlar -> FormaTuri \cup {Yoq}]
         /\ saqlash \in [Odamlar -> Seq(SaqlashTuri)]
         /\ \A o \in Odamlar : Len(saqlash[o]) <= MaxXabar
BY DEF PInv, PTuri

LEMMA ask_position_amountL ==
  ASSUME PInv, NEW o \in Odamlar, NEW id \in Idlar, ask_position_amount(o, id)
  PROVE  PInv'
<1>1. PTuri  BY DEF PInv
<1>. DEFINE f == [signal |-> id, narx |-> signallar[id].narx]
<1>2. /\ Bor(id) /\ formalar' = [formalar EXCEPT ![o] = f]
      /\ UNCHANGED <<signallar, pozitsiyalar, saqlash, kun, yozilgan, qaytgan>>
  BY DEF ask_position_amount, FormaMalumoti
<1>3. f \in FormaTuri /\ f.signal = id /\ f.narx = signallar[id].narx
  BY <1>1, <1>2 DEF FormaTuri, PTuri, Bor, Qator
<1>. HIDE DEF f
<1>4. NarxiBor(signallar, qaytgan, f.signal, f.narx)  BY <1>2, <1>3 DEF NarxiBor, Bor
<1>5. /\ formalar' \in [Odamlar -> FormaTuri \cup {Yoq}] /\ formalar'[o] = f
      /\ \A u \in Odamlar \ {o} : formalar'[u] = formalar[u]
  BY <1>1, <1>2, <1>3 DEF PTuri
<1>. QED  BY <1>2, <1>4, <1>5, OzgarmaganL, FormaQadamiL

LEMMA SaqlashOqiydiL ==
  ASSUME PInv, NEW o \in Odamlar, SaqlashOqiydi(o)
  PROVE  PInv'
<1>1. PTuri /\ NarxlarTogri  BY DEF PInv
<1>2. /\ formalar[o] # Yoq /\ Len(saqlash[o]) < MaxXabar
      /\ saqlash' = [saqlash EXCEPT ![o] = Append(@, formalar[o])]
      /\ UNCHANGED <<signallar, pozitsiyalar, formalar, kun, yozilgan, qaytgan>>
  BY DEF SaqlashOqiydi
<1>3. PICK f \in FormaTuri : f = formalar[o]  BY <1>1, <1>2 DEF PTuri
<1>4. PICK s \in Seq(SaqlashTuri) : s = saqlash[o]  BY <1>1 DEF PTuri
<1>5. f \in SaqlashTuri  BY DEF FormaTuri, SaqlashTuri
<1>6. /\ Append(s, f) \in Seq(SaqlashTuri) /\ Len(Append(s, f)) = Len(s) + 1
      /\ \A i \in DOMAIN Append(s, f) :
            Append(s, f)[i] = f \/ (i \in DOMAIN s /\ Append(s, f)[i] = s[i])
  BY <1>5
<1>7. saqlash' = [saqlash EXCEPT ![o] = Append(s, f)]  BY <1>2, <1>3, <1>4
<1>8. /\ saqlash' \in [Odamlar -> Seq(SaqlashTuri)] /\ saqlash'[o] = Append(s, f)
      /\ \A u \in Odamlar \ {o} : saqlash'[u] = saqlash[u]
  BY <1>1, <1>6, <1>7 DEF PTuri
<1>9. NarxiBor(signallar, qaytgan, f.signal, f.narx)  BY <1>1, <1>2, <1>3 DEF NarxlarTogri
<1>10. \A u \in Odamlar : Len(saqlash'[u]) <= MaxXabar
  <2>1. Len(s) \in Nat /\ Len(s) < MaxXabar /\ MaxXabar \in Nat
    BY <1>2, <1>4, PozitsiyaFarazi
  <2>2. Len(Append(s, f)) <= MaxXabar  BY <1>6, <2>1
  <2>. QED  BY <1>1, <1>8, <2>2 DEF PTuri
<1>11. ASSUME NEW u \in Odamlar, NEW i \in DOMAIN saqlash'[u]
       PROVE  \/ \E k \in DOMAIN saqlash[u] : saqlash'[u][i] = saqlash[u][k]
              \/ NarxiBor(signallar, qaytgan, saqlash'[u][i].signal, saqlash'[u][i].narx)
  <2>1. CASE u = o
    <3>1. saqlash'[u] = Append(s, f) /\ saqlash[u] = s  BY <1>4, <1>8, <2>1
    <3>. QED  BY <1>6, <1>9, <1>11, <3>1
  <2>2. CASE u # o  BY <1>8, <1>11, <2>2
  <2>. QED  BY <2>1, <2>2
<1>. QED  BY <1>2, <1>8, <1>10, <1>11, OzgarmaganL, FormaQadamiL

\* Of a list of calls one is taken out.
LEMMA BirKamL ==
  ASSUME NEW s \in Seq(SaqlashTuri), NEW i \in DOMAIN s
  PROVE  /\ RemoveAt(s, i) \in Seq(SaqlashTuri) /\ Len(RemoveAt(s, i)) <= Len(s)
         /\ \A k \in DOMAIN RemoveAt(s, i) : \E m \in DOMAIN s : RemoveAt(s, i)[k] = s[m]
<1>1. i \in 1..Len(s) /\ Len(s) \in Nat  OBVIOUS
<1>. DEFINE a == SubSeq(s, 1, i - 1)
            b == SubSeq(s, i + 1, Len(s))
<1>2. a \in Seq(SaqlashTuri) /\ Len(a) = i - 1 /\ \A k \in 1..(i - 1) : a[k] = s[k]
  BY <1>1
<1>3. /\ b \in Seq(SaqlashTuri) /\ Len(b) = Len(s) - i
      /\ \A k \in 1..(Len(s) - i) : b[k] = s[i + k]
  BY <1>1
<1>4. RemoveAt(s, i) = a \o b  BY DEF RemoveAt
<1>. HIDE DEF a, b
<1>5. /\ a \o b \in Seq(SaqlashTuri) /\ Len(a \o b) = Len(a) + Len(b)
      /\ \A k \in 1..(Len(a) + Len(b)) :
            (a \o b)[k] = IF k <= Len(a) THEN a[k] ELSE b[k - Len(a)]
  <2>1. a \in Seq(SaqlashTuri) /\ b \in Seq(SaqlashTuri)  BY <1>2, <1>3
  <2>. QED  BY <2>1, ConcatProperties
<1>6. ASSUME NEW k \in 1..(Len(s) - 1)
      PROVE  \E m \in DOMAIN s : (a \o b)[k] = s[m]
  <2>1. CASE k <= i - 1
    <3>1. /\ k \in 1..Len(s) /\ k \in 1..(i - 1) /\ k <= Len(a)
          /\ k \in 1..(Len(a) + Len(b))
      BY <1>1, <1>2, <1>3, <2>1
    <3>2. (a \o b)[k] = a[k] /\ a[k] = s[k]  BY <1>2, <1>5, <3>1
    <3>3. k \in DOMAIN s  BY <3>1
    <3>. QED  BY <3>2, <3>3
  <2>2. CASE k > i - 1
    <3>1. k - (i - 1) \in 1..(Len(s) - i)  BY <1>1, <2>2
    <3>2. Len(a) = i - 1 /\ k \in 1..(Len(a) + Len(b)) /\ ~(k <= Len(a))
      BY <1>1, <1>2, <1>3, <2>2
    <3>3. (a \o b)[k] = b[k - Len(a)]  BY <1>5, <3>2
    <3>4. (a \o b)[k] = b[k - (i - 1)]  BY <3>2, <3>3
    <3>5. PICK m \in DOMAIN s : m = i + (k - (i - 1))  BY <1>1, <3>1
    <3>6. (a \o b)[k] = s[m]  BY <1>3, <3>1, <3>4, <3>5
    <3>. QED  BY <3>6
  <2>3. k <= i - 1 \/ k > i - 1  BY <1>1
  <2>. QED  BY <2>1, <2>2, <2>3
<1>7. Len(a \o b) = Len(s) - 1 /\ DOMAIN (a \o b) = 1..(Len(s) - 1)
  <2>1. Len(a) + Len(b) = Len(s) - 1  BY <1>1, <1>2, <1>3
  <2>2. Len(a \o b) = Len(s) - 1  BY <1>5, <2>1
  <2>3. DOMAIN (a \o b) = 1..Len(a \o b)  BY <1>5
  <2>. QED  BY <2>2, <2>3
<1>8. Len(s) - 1 <= Len(s)  BY <1>1
<1>. QED  BY <1>4, <1>5, <1>6, <1>7, <1>8

LEMMA BittaL ==
  ASSUME NEW n \in Narxlar
  PROVE  \E p \in Seq(Narxlar) : p = Append(<<>>, n) /\ Len(p) = 1 /\ p[1] = n
<1>1. <<>> \in Seq(Narxlar)  OBVIOUS
<1>2. Append(<<>>, n) \in Seq(Narxlar) /\ Len(Append(<<>>, n)) = 1  BY <1>1
<1>3. Append(<<>>, n)[1] = n  BY <1>1
<1>. QED  BY <1>2, <1>3

LEMMA SaqlashYozadiL ==
  ASSUME PInv, NEW o \in Odamlar, NEW i \in DOMAIN saqlash[o], SaqlashYozadi(o, i)
  PROVE  PInv'
<1>1. PTuri /\ NarxlarTogri /\ YetimYoq  BY DEF PInv
<1>2. PICK s \in Seq(SaqlashTuri) : s = saqlash[o]  BY <1>1 DEF PTuri
<1>3. UNCHANGED <<signallar, formalar, kun, yozilgan, qaytgan>> /\ s[i].narx # Yoq
  BY <1>2 DEF SaqlashYozadi
<1>4. i \in DOMAIN s /\ s[i] \in SaqlashTuri  BY <1>2
<1>5. CASE Qabul(o, s[i].signal)
  <2>1. PICK id \in Idlar, n \in Narxlar : id = s[i].signal /\ n = s[i].narx
    BY <1>3, <1>4 DEF SaqlashTuri
  <2>2. /\ pozitsiyalar' = [pozitsiyalar EXCEPT ![o][id] = Append(@, n)]
        /\ saqlash' = [saqlash EXCEPT ![o][i].narx = Yoq]
    BY <1>2, <1>3, <1>5, <2>1 DEF SaqlashYozadi
  <2>3. Bor(id) /\ pozitsiyalar[o][id] = <<>>  BY <1>5, <2>1 DEF Qabul
  <2>4. NarxiBor(signallar, qaytgan, id, n)  BY <1>1, <1>2, <1>3, <1>4, <2>1 DEF NarxlarTogri
  <2>5. PICK p \in Seq(Narxlar) : p = Append(<<>>, n) /\ Len(p) = 1 /\ p[1] = n  BY BittaL
  <2>6. /\ pozitsiyalar' \in [Odamlar -> [Idlar -> Seq(Narxlar)]]
        /\ \A u \in Odamlar, d \in Idlar :
              pozitsiyalar'[u][d] = IF u = o /\ d = id THEN p ELSE pozitsiyalar[u][d]
    BY <1>1, <2>2, <2>3, <2>5 DEF PTuri
  <2>. DEFINE q == [s EXCEPT ![i].narx = Yoq]
  <2>7. /\ q \in Seq(SaqlashTuri) /\ Len(q) = Len(s) /\ DOMAIN q = DOMAIN s
        /\ \A k \in DOMAIN s : q[k] = s[k] \/ q[k].narx = Yoq
    <3>1. [s[i] EXCEPT !.narx = Yoq] \in SaqlashTuri /\ [s[i] EXCEPT !.narx = Yoq].narx = Yoq
      BY <1>4 DEF SaqlashTuri
    <3>2. q = [s EXCEPT ![i] = [s[i] EXCEPT !.narx = Yoq]]  OBVIOUS
    <3>. QED  BY <1>4, <3>1, <3>2
  <2>8. saqlash' = [saqlash EXCEPT ![o] = q]  BY <1>2, <2>2
  <2>. HIDE DEF q
  <2>9. /\ saqlash' \in [Odamlar -> Seq(SaqlashTuri)] /\ saqlash'[o] = q
        /\ \A u \in Odamlar \ {o} : saqlash'[u] = saqlash[u]
    BY <1>1, <2>7, <2>8 DEF PTuri
  <2>10. \A u \in Odamlar : Len(saqlash'[u]) <= MaxXabar
    BY <1>1, <1>2, <2>7, <2>9 DEF PTuri
  <2>11. \A u \in Odamlar : \A k \in DOMAIN saqlash'[u] :
            \/ \E m \in DOMAIN saqlash[u] : saqlash'[u][k] = saqlash[u][m]
            \/ saqlash'[u][k].narx = Yoq
    BY <1>2, <2>7, <2>9
  <2>12. \A u \in Odamlar, d \in Idlar :
            \/ pozitsiyalar'[u][d] = pozitsiyalar[u][d]
            \/ /\ Bor(d) /\ Len(pozitsiyalar'[u][d]) = 1
               /\ NarxiBor(signallar, qaytgan, d, pozitsiyalar'[u][d][1])
    BY <2>3, <2>4, <2>5, <2>6
  <2>. QED  BY <1>3, <2>6, <2>9, <2>10, <2>11, <2>12, OzgarmaganL, FormaQadamiL
<1>6. CASE ~Qabul(o, s[i].signal)
  <2>1. saqlash' = [saqlash EXCEPT ![o] = RemoveAt(s, i)] /\ UNCHANGED pozitsiyalar
    BY <1>2, <1>6 DEF SaqlashYozadi
  <2>2. /\ saqlash' \in [Odamlar -> Seq(SaqlashTuri)] /\ saqlash'[o] = RemoveAt(s, i)
        /\ \A u \in Odamlar \ {o} : saqlash'[u] = saqlash[u]
    BY <1>1, <1>4, <2>1, BirKamL DEF PTuri
  <2>3. \A u \in Odamlar : Len(saqlash'[u]) <= MaxXabar
    <3>1. Len(RemoveAt(s, i)) \in Nat /\ Len(s) \in Nat /\ MaxXabar \in Nat
      BY <1>4, BirKamL, PozitsiyaFarazi
    <3>2. Len(RemoveAt(s, i)) <= Len(s) /\ Len(s) <= MaxXabar
      BY <1>1, <1>2, <1>4, BirKamL DEF PTuri
    <3>3. Len(RemoveAt(s, i)) <= MaxXabar  BY <3>1, <3>2
    <3>. QED  BY <1>1, <2>2, <3>3 DEF PTuri
  <2>4. \A u \in Odamlar : \A k \in DOMAIN saqlash'[u] :
           \E m \in DOMAIN saqlash[u] : saqlash'[u][k] = saqlash[u][m]
    <3>1. \A k \in DOMAIN RemoveAt(s, i) : \E m \in DOMAIN s : RemoveAt(s, i)[k] = s[m]
      BY <1>4, BirKamL
    <3>2. saqlash'[o] = RemoveAt(s, i) /\ saqlash[o] = s  BY <1>2, <2>2
    <3>. QED  BY <2>2, <3>1, <3>2
  <2>. QED  BY <1>3, <2>1, <2>2, <2>3, <2>4, OzgarmaganL, FormaQadamiL
<1>. QED  BY <1>5, <1>6

LEMMA SaqlashYopadiL ==
  ASSUME PInv, NEW o \in Odamlar, NEW i \in DOMAIN saqlash[o], SaqlashYopadi(o, i)
  PROVE  PInv'
<1>1. PTuri  BY DEF PInv
<1>2. PICK s \in Seq(SaqlashTuri) : s = saqlash[o]  BY <1>1 DEF PTuri
<1>3. i \in DOMAIN s  BY <1>2
<1>4. /\ saqlash' = [saqlash EXCEPT ![o] = RemoveAt(s, i)]
      /\ formalar' = [formalar EXCEPT ![o] = Yoq]
      /\ UNCHANGED <<signallar, pozitsiyalar, kun, yozilgan, qaytgan>>
  BY <1>2 DEF SaqlashYopadi
<1>5. /\ saqlash' \in [Odamlar -> Seq(SaqlashTuri)] /\ saqlash'[o] = RemoveAt(s, i)
      /\ \A u \in Odamlar \ {o} : saqlash'[u] = saqlash[u]
  BY <1>1, <1>3, <1>4, BirKamL DEF PTuri
<1>6. \A u \in Odamlar : Len(saqlash'[u]) <= MaxXabar
  <2>1. Len(RemoveAt(s, i)) \in Nat /\ Len(s) \in Nat /\ MaxXabar \in Nat
    BY <1>3, BirKamL, PozitsiyaFarazi
  <2>2. Len(RemoveAt(s, i)) <= Len(s) /\ Len(s) <= MaxXabar
    BY <1>1, <1>2, <1>3, BirKamL DEF PTuri
  <2>3. Len(RemoveAt(s, i)) <= MaxXabar  BY <2>1, <2>2
  <2>. QED  BY <1>1, <1>5, <2>3 DEF PTuri
<1>7. \A u \in Odamlar : \A k \in DOMAIN saqlash'[u] :
         \E m \in DOMAIN saqlash[u] : saqlash'[u][k] = saqlash[u][m]
  <2>1. \A k \in DOMAIN RemoveAt(s, i) : \E m \in DOMAIN s : RemoveAt(s, i)[k] = s[m]
    BY <1>3, BirKamL
  <2>2. saqlash'[o] = RemoveAt(s, i) /\ saqlash[o] = s  BY <1>2, <1>5
  <2>. QED  BY <1>5, <2>1, <2>2
<1>8. /\ formalar' \in [Odamlar -> FormaTuri \cup {Yoq}]
      /\ \A u \in Odamlar : formalar'[u] = formalar[u] \/ formalar'[u] = Yoq
  BY <1>1, <1>4 DEF PTuri
<1>. QED  BY <1>4, <1>5, <1>6, <1>7, <1>8, OzgarmaganL, FormaQadamiL

LEMMA BotQaytaL ==
  ASSUME PInv, BotQayta
  PROVE  PInv'
<1>1. <<>> \in Seq(SaqlashTuri) /\ Len(<<>>) = 0 /\ DOMAIN <<>> = {} /\ MaxXabar \in Nat
  BY PozitsiyaFarazi
<1>2. /\ formalar' = [o \in Odamlar |-> Yoq] /\ saqlash' = [o \in Odamlar |-> <<>>]
      /\ UNCHANGED <<signallar, pozitsiyalar, kun, yozilgan, qaytgan>>
  BY DEF BotQayta
<1>3. /\ formalar' \in [Odamlar -> FormaTuri \cup {Yoq}]
      /\ saqlash' \in [Odamlar -> Seq(SaqlashTuri)]
      /\ \A o \in Odamlar : saqlash'[o] = <<>> /\ formalar'[o] = Yoq
  BY <1>1, <1>2
<1>4. \A o \in Odamlar : Len(saqlash'[o]) <= MaxXabar /\ DOMAIN saqlash'[o] = {}
  BY <1>1, <1>3
<1>. QED  BY <1>2, <1>3, <1>4, OzgarmaganL, FormaQadamiL

LEMMA pozitsiyaQaydL ==
  ASSUME PInv, NEW o \in Odamlar, NEW id \in Idlar, pozitsiyaQayd(o, id)
  PROVE  PInv'
<1>1. PTuri  BY DEF PInv
<1>2. Bor(id) /\ pozitsiyalar[o][id] = <<>>  BY DEF pozitsiyaQayd, Qabul
<1>3. PICK n \in Narxlar : n = signallar[id].narx  BY <1>1, <1>2 DEF PTuri, Bor, Qator
<1>4. /\ pozitsiyalar' = [pozitsiyalar EXCEPT ![o][id] = Append(@, n)]
      /\ UNCHANGED <<signallar, formalar, saqlash, kun, yozilgan, qaytgan>>
  BY <1>3 DEF pozitsiyaQayd
<1>5. PICK p \in Seq(Narxlar) : p = Append(<<>>, n) /\ Len(p) = 1 /\ p[1] = n  BY BittaL
<1>6. /\ pozitsiyalar' \in [Odamlar -> [Idlar -> Seq(Narxlar)]]
      /\ \A u \in Odamlar, d \in Idlar :
            pozitsiyalar'[u][d] = IF u = o /\ d = id THEN p ELSE pozitsiyalar[u][d]
  BY <1>1, <1>2, <1>4, <1>5 DEF PTuri
<1>7. NarxiBor(signallar, qaytgan, id, n)  BY <1>2, <1>3 DEF NarxiBor, Bor
<1>8. \A u \in Odamlar, d \in Idlar :
         \/ pozitsiyalar'[u][d] = pozitsiyalar[u][d]
         \/ /\ Bor(d) /\ Len(pozitsiyalar'[u][d]) = 1
            /\ NarxiBor(signallar, qaytgan, d, pozitsiyalar'[u][d][1])
  BY <1>2, <1>5, <1>6, <1>7
<1>9. \A u \in Odamlar : \A k \in DOMAIN saqlash'[u] :
         \E m \in DOMAIN saqlash[u] : saqlash'[u][k] = saqlash[u][m]
  BY <1>4
<1>. QED  BY <1>4, <1>6, <1>8, <1>9, OzgarmaganL, FormaQadamiL

LEMMA SignalQadamlariL ==
  ASSUME PInv, SignalQadami PROVE PInv'
BY signalYaratL, signalOchirL, apply_eventL DEF SignalQadami

LEMMA PQadamL ==
  ASSUME PInv, PNext PROVE PInv'
<1>1. ASSUME NEW o \in Odamlar, NEW id \in Idlar,
             ask_position_amount(o, id) \/ pozitsiyaQayd(o, id)
      PROVE  PInv'
  BY <1>1, ask_position_amountL, pozitsiyaQaydL
<1>2. ASSUME NEW o \in Odamlar, NEW i \in DOMAIN saqlash[o],
             SaqlashYozadi(o, i) \/ SaqlashYopadi(o, i)
      PROVE  PInv'
  BY <1>2, SaqlashYozadiL, SaqlashYopadiL
<1>. QED  BY <1>1, <1>2, SignalQadamlariL, SaqlashOqiydiL, BotQaytaL DEF PNext

LEMMA PTinchL ==
  ASSUME PInv, UNCHANGED pvars PROVE PInv'
BY DEF pvars, PInv, PTuri, YetimYoq, BirPozitsiya, NarxlarTogri, Bor, NarxiBor

LEMMA PButunL ==
  ASSUME PInv PROVE PozitsiyaButun
<1>1. PTuri /\ YetimYoq /\ BirPozitsiya /\ NarxlarTogri  BY DEF PInv
<1>2. PTypeOK
  <2>1. \A o \in Odamlar, id \in Idlar : ToSet(pozitsiyalar[o][id]) \subseteq Narxlar
    <3>. TAKE o \in Odamlar, id \in Idlar
    <3>1. pozitsiyalar[o][id] \in Seq(Narxlar)  BY <1>1 DEF PTuri
    <3>. QED  BY <3>1 DEF ToSet
  <2>2. \A o \in Odamlar : \A i \in DOMAIN saqlash[o] : saqlash[o][i] \in SaqlashTuri
    <3>. TAKE o \in Odamlar
    <3>1. saqlash[o] \in Seq(SaqlashTuri)  BY <1>1 DEF PTuri
    <3>. QED  BY <3>1
  <2>. QED  BY <1>1, <2>1, <2>2 DEF PTypeOK, PTuri, FormaTuri, SaqlashTuri
<1>3. NarxSignaldan  BY <1>1 DEF NarxSignaldan, NarxlarTogri, NarxiBor
<1>. QED  BY <1>1, <1>2, <1>3 DEF PozitsiyaButun

\* A user is in a signal that exists, once and at its price, whatever the bot's form,
\* two of its messages at once, the site's button, the watcher and the admin who
\* deletes signals do in whatever order (save_position, pozitsiyaQayd, signalOchir).
THEOREM PozitsiyaTeoremasi == PSpec => []PozitsiyaButun
<1>1. PInit => PInv  BY PBoshL
<1>2. PInv /\ [PNext]_pvars => PInv'  BY PQadamL, PTinchL
<1>3. PInv => PozitsiyaButun  BY PButunL
<1>. QED  BY <1>1, <1>2, <1>3, PTL DEF PSpec
-----------------------------------------------------------------------------
(************************************* Posts ************************************)

Muddat == 0..SIGNAL_OYNASI_KUN

\* Nothing is dated later than today.
KunlarOtgan ==
    \A id \in Idlar : Bor(id) =>
        /\ signallar[id].tarqatildi # Yoq => signallar[id].tarqatildi <= kun
        /\ signallar[id].tp1 # Yoq => signallar[id].tp1 <= kun
        /\ signallar[id].tp2 # Yoq => signallar[id].tp2 <= kun

\* A post is of a broadcast row, or of an id that was deleted at least once.
PostManbasi ==
    \A h \in HODISALAR, id \in Idlar : postlar[h][id] # <<>> =>
        id \in qaytgan \/ (Bor(id) /\ signallar[id].tarqatildi # Yoq)

PostInv ==
    /\ PInv
    /\ postlar \in [HODISALAR -> [Idlar -> Seq(Muddat)]]
    /\ BirManbaBirPost /\ KunlarOtgan /\ PostManbasi

LEMMA PostBoshL ==
  ASSUME PInit, PostInit PROVE PostInv
<1>1. PInv  BY PBoshL
<1>2. <<>> \in Seq(Muddat) /\ Len(<<>>) = 0  OBVIOUS
<1>3. /\ postlar \in [HODISALAR -> [Idlar -> Seq(Muddat)]]
      /\ \A h \in HODISALAR, id \in Idlar : postlar[h][id] = <<>>
  BY <1>2 DEF PostInit
<1>4. BirManbaBirPost  BY <1>2, <1>3 DEF BirManbaBirPost
<1>5. KunlarOtgan  BY DEF KunlarOtgan, PInit, Bor
<1>6. PostManbasi  BY <1>3 DEF PostManbasi
<1>. QED  BY <1>1, <1>3, <1>4, <1>5, <1>6 DEF PostInv

\* What a step may do to a row: nothing, delete it, write it, or date something today.
Sanaldi(a, b) == b = a \/ b = kun

QatorQadami(id) ==
    \/ signallar'[id] = signallar[id]
    \/ signallar'[id] = Yoq /\ id \in qaytgan'
    \/ /\ ~Bor(id) /\ signallar'[id] # Yoq
       /\ signallar'[id].tarqatildi = Yoq /\ signallar'[id].tp1 = Yoq /\ signallar'[id].tp2 = Yoq
    \/ /\ Bor(id) /\ signallar'[id] # Yoq
       /\ Sanaldi(signallar[id].tarqatildi, signallar'[id].tarqatildi)
       /\ Sanaldi(signallar[id].tp1, signallar'[id].tp1)
       /\ Sanaldi(signallar[id].tp2, signallar'[id].tp2)

LEMMA QatorlarL ==
  ASSUME PostInv, PInv', UNCHANGED <<kun, postlar>>, qaytgan \subseteq qaytgan',
         \A id \in Idlar : QatorQadami(id)
  PROVE  PostInv'
<1>1. kun \in Nat /\ kun # Yoq  BY PozitsiyaFarazi DEF PostInv, PInv, PTuri
<1>2. /\ postlar \in [HODISALAR -> [Idlar -> Seq(Muddat)]]
      /\ BirManbaBirPost /\ KunlarOtgan /\ PostManbasi
  BY DEF PostInv
<1>3. KunlarOtgan'
  <2>. SUFFICES ASSUME NEW id \in Idlar, Bor(id)'
                PROVE  /\ signallar'[id].tarqatildi # Yoq => signallar'[id].tarqatildi <= kun
                       /\ signallar'[id].tp1 # Yoq => signallar'[id].tp1 <= kun
                       /\ signallar'[id].tp2 # Yoq => signallar'[id].tp2 <= kun
    BY DEF KunlarOtgan
  <2>1. QatorQadami(id) /\ signallar'[id] # Yoq  BY DEF Bor
  <2>2. kun <= kun  BY <1>1
  <2>3. CASE signallar'[id] = signallar[id]  BY <1>2, <2>1, <2>3 DEF KunlarOtgan, Bor
  <2>4. CASE signallar'[id].tarqatildi = Yoq /\ signallar'[id].tp1 = Yoq /\ signallar'[id].tp2 = Yoq
    BY <2>4
  <2>5. CASE /\ Bor(id)
             /\ Sanaldi(signallar[id].tarqatildi, signallar'[id].tarqatildi)
             /\ Sanaldi(signallar[id].tp1, signallar'[id].tp1)
             /\ Sanaldi(signallar[id].tp2, signallar'[id].tp2)
    BY <1>2, <2>2, <2>5 DEF KunlarOtgan, Sanaldi
  <2>. QED  BY <2>1, <2>3, <2>4, <2>5 DEF QatorQadami
<1>4. PostManbasi'
  <2>. SUFFICES ASSUME NEW h \in HODISALAR, NEW id \in Idlar, postlar[h][id] # <<>>,
                       id \notin qaytgan'
                PROVE  signallar'[id] # Yoq /\ signallar'[id].tarqatildi # Yoq
    BY DEF PostManbasi, Bor
  <2>1. Bor(id) /\ signallar[id].tarqatildi # Yoq  BY <1>2 DEF PostManbasi
  <2>2. QatorQadami(id)  OBVIOUS
  <2>. QED  BY <1>1, <2>1, <2>2 DEF QatorQadami, Bor, Sanaldi
<1>5. BirManbaBirPost'  BY <1>2 DEF BirManbaBirPost
<1>. QED  BY <1>2, <1>3, <1>4, <1>5 DEF PostInv

\* The rows are as before.
LEMMA QatorlarTurgunL ==
  ASSUME PostInv, PInv', UNCHANGED <<signallar, kun, qaytgan, postlar>>
  PROVE  PostInv'
BY QatorlarL DEF QatorQadami

LEMMA PostSignalL ==
  ASSUME PostInv, PInv', UNCHANGED postlar, SignalQadami
  PROVE  PostInv'
<1>1. PTuri /\ kun \in Nat  BY DEF PostInv, PInv, PTuri
<1>2. ASSUME NEW n \in Narxlar, signalYarat(n) PROVE PostInv'
  <2>1. PICK y \in Idlar : y = YangiId  BY <1>2 DEF signalYarat
  <2>2. ~Bor(y)  BY <2>1, YangiIdL
  <2>. DEFINE q == [holat |-> "pending", narx |-> n, tarqatildi |-> Yoq, tp1 |-> Yoq, tp2 |-> Yoq]
  <2>3. q \in Qator  BY DEF Qator, Holatlar
  <2>4. q # Yoq /\ q.tarqatildi = Yoq /\ q.tp1 = Yoq /\ q.tp2 = Yoq
    <3>1. q # Yoq  BY <2>3, YoqFarazi
    <3>. QED  BY <3>1
  <2>5. signallar' = [signallar EXCEPT ![y] = q] /\ UNCHANGED <<kun, qaytgan>>
    BY <1>2, <2>1 DEF signalYarat
  <2>. HIDE DEF q
  <2>6. signallar'[y] = q /\ \A id \in Idlar \ {y} : signallar'[id] = signallar[id]
    BY <1>1, <2>5 DEF PTuri
  <2>7. \A id \in Idlar : QatorQadami(id)  BY <2>2, <2>4, <2>6 DEF QatorQadami
  <2>. QED  BY <2>5, <2>7, QatorlarL
<1>3. ASSUME NEW d \in Idlar, signalOchir(d) PROVE PostInv'
  <2>1. /\ signallar' = [signallar EXCEPT ![d] = Yoq] /\ qaytgan' = qaytgan \cup {d}
        /\ kun' = kun
    BY <1>3 DEF signalOchir
  <2>2. signallar'[d] = Yoq /\ \A id \in Idlar \ {d} : signallar'[id] = signallar[id]
    BY <1>1, <2>1 DEF PTuri
  <2>3. \A id \in Idlar : QatorQadami(id)  BY <2>1, <2>2 DEF QatorQadami
  <2>. QED  BY <2>1, <2>3, QatorlarL
<1>4. ASSUME NEW d \in Idlar, NEW h \in Holatlar, apply_event(d, h) PROVE PostInv'
  <2>. DEFINE q == [signallar[d] EXCEPT !.holat = h,
                       !.tp1 = IF h = "tp1_hit" THEN kun ELSE @,
                       !.tp2 = IF h = "tp2_hit" THEN kun ELSE @]
  <2>1. Bor(d) /\ signallar[d] \in Qator  BY <1>1, <1>4 DEF apply_event, PTuri, Bor
  <2>2. q \in Qator  BY <1>1, <2>1 DEF Qator
  <2>3. /\ Sanaldi(signallar[d].tarqatildi, q.tarqatildi)
        /\ Sanaldi(signallar[d].tp1, q.tp1) /\ Sanaldi(signallar[d].tp2, q.tp2)
    BY <2>1 DEF Qator, Sanaldi
  <2>4. signallar' = [signallar EXCEPT ![d] = q] /\ UNCHANGED <<kun, qaytgan>>
    BY <1>1, <1>4, <2>1 DEF apply_event, PTuri, Qator
  <2>. HIDE DEF q
  <2>5. signallar'[d] = q /\ \A id \in Idlar \ {d} : signallar'[id] = signallar[id]
    BY <1>1, <2>4 DEF PTuri
  <2>6. q # Yoq  BY <2>2, YoqFarazi
  <2>7. \A id \in Idlar : QatorQadami(id)  BY <2>1, <2>3, <2>5, <2>6 DEF QatorQadami
  <2>. QED  BY <2>4, <2>7, QatorlarL
<1>. QED  BY <1>2, <1>3, <1>4 DEF SignalQadami

LEMMA PostTarqatiladiL ==
  ASSUME PostInv, PInv', UNCHANGED postlar, NEW d \in Idlar, Tarqatiladi(d)
  PROVE  PostInv'
<1>1. PTuri /\ kun \in Nat  BY DEF PostInv, PInv, PTuri
<1>. DEFINE q == [signallar[d] EXCEPT !.tarqatildi = kun]
<1>2. Bor(d) /\ signallar[d] \in Qator  BY <1>1 DEF Tarqatiladi, PTuri, Bor
<1>3. q \in Qator  BY <1>1, <1>2 DEF Qator
<1>4. /\ Sanaldi(signallar[d].tarqatildi, q.tarqatildi)
      /\ Sanaldi(signallar[d].tp1, q.tp1) /\ Sanaldi(signallar[d].tp2, q.tp2)
  BY <1>2 DEF Qator, Sanaldi
<1>5. signallar' = [signallar EXCEPT ![d] = q] /\ UNCHANGED <<kun, qaytgan>>
  BY <1>1, <1>2 DEF Tarqatiladi, PTuri, Qator
<1>. HIDE DEF q
<1>6. signallar'[d] = q /\ \A id \in Idlar \ {d} : signallar'[id] = signallar[id]
  BY <1>1, <1>5 DEF PTuri
<1>7. q # Yoq  BY <1>3, YoqFarazi
<1>8. \A id \in Idlar : QatorQadami(id)  BY <1>2, <1>4, <1>6, <1>7 DEF QatorQadami
<1>. QED  BY <1>5, <1>8, QatorlarL

\* The page opens.
LEMMA signalPostlariL ==
  ASSUME PostInv, signalPostlari
  PROVE  PostInv'
<1>1. /\ PInv /\ postlar \in [HODISALAR -> [Idlar -> Seq(Muddat)]]
      /\ BirManbaBirPost /\ KunlarOtgan /\ PostManbasi
  BY DEF PostInv
<1>2. UNCHANGED <<signallar, kun, qaytgan>> /\ PInv'
  BY <1>1, PTinchL DEF signalPostlari, pvars
<1>3. ASSUME NEW h \in HODISALAR, NEW id \in Idlar
      PROVE  \/ postlar'[h][id] = postlar[h][id]
             \/ /\ postlar'[h][id] \in Seq(Muddat) /\ Len(postlar'[h][id]) = 1
                /\ Bor(id) /\ signallar[id].tarqatildi # Yoq
  <2>1. postlar'[h] = hodisaPostlari(h)  BY DEF signalPostlari
  <2>2. CASE id \notin Nomzodlar(h)
    BY <2>1, <2>2 DEF hodisaPostlari
  <2>3. CASE id \in Nomzodlar(h)
    <3>. DEFINE k == HodisaKuni(h, signallar[id])
    <3>1. /\ Bor(id) /\ signallar[id].tarqatildi # Yoq /\ postlar[h][id] = <<>>
          /\ k # Yoq /\ k + SIGNAL_OYNASI_KUN >= kun
      BY <2>3 DEF Nomzodlar, PostiBor
    <3>2. signallar[id] \in Qator /\ kun \in Nat  BY <1>1, <3>1 DEF PInv, PTuri, Bor
    <3>3. k \in Nat /\ k <= kun
      <4>1. k \in {signallar[id].tarqatildi, signallar[id].tp1, signallar[id].tp2}
        BY <3>1 DEF HodisaKuni, HODISALAR
      <4>2. k \in Nat  BY <3>1, <3>2, <4>1 DEF Qator
      <4>. QED  BY <1>1, <3>1, <4>1, <4>2 DEF KunlarOtgan
    <3>4. kun - k \in Muddat
      <4>. HIDE DEF k
      <4>. QED  BY <3>1, <3>2, <3>3, PostFarazi DEF Muddat
    <3>5. postlar'[h][id] = postlar[h][id] \/ postlar'[h][id] = Append(<<>>, kun - k)
      BY <2>1, <3>1 DEF hodisaPostlari
    <3>. HIDE DEF k
    <3>6. Append(<<>>, kun - k) \in Seq(Muddat) /\ Len(Append(<<>>, kun - k)) = 1
      BY <3>4
    <3>. QED  BY <3>1, <3>5, <3>6
  <2>. QED  BY <2>2, <2>3
<1>4. postlar' \in [HODISALAR -> [Idlar -> Seq(Muddat)]]
  <2>1. ASSUME NEW h \in HODISALAR PROVE postlar'[h] \in [Idlar -> Seq(Muddat)]
    <3>1. postlar'[h] = hodisaPostlari(h)  BY DEF signalPostlari
    <3>2. postlar'[h] = [id \in Idlar |-> postlar'[h][id]]  BY <3>1 DEF hodisaPostlari
    <3>3. \A id \in Idlar : postlar'[h][id] \in Seq(Muddat)  BY <1>1, <1>3
    <3>. QED  BY <3>2, <3>3
  <2>2. postlar' = [h \in HODISALAR |-> hodisaPostlari(h)]  BY DEF signalPostlari
  <2>. QED  BY <2>1, <2>2
<1>5. BirManbaBirPost'
  <2>. SUFFICES ASSUME NEW h \in HODISALAR, NEW id \in Idlar
                PROVE  Len(postlar'[h][id]) <= 1
    BY DEF BirManbaBirPost
  <2>1. Len(postlar[h][id]) <= 1  BY <1>1 DEF BirManbaBirPost
  <2>2. postlar'[h][id] = postlar[h][id] \/ Len(postlar'[h][id]) = 1  BY <1>3
  <2>3. CASE postlar'[h][id] = postlar[h][id]  BY <2>1, <2>3
  <2>4. CASE Len(postlar'[h][id]) = 1  BY <2>4
  <2>. QED  BY <2>2, <2>3, <2>4
<1>6. KunlarOtgan'  BY <1>1, <1>2 DEF KunlarOtgan, Bor
<1>7. PostManbasi'  BY <1>1, <1>2, <1>3 DEF PostManbasi, Bor
<1>. QED  BY <1>2, <1>4, <1>5, <1>6, <1>7 DEF PostInv

LEMMA boshPostOchirishL ==
  ASSUME PostInv, NEW h \in HODISALAR, NEW d \in Idlar, boshPostOchirish(h, d)
  PROVE  PostInv'
<1>1. /\ PInv /\ postlar \in [HODISALAR -> [Idlar -> Seq(Muddat)]]
      /\ BirManbaBirPost /\ KunlarOtgan /\ PostManbasi
  BY DEF PostInv
<1>2. UNCHANGED <<signallar, kun, qaytgan>> /\ PInv'
  BY <1>1, PTinchL DEF boshPostOchirish, pvars
<1>3. postlar[h][d] # <<>> /\ postlar' = [postlar EXCEPT ![h][d] = Tail(@)]
  BY DEF boshPostOchirish, PostiBor
<1>4. PICK p \in Seq(Muddat) : p = postlar[h][d]  BY <1>1
<1>5. Tail(p) \in Seq(Muddat) /\ Len(Tail(p)) <= 1
  <2>1. p # <<>> /\ Len(p) <= 1  BY <1>1, <1>3, <1>4 DEF BirManbaBirPost
  <2>2. Tail(p) \in Seq(Muddat) /\ Len(Tail(p)) = Len(p) - 1  BY <2>1
  <2>3. Len(p) \in Nat  OBVIOUS
  <2>. QED  BY <2>1, <2>2, <2>3
<1>6. /\ postlar' \in [HODISALAR -> [Idlar -> Seq(Muddat)]] /\ postlar'[h][d] = Tail(p)
      /\ \A g \in HODISALAR, id \in Idlar : g # h \/ id # d => postlar'[g][id] = postlar[g][id]
  BY <1>1, <1>3, <1>4, <1>5
<1>7. BirManbaBirPost'
  <2>. SUFFICES ASSUME NEW g \in HODISALAR, NEW id \in Idlar
                PROVE  Len(postlar'[g][id]) <= 1
    BY DEF BirManbaBirPost
  <2>1. Len(postlar[g][id]) <= 1  BY <1>1 DEF BirManbaBirPost
  <2>. QED  BY <1>5, <1>6, <2>1
<1>8. KunlarOtgan'  BY <1>1, <1>2 DEF KunlarOtgan, Bor
<1>9. PostManbasi'
  <2>1. ASSUME NEW g \in HODISALAR, NEW id \in Idlar, postlar'[g][id] # <<>>
        PROVE  postlar[g][id] # <<>>
    BY <1>3, <1>6, <2>1
  <2>. QED  BY <1>1, <1>2, <2>1 DEF PostManbasi, Bor
<1>. QED  BY <1>2, <1>6, <1>7, <1>8, <1>9 DEF PostInv

LEMMA YangiKunL ==
  ASSUME PostInv, YangiKun
  PROVE  PostInv'
<1>1. /\ PInv /\ postlar \in [HODISALAR -> [Idlar -> Seq(Muddat)]]
      /\ BirManbaBirPost /\ KunlarOtgan /\ PostManbasi /\ kun \in Nat
      /\ signallar \in [Idlar -> Qator \cup {Yoq}]
  BY DEF PostInv, PInv, PTuri
<1>2. /\ kun' = kun + 1
      /\ UNCHANGED <<signallar, pozitsiyalar, formalar, saqlash, yozilgan, qaytgan, postlar>>
  BY DEF YangiKun
<1>3. PInv'  BY <1>1, <1>2, KunL
<1>4. KunlarOtgan'
  <2>1. \A v \in Nat \cup {Yoq} : (v # Yoq => v <= kun) => (v # Yoq => v <= kun + 1)
    BY <1>1
  <2>2. \A id \in Idlar : Bor(id) =>
           {signallar[id].tarqatildi, signallar[id].tp1, signallar[id].tp2} \subseteq Nat \cup {Yoq}
    BY <1>1 DEF Bor, Qator
  <2>3. ASSUME NEW id \in Idlar, Bor(id)
        PROVE  /\ signallar[id].tarqatildi # Yoq => signallar[id].tarqatildi <= kun + 1
               /\ signallar[id].tp1 # Yoq => signallar[id].tp1 <= kun + 1
               /\ signallar[id].tp2 # Yoq => signallar[id].tp2 <= kun + 1
    <3>1. /\ signallar[id].tarqatildi # Yoq => signallar[id].tarqatildi <= kun
          /\ signallar[id].tp1 # Yoq => signallar[id].tp1 <= kun
          /\ signallar[id].tp2 # Yoq => signallar[id].tp2 <= kun
      BY <1>1, <2>3 DEF KunlarOtgan
    <3>2. /\ signallar[id].tarqatildi \in Nat \cup {Yoq} /\ signallar[id].tp1 \in Nat \cup {Yoq}
          /\ signallar[id].tp2 \in Nat \cup {Yoq}
      BY <2>2, <2>3
    <3>. QED  BY <2>1, <3>1, <3>2
  <2>. QED  BY <1>2, <2>3 DEF KunlarOtgan, Bor
<1>5. BirManbaBirPost' /\ PostManbasi'  BY <1>1, <1>2 DEF BirManbaBirPost, PostManbasi, Bor
<1>. QED  BY <1>1, <1>2, <1>3, <1>4, <1>5 DEF PostInv

LEMMA PostQadamL ==
  ASSUME PostInv, [(PNext /\ UNCHANGED postlar) \/ PostNext]_<<pvars, postlar>>
  PROVE  PostInv'
<1>0. PInv  BY DEF PostInv
<1>1. CASE PNext /\ UNCHANGED postlar
  <2>1. PInv'  BY <1>0, <1>1, PQadamL
  <2>2. CASE SignalQadami  BY <1>1, <2>1, <2>2, PostSignalL
  <2>3. CASE ~SignalQadami
    <3>1. ASSUME NEW o \in Odamlar, NEW id \in Idlar,
                 ask_position_amount(o, id) \/ pozitsiyaQayd(o, id)
          PROVE  UNCHANGED <<signallar, kun, qaytgan>>
      BY <3>1 DEF ask_position_amount, pozitsiyaQayd
    <3>2. ASSUME NEW o \in Odamlar, SaqlashOqiydi(o)
          PROVE  UNCHANGED <<signallar, kun, qaytgan>>
      BY <3>2 DEF SaqlashOqiydi
    <3>3. ASSUME NEW o \in Odamlar, NEW i \in DOMAIN saqlash[o],
                 SaqlashYozadi(o, i) \/ SaqlashYopadi(o, i)
          PROVE  UNCHANGED <<signallar, kun, qaytgan>>
      BY <3>3 DEF SaqlashYozadi, SaqlashYopadi
    <3>4. BotQayta => UNCHANGED <<signallar, kun, qaytgan>>  BY DEF BotQayta
    <3>5. UNCHANGED <<signallar, kun, qaytgan>>
      BY <1>1, <2>3, <3>1, <3>2, <3>3, <3>4 DEF PNext
    <3>6. UNCHANGED <<signallar, kun, qaytgan, postlar>>  BY <1>1, <3>5
    <3>. QED  BY <2>1, <3>6, QatorlarTurgunL
  <2>. QED  BY <2>2, <2>3
<1>2. CASE PostNext
  <2>1. CASE SignalQadami /\ UNCHANGED postlar
    BY <1>0, <2>1, SignalQadamlariL, PostSignalL
  <2>2. ASSUME NEW id \in Idlar, Tarqatiladi(id), UNCHANGED postlar PROVE PostInv'
    BY <1>0, <2>2, TarqatiladiL, PostTarqatiladiL
  <2>. QED  BY <1>2, <2>1, <2>2, signalPostlariL, boshPostOchirishL, YangiKunL DEF PostNext
<1>3. CASE UNCHANGED <<pvars, postlar>>
  <2>1. PInv' /\ UNCHANGED <<signallar, kun, qaytgan, postlar>>
    BY <1>0, <1>3, PTinchL DEF pvars
  <2>. QED  BY <2>1, QatorlarTurgunL
<1>. QED  BY <1>1, <1>2, <1>3

\* One post per news and only of news that the subscribers had, while the signals,
\* the positions on them and the day move on and the admin deletes posts and signals
\* (avtomatik-post.ts's signalPostlari).
THEOREM PostTeoremasi == PostSpec => []PostButun
<1>1. PInit /\ PostInit => PostInv  BY PostBoshL
<1>2. PostInv /\ [(PNext /\ UNCHANGED postlar) \/ PostNext]_<<pvars, postlar>> => PostInv'
  BY PostQadamL
<1>3. PostInv => PostButun
  <2>. SUFFICES ASSUME PostInv PROVE PostButun  OBVIOUS
  <2>1. /\ postlar \in [HODISALAR -> [Idlar -> Seq(Muddat)]] /\ BirManbaBirPost /\ PostManbasi
    BY DEF PostInv
  <2>2. ASSUME NEW h \in HODISALAR, NEW id \in Idlar, NEW i \in DOMAIN postlar[h][id]
        PROVE  /\ postlar[h][id][i] \in 0..SIGNAL_OYNASI_KUN
               /\ Bor(id) /\ id \notin qaytgan => signallar[id].tarqatildi # Yoq
    <3>1. PICK p \in Seq(Muddat) : p = postlar[h][id]  BY <2>1
    <3>2. p[i] \in Muddat  BY <2>2, <3>1
    <3>3. postlar[h][id] # <<>>  BY <2>2
    <3>. QED  BY <2>1, <3>1, <3>2, <3>3 DEF PostManbasi, Muddat
  <2>. QED  BY <2>1, <2>2 DEF PostButun, PostOynada
<1>. QED  BY <1>1, <1>2, <1>3, PTL DEF PostSpec
-----------------------------------------------------------------------------
(************************************ Lessons ***********************************)

DarsTuri == [video : Fayllar \cup {Hech}, file_id : Fayllar \cup {Hech}]
YuklashTuri == [dars : DarsIdlar, fayl : Fayllar, ish : {"yozildi", "eski"}]

DTuri ==
    /\ darslar \in [DarsIdlar -> DarsTuri \cup {Hech}]
    /\ disk \subseteq nomlangan /\ nomlangan \subseteq Fayllar
    /\ yuklash \subseteq YuklashTuri
    /\ navbat \in Seq(DarsIdlar \X Fayllar) /\ javob \in Fayllar \cup {Hech}
    /\ tarix \in [DarsIdlar -> SUBSET Fayllar]
    /\ yuborilgan \in [DarsIdlar -> 0..1]

Nomlangan(d) == darslar[d] # Hech /\ darslar[d].video # Hech

\* A file is of one row or of one upload, and one that is being brought in is there.
FaylEgasi ==
    /\ \A d \in DarsIdlar : Nomlangan(d) => darslar[d].video \in disk \cap tarix[d]
    /\ \A d, e \in DarsIdlar :
          Nomlangan(d) /\ Nomlangan(e) /\ darslar[d].video = darslar[e].video => d = e
    /\ \A y \in yuklash : /\ y.fayl \in nomlangan
                          /\ y.ish = "yozildi" => y.fayl \in disk
                          /\ \A d \in DarsIdlar : Nomlangan(d) => darslar[d].video # y.fayl
    /\ \A y, z \in yuklash : y.fayl = z.fayl => y = z

\* The list of the pass: each lesson once, with a file of its own, and not sent yet
\* but for the first when Telegram has answered; a row without a copy was not sent.
NavbatTogri ==
    /\ \A i \in DOMAIN navbat : navbat[i][2] \in tarix[navbat[i][1]]
    /\ \A i, k \in DOMAIN navbat : navbat[i][1] = navbat[k][1] => i = k
    /\ javob # Hech => navbat # <<>> /\ javob = navbat[1][2]
    /\ \A i \in DOMAIN navbat : i # 1 \/ javob = Hech => yuborilgan[navbat[i][1]] = 0
    /\ \A d \in DarsIdlar : darslar[d] # Hech /\ darslar[d].file_id = Hech =>
          yuborilgan[d] = 0 \/ (javob # Hech /\ d = navbat[1][1])

DInv == DTuri /\ FaylEgasi /\ NusxaOzidan /\ NavbatTogri

LEMMA DBoshL ==
  ASSUME DInit PROVE DInv
<1>1. <<>> \in Seq(DarsIdlar \X Fayllar) /\ DOMAIN <<>> = {}  OBVIOUS
<1>2. DTuri  BY <1>1 DEF DInit, DTuri
<1>3. FaylEgasi  BY DEF DInit, FaylEgasi, Nomlangan
<1>4. NusxaOzidan  BY DEF DInit, NusxaOzidan
<1>5. NavbatTogri  BY <1>1 DEF DInit, NavbatTogri
<1>. QED  BY <1>2, <1>3, <1>4, <1>5 DEF DInv

\* The parts of a step that the timer's list does not see.
LEMMA NavbatTurgunL ==
  ASSUME NavbatTogri, DTuri, UNCHANGED <<navbat, javob>>,
         \A d \in DarsIdlar : tarix[d] \subseteq tarix'[d],
         \A d \in DarsIdlar : yuborilgan'[d] \in {0, yuborilgan[d]},
         \A d \in DarsIdlar : darslar'[d] # Hech /\ darslar'[d].file_id = Hech =>
            yuborilgan'[d] = 0 \/ (darslar[d] # Hech /\ darslar[d].file_id = Hech)
  PROVE  NavbatTogri'
<1>1. \A i \in DOMAIN navbat : navbat[i][1] \in DarsIdlar
  <2>1. navbat \in Seq(DarsIdlar \X Fayllar)  BY DEF DTuri
  <2>. QED  BY <2>1
<1>2. \A i \in DOMAIN navbat : navbat[i][2] \in tarix'[navbat[i][1]]
  BY <1>1 DEF NavbatTogri
<1>3. \A i \in DOMAIN navbat : i # 1 \/ javob = Hech => yuborilgan'[navbat[i][1]] = 0
  BY <1>1 DEF NavbatTogri
<1>4. \A d \in DarsIdlar : darslar'[d] # Hech /\ darslar'[d].file_id = Hech =>
          yuborilgan'[d] = 0 \/ (javob # Hech /\ d = navbat[1][1])
  BY DEF NavbatTogri
<1>. QED  BY <1>2, <1>3, <1>4 DEF NavbatTogri

LEMMA darsSaqlaL ==
  ASSUME DInv, darsSaqla PROVE DInv'
<1>1. DTuri /\ FaylEgasi /\ NusxaOzidan /\ NavbatTogri  BY DEF DInv
<1>. DEFINE q == [video |-> Hech, file_id |-> Hech]
<1>2. PICK d \in DarsIdlar : /\ darslar' = [darslar EXCEPT ![d] = q]
                             /\ yuborilgan' = [yuborilgan EXCEPT ![d] = 0]
  BY DEF darsSaqla
<1>3. UNCHANGED <<disk, yuklash, navbat, javob, nomlangan, tarix>>  BY DEF darsSaqla
<1>4. q \in DarsTuri /\ q.video = Hech /\ q.file_id = Hech  BY DEF DarsTuri
<1>. HIDE DEF q
<1>5. /\ darslar' \in [DarsIdlar -> DarsTuri \cup {Hech}] /\ darslar'[d] = q
      /\ \A e \in DarsIdlar \ {d} : darslar'[e] = darslar[e]
  BY <1>1, <1>2, <1>4 DEF DTuri
<1>6. /\ yuborilgan' \in [DarsIdlar -> 0..1] /\ yuborilgan'[d] = 0
      /\ \A e \in DarsIdlar \ {d} : yuborilgan'[e] = yuborilgan[e]
  BY <1>1, <1>2 DEF DTuri
<1>7. DTuri'  BY <1>1, <1>3, <1>5, <1>6 DEF DTuri
<1>8. \A e \in DarsIdlar : Nomlangan(e)' => Nomlangan(e) /\ darslar'[e] = darslar[e]
  BY <1>4, <1>5 DEF Nomlangan
<1>9. FaylEgasi'  BY <1>1, <1>3, <1>8 DEF FaylEgasi
<1>10. NusxaOzidan'  BY <1>1, <1>3, <1>4, <1>5 DEF NusxaOzidan
<1>11. NavbatTogri'  BY <1>1, <1>3, <1>5, <1>6, NavbatTurgunL
<1>. QED  BY <1>7, <1>9, <1>10, <1>11 DEF DInv

LEMMA darsOchirL ==
  ASSUME DInv, NEW d \in DarsIdlar, darsOchir(d) PROVE DInv'
<1>1. DTuri /\ FaylEgasi /\ NusxaOzidan /\ NavbatTogri  BY DEF DInv
<1>2. /\ darslar' = [darslar EXCEPT ![d] = Hech]
      /\ UNCHANGED <<disk, yuklash, navbat, javob, nomlangan, tarix, yuborilgan>>
  BY DEF darsOchir
<1>3. /\ darslar' \in [DarsIdlar -> DarsTuri \cup {Hech}] /\ darslar'[d] = Hech
      /\ \A e \in DarsIdlar \ {d} : darslar'[e] = darslar[e]
  BY <1>1, <1>2 DEF DTuri
<1>4. DTuri'  BY <1>1, <1>2, <1>3 DEF DTuri
<1>5. \A e \in DarsIdlar : Nomlangan(e)' => Nomlangan(e) /\ darslar'[e] = darslar[e]
  BY <1>3 DEF Nomlangan
<1>6. FaylEgasi'  BY <1>1, <1>2, <1>5 DEF FaylEgasi
<1>7. NusxaOzidan'  BY <1>1, <1>2, <1>3 DEF NusxaOzidan
<1>8. NavbatTogri'  BY <1>1, <1>2, <1>3, NavbatTurgunL
<1>. QED  BY <1>4, <1>6, <1>7, <1>8 DEF DInv

LEMMA FaylYoziladiL ==
  ASSUME DInv, NEW d \in DarsIdlar, NEW f \in Fayllar, FaylYoziladi(d, f) PROVE DInv'
<1>1. DTuri /\ FaylEgasi /\ NusxaOzidan /\ NavbatTogri  BY DEF DInv
<1>. DEFINE y == [dars |-> d, fayl |-> f, ish |-> "yozildi"]
<1>2. /\ f \notin nomlangan /\ nomlangan' = nomlangan \cup {f} /\ disk' = disk \cup {f}
      /\ yuklash' = yuklash \cup {y}
      /\ UNCHANGED <<darslar, navbat, javob, tarix, yuborilgan>>
  BY DEF FaylYoziladi
<1>3. y \in YuklashTuri /\ y.fayl = f  BY DEF YuklashTuri
<1>. HIDE DEF y
<1>4. DTuri'  BY <1>1, <1>2, <1>3 DEF DTuri
<1>5. \A e \in DarsIdlar : Nomlangan(e) => darslar[e].video \in nomlangan
  BY <1>1 DEF FaylEgasi, DTuri
<1>6. \A z \in yuklash : z.fayl \in nomlangan  BY <1>1 DEF FaylEgasi
<1>7. FaylEgasi'
  <2>1. \A e \in DarsIdlar : Nomlangan(e)' <=> Nomlangan(e)  BY <1>2 DEF Nomlangan
  <2>2. \A e \in DarsIdlar : Nomlangan(e) => darslar[e].video \in disk' \cap tarix[e]
    BY <1>1, <1>2 DEF FaylEgasi
  <2>3. \A z \in yuklash' :
           /\ z.fayl \in nomlangan' /\ (z.ish = "yozildi" => z.fayl \in disk')
           /\ \A e \in DarsIdlar : Nomlangan(e) => darslar[e].video # z.fayl
    BY <1>1, <1>2, <1>3, <1>5 DEF FaylEgasi
  <2>4. \A z, u \in yuklash' : z.fayl = u.fayl => z = u
    BY <1>1, <1>2, <1>3, <1>6 DEF FaylEgasi
  <2>. QED  BY <1>1, <1>2, <2>1, <2>2, <2>3, <2>4 DEF FaylEgasi
<1>8. NusxaOzidan'  BY <1>1, <1>2 DEF NusxaOzidan
<1>9. NavbatTogri'  BY <1>1, <1>2, NavbatTurgunL
<1>. QED  BY <1>4, <1>7, <1>8, <1>9 DEF DInv

LEMMA videoBiriktirL ==
  ASSUME DInv, NEW y \in yuklash, videoBiriktir(y) PROVE DInv'
<1>1. DTuri /\ FaylEgasi /\ NusxaOzidan /\ NavbatTogri  BY DEF DInv
<1>2. PICK d \in DarsIdlar, f \in Fayllar : d = y.dars /\ f = y.fayl
  BY <1>1 DEF DTuri, YuklashTuri
<1>3. PICK r \in DarsTuri : r = darslar[d] /\ r # Hech
  BY <1>1, <1>2 DEF videoBiriktir, DTuri
<1>. DEFINE q == [r EXCEPT !.video = f]
            z == [dars |-> d, fayl |-> r.video, ish |-> "eski"]
<1>4. /\ y.ish = "yozildi" /\ darslar' = [darslar EXCEPT ![d] = q]
      /\ tarix' = [tarix EXCEPT ![d] = @ \cup {f}]
      /\ yuklash' = (yuklash \ {y}) \cup (IF r.video = Hech THEN {} ELSE {z})
      /\ UNCHANGED <<disk, navbat, javob, nomlangan, yuborilgan>>
  BY <1>1, <1>2, <1>3 DEF videoBiriktir, DTuri
<1>5. q \in DarsTuri /\ q.video = f /\ q.file_id = r.file_id  BY DEF DarsTuri
<1>6. r.video # Hech => z \in YuklashTuri  BY DEF YuklashTuri, DarsTuri
<1>7. z.fayl = r.video /\ z.ish = "eski"  OBVIOUS
<1>. HIDE DEF q, z
<1>8. /\ darslar' \in [DarsIdlar -> DarsTuri \cup {Hech}] /\ darslar'[d] = q
      /\ \A e \in DarsIdlar \ {d} : darslar'[e] = darslar[e]
  BY <1>1, <1>4, <1>5 DEF DTuri
<1>9. /\ tarix' \in [DarsIdlar -> SUBSET Fayllar] /\ tarix'[d] = tarix[d] \cup {f}
      /\ \A e \in DarsIdlar : tarix[e] \subseteq tarix'[e]
      /\ \A e \in DarsIdlar \ {d} : tarix'[e] = tarix[e]
  BY <1>1, <1>2, <1>4 DEF DTuri
<1>10. yuklash' \subseteq YuklashTuri  BY <1>1, <1>4, <1>6 DEF DTuri
<1>11. DTuri'  BY <1>1, <1>4, <1>8, <1>9, <1>10 DEF DTuri
<1>12. /\ f \in disk /\ f \in nomlangan
       /\ \A e \in DarsIdlar : Nomlangan(e) => darslar[e].video # f
  BY <1>1, <1>2, <1>4 DEF FaylEgasi
<1>13. r.video # Hech =>
         /\ Nomlangan(d) /\ r.video \in nomlangan /\ r.video # f
         /\ \A u \in yuklash : u.fayl # r.video
         /\ \A e \in DarsIdlar \ {d} : Nomlangan(e) => darslar[e].video # r.video
  BY <1>1, <1>3, <1>12 DEF FaylEgasi, Nomlangan, DTuri
<1>14. FaylEgasi'
  <2>1. \A e \in DarsIdlar \ {d} : Nomlangan(e)' => Nomlangan(e) /\ darslar'[e] = darslar[e]
    BY <1>8 DEF Nomlangan
  <2>2. \A e \in DarsIdlar : Nomlangan(e)' => darslar'[e].video \in disk' \cap tarix'[e]
    <3>1. q.video \in disk' \cap tarix'[d]  BY <1>4, <1>5, <1>9, <1>12
    <3>. QED  BY <1>1, <1>4, <1>8, <1>9, <2>1, <3>1 DEF FaylEgasi
  <2>3. \A e, g \in DarsIdlar :
           Nomlangan(e)' /\ Nomlangan(g)' /\ darslar'[e].video = darslar'[g].video => e = g
    BY <1>1, <1>5, <1>8, <1>12, <2>1 DEF FaylEgasi
  <2>4. ASSUME NEW u \in yuklash'
        PROVE  /\ u.fayl \in nomlangan' /\ (u.ish = "yozildi" => u.fayl \in disk')
               /\ \A e \in DarsIdlar : Nomlangan(e)' => darslar'[e].video # u.fayl
    <3>1. CASE u \in yuklash \ {y}
      <4>1. u.fayl # f  BY <1>1, <1>2, <3>1 DEF FaylEgasi
      <4>2. /\ u.fayl \in nomlangan /\ (u.ish = "yozildi" => u.fayl \in disk)
            /\ \A e \in DarsIdlar : Nomlangan(e) => darslar[e].video # u.fayl
        BY <1>1, <3>1 DEF FaylEgasi
      <4>. QED  BY <1>4, <1>5, <1>8, <2>1, <4>1, <4>2
    <3>2. CASE r.video # Hech /\ u = z
      BY <1>4, <1>5, <1>7, <1>8, <1>13, <2>1, <3>2
    <3>. QED  BY <1>4, <2>4, <3>1, <3>2
  <2>5. \A u, v \in yuklash' : u.fayl = v.fayl => u = v
    BY <1>1, <1>4, <1>7, <1>13 DEF FaylEgasi
  <2>. QED  BY <2>2, <2>3, <2>4, <2>5 DEF FaylEgasi
<1>15. NusxaOzidan'
  <2>1. q.file_id = Hech \/ q.file_id \in tarix'[d]
    BY <1>1, <1>3, <1>5, <1>9 DEF NusxaOzidan
  <2>2. ASSUME NEW e \in DarsIdlar, e # d, darslar'[e] # Hech
        PROVE  darslar'[e].file_id = Hech \/ darslar'[e].file_id \in tarix'[e]
    BY <1>1, <1>8, <1>9, <2>2 DEF NusxaOzidan
  <2>. QED  BY <1>8, <2>1, <2>2 DEF NusxaOzidan
<1>16. NavbatTogri'
  <2>1. \A e \in DarsIdlar : darslar'[e] # Hech /\ darslar'[e].file_id = Hech =>
           darslar[e] # Hech /\ darslar[e].file_id = Hech
    BY <1>3, <1>5, <1>8
  <2>. QED  BY <1>1, <1>4, <1>9, <2>1, NavbatTurgunL
<1>. QED  BY <1>11, <1>14, <1>15, <1>16 DEF DInv

LEMMA FaylOchadiL ==
  ASSUME DInv, NEW y \in yuklash, FaylOchadi(y) PROVE DInv'
<1>1. DTuri /\ FaylEgasi /\ NusxaOzidan /\ NavbatTogri  BY DEF DInv
<1>2. /\ disk' = disk \ {y.fayl} /\ yuklash' = yuklash \ {y}
      /\ UNCHANGED <<darslar, navbat, javob, nomlangan, tarix, yuborilgan>>
  BY DEF FaylOchadi
<1>3. DTuri'  BY <1>1, <1>2 DEF DTuri
<1>4. FaylEgasi'
  <2>1. \A e \in DarsIdlar : Nomlangan(e)' <=> Nomlangan(e)  BY <1>2 DEF Nomlangan
  <2>2. \A e \in DarsIdlar : Nomlangan(e) => darslar[e].video \in disk' \cap tarix[e]
    BY <1>1, <1>2 DEF FaylEgasi
  <2>3. \A z \in yuklash' :
           /\ z.fayl \in nomlangan /\ (z.ish = "yozildi" => z.fayl \in disk')
           /\ \A e \in DarsIdlar : Nomlangan(e) => darslar[e].video # z.fayl
    BY <1>1, <1>2 DEF FaylEgasi
  <2>. QED  BY <1>1, <1>2, <2>1, <2>2, <2>3 DEF FaylEgasi
<1>5. NusxaOzidan'  BY <1>1, <1>2 DEF NusxaOzidan
<1>6. NavbatTogri'  BY <1>1, <1>2, NavbatTurgunL
<1>. QED  BY <1>3, <1>4, <1>5, <1>6 DEF DInv

LEMMA YuklashUziladiL ==
  ASSUME DInv, NEW y \in yuklash, YuklashUziladi(y) PROVE DInv'
<1>1. DTuri /\ FaylEgasi /\ NusxaOzidan /\ NavbatTogri  BY DEF DInv
<1>2. /\ yuklash' = yuklash \ {y}
      /\ UNCHANGED <<darslar, disk, navbat, javob, nomlangan, tarix, yuborilgan>>
  BY DEF YuklashUziladi
<1>3. DTuri'  BY <1>1, <1>2 DEF DTuri
<1>4. FaylEgasi'
  <2>1. \A e \in DarsIdlar : Nomlangan(e)' <=> Nomlangan(e)  BY <1>2 DEF Nomlangan
  <2>. QED  BY <1>1, <1>2, <2>1 DEF FaylEgasi
<1>5. NusxaOzidan'  BY <1>1, <1>2 DEF NusxaOzidan
<1>6. NavbatTogri'  BY <1>1, <1>2, NavbatTurgunL
<1>. QED  BY <1>3, <1>4, <1>5, <1>6 DEF DInv

\* A step of the timer touches no file and no upload.
LEMMA FayllarTurgunL ==
  ASSUME FaylEgasi, UNCHANGED <<disk, yuklash, nomlangan, tarix>>,
         \A d \in DarsIdlar : Nomlangan(d)' =>
            Nomlangan(d) /\ darslar'[d].video = darslar[d].video
  PROVE  FaylEgasi'
BY DEF FaylEgasi

LEMMA pending_uploadL ==
  ASSUME DInv, pending_upload PROVE DInv'
<1>1. DTuri /\ FaylEgasi /\ NusxaOzidan /\ NavbatTogri  BY DEF DInv
<1>2. PICK ids \in SetToSeqs(Navbatdagilar) :
         navbat' = [i \in DOMAIN ids |-> <<ids[i], darslar[ids[i]].video>>]
  BY DEF pending_upload
<1>3. navbat = <<>> /\ UNCHANGED <<darslar, disk, yuklash, javob, nomlangan, tarix, yuborilgan>>
  BY DEF pending_upload
<1>4. PICK n \in Nat : n = Cardinality(Navbatdagilar)
  <2>1. Navbatdagilar \subseteq DarsIdlar  BY DEF Navbatdagilar, Kutayotganlar
  <2>2. IsFiniteSet(Navbatdagilar)  BY <2>1, DarsFarazi, FS_Subset
  <2>. QED  BY <2>2, FS_CardinalityType
<1>5. /\ DOMAIN ids = 1..n /\ \A i \in 1..n : ids[i] \in Navbatdagilar
      /\ \A i, k \in 1..n : ids[i] = ids[k] => i = k
  BY <1>2, <1>4 DEF SetToSeqs
<1>6. \A i \in 1..n : /\ ids[i] \in DarsIdlar /\ Nomlangan(ids[i])
                      /\ darslar[ids[i]].file_id = Hech
  BY <1>5 DEF Navbatdagilar, Kutayotganlar, Nomlangan
<1>7. \A i \in 1..n : darslar[ids[i]].video \in Fayllar /\ darslar[ids[i]].video \in tarix[ids[i]]
  BY <1>1, <1>6 DEF FaylEgasi, DTuri
<1>8. /\ navbat' \in Seq(DarsIdlar \X Fayllar) /\ DOMAIN navbat' = 1..n
      /\ \A i \in 1..n : navbat'[i][1] = ids[i] /\ navbat'[i][2] = darslar[ids[i]].video
  <2>1. navbat' = [i \in 1..n |-> <<ids[i], darslar[ids[i]].video>>]  BY <1>2, <1>5
  <2>2. \A i \in 1..n : <<ids[i], darslar[ids[i]].video>> \in DarsIdlar \X Fayllar
    BY <1>6, <1>7
  <2>3. navbat' \in [1..n -> DarsIdlar \X Fayllar]  BY <2>1, <2>2
  <2>. QED  BY <2>1, <2>3
<1>9. javob = Hech  BY <1>1, <1>3 DEF NavbatTogri
<1>10. \A d \in DarsIdlar : darslar[d] # Hech /\ darslar[d].file_id = Hech => yuborilgan[d] = 0
  BY <1>1, <1>9 DEF NavbatTogri
<1>11. DTuri'  BY <1>1, <1>3, <1>8 DEF DTuri
<1>12. FaylEgasi'  BY <1>1, <1>3, FayllarTurgunL DEF Nomlangan
<1>13. NusxaOzidan'  BY <1>1, <1>3 DEF NusxaOzidan
<1>14. NavbatTogri'
  <2>1. \A i \in DOMAIN navbat' : navbat'[i][2] \in tarix[navbat'[i][1]]  BY <1>7, <1>8
  <2>2. \A i, k \in DOMAIN navbat' : navbat'[i][1] = navbat'[k][1] => i = k  BY <1>5, <1>8
  <2>3. \A i \in DOMAIN navbat' : yuborilgan[navbat'[i][1]] = 0
    BY <1>6, <1>8, <1>10 DEF Nomlangan
  <2>. QED  BY <1>3, <1>9, <1>10, <2>1, <2>2, <2>3 DEF NavbatTogri
<1>. QED  BY <1>11, <1>12, <1>13, <1>14 DEF DInv

\* The head of the list, and what is left of it without.
LEMMA DumL ==
  ASSUME DTuri, navbat # <<>>
  PROVE  /\ Head(navbat) = navbat[1] /\ 1 \in DOMAIN navbat
         /\ navbat[1][1] \in DarsIdlar /\ navbat[1][2] \in Fayllar
         /\ Tail(navbat) \in Seq(DarsIdlar \X Fayllar)
         /\ \A i \in DOMAIN Tail(navbat) :
               /\ i + 1 \in DOMAIN navbat /\ i + 1 # 1 /\ i \in Nat
               /\ Tail(navbat)[i] = navbat[i + 1]
<1>1. PICK q \in Seq(DarsIdlar \X Fayllar) : q = navbat /\ q # <<>>  BY DEF DTuri
<1>2. Len(q) \in Nat /\ Len(q) > 0 /\ DOMAIN q = 1..Len(q)  BY <1>1
<1>3. 1 \in DOMAIN q  BY <1>2
<1>4. q[1] \in DarsIdlar \X Fayllar  BY <1>1, <1>3
<1>5. Tail(q) \in Seq(DarsIdlar \X Fayllar) /\ Len(Tail(q)) = Len(q) - 1
      /\ \A i \in 1..(Len(q) - 1) : Tail(q)[i] = q[i + 1]
  BY <1>1
<1>6. DOMAIN Tail(q) = 1..(Len(q) - 1)  BY <1>5
<1>7. \A i \in 1..(Len(q) - 1) : i + 1 \in 1..Len(q) /\ i + 1 # 1 /\ i \in Nat  BY <1>2
<1>8. Head(q) = q[1]  OBVIOUS
<1>. QED  BY <1>1, <1>2, <1>3, <1>4, <1>5, <1>6, <1>7, <1>8

\* The list goes on: what held of it beyond its head holds of what is left.
LEMMA KeyingisiL ==
  ASSUME DTuri, NavbatTogri, navbat # <<>>, navbat' = Tail(navbat), javob' = Hech,
         UNCHANGED <<tarix, yuborilgan>>,
         \A d \in DarsIdlar : darslar'[d] # Hech /\ darslar'[d].file_id = Hech =>
            yuborilgan[d] = 0,
         javob = Hech \/ \A i \in DOMAIN navbat : i # 1 => yuborilgan[navbat[i][1]] = 0
  PROVE  NavbatTogri'
<1>1. \A i \in DOMAIN navbat' : /\ i + 1 \in DOMAIN navbat /\ i + 1 # 1 /\ i \in Nat
                                /\ navbat'[i] = navbat[i + 1]
  BY DumL
<1>2. \A i \in DOMAIN navbat' : navbat'[i][2] \in tarix[navbat'[i][1]]
  BY <1>1 DEF NavbatTogri
<1>3. ASSUME NEW i \in DOMAIN navbat', NEW k \in DOMAIN navbat', navbat'[i][1] = navbat'[k][1]
      PROVE  i = k
  <2>1. i + 1 = k + 1  BY <1>1, <1>3 DEF NavbatTogri
  <2>2. i \in Nat /\ k \in Nat  BY <1>1
  <2>. QED  BY <2>1, <2>2
<1>4. \A i \in DOMAIN navbat' : yuborilgan[navbat'[i][1]] = 0  BY <1>1 DEF NavbatTogri
<1>. QED  BY <1>2, <1>3, <1>4 DEF NavbatTogri

LEMMA YuborilmaydiL ==
  ASSUME DInv, Yuborilmaydi PROVE DInv'
<1>1. DTuri /\ FaylEgasi /\ NusxaOzidan /\ NavbatTogri  BY DEF DInv
<1>2. /\ navbat # <<>> /\ javob = Hech /\ navbat' = Tail(navbat)
      /\ UNCHANGED <<darslar, disk, yuklash, javob, nomlangan, tarix, yuborilgan>>
  BY DEF Yuborilmaydi
<1>3. DTuri'  BY <1>1, <1>2, DumL DEF DTuri
<1>4. FaylEgasi'  BY <1>1, <1>2, FayllarTurgunL DEF Nomlangan
<1>5. NusxaOzidan'  BY <1>1, <1>2 DEF NusxaOzidan
<1>6. \A d \in DarsIdlar : darslar'[d] # Hech /\ darslar'[d].file_id = Hech => yuborilgan[d] = 0
  BY <1>1, <1>2 DEF NavbatTogri
<1>7. NavbatTogri'  BY <1>1, <1>2, <1>6, KeyingisiL
<1>. QED  BY <1>3, <1>4, <1>5, <1>7 DEF DInv

LEMMA YuboriladiL ==
  ASSUME DInv, Yuboriladi PROVE DInv'
<1>1. DTuri /\ FaylEgasi /\ NusxaOzidan /\ NavbatTogri  BY DEF DInv
<1>2. PICK d \in DarsIdlar, f \in Fayllar : d = navbat[1][1] /\ f = navbat[1][2]
  BY <1>1, DumL DEF Yuboriladi
<1>3. /\ navbat # <<>> /\ javob = Hech /\ javob' = f
      /\ yuborilgan' = [yuborilgan EXCEPT ![d] = @ + 1]
      /\ UNCHANGED <<darslar, disk, yuklash, navbat, nomlangan, tarix>>
  BY <1>1, <1>2, DumL DEF Yuboriladi
<1>4. 1 \in DOMAIN navbat /\ f # Hech  BY <1>1, <1>3, DumL, DarsFarazi
<1>5. yuborilgan[d] = 0  BY <1>1, <1>2, <1>3, <1>4 DEF NavbatTogri
<1>6. /\ yuborilgan' \in [DarsIdlar -> 0..1] /\ yuborilgan'[d] = 1
      /\ \A e \in DarsIdlar \ {d} : yuborilgan'[e] = yuborilgan[e]
  <2>1. yuborilgan' = [yuborilgan EXCEPT ![d] = 1]  BY <1>3, <1>5
  <2>. QED  BY <1>1, <2>1 DEF DTuri
<1>7. DTuri'  BY <1>1, <1>3, <1>6 DEF DTuri
<1>8. FaylEgasi'  BY <1>1, <1>3, FayllarTurgunL DEF Nomlangan
<1>9. NusxaOzidan'  BY <1>1, <1>3 DEF NusxaOzidan
<1>10. NavbatTogri'
  <2>1. \A i \in DOMAIN navbat : i # 1 => navbat[i][1] \in DarsIdlar \ {d}
    <3>1. \A i \in DOMAIN navbat : navbat[i][1] \in DarsIdlar
      <4>1. navbat \in Seq(DarsIdlar \X Fayllar)  BY <1>1 DEF DTuri
      <4>. QED  BY <4>1
    <3>. QED  BY <1>1, <1>2, <1>4, <3>1 DEF NavbatTogri
  <2>2. \A i \in DOMAIN navbat : i # 1 => yuborilgan'[navbat[i][1]] = 0
    BY <1>1, <1>3, <1>6, <2>1 DEF NavbatTogri
  <2>3. \A e \in DarsIdlar : darslar[e] # Hech /\ darslar[e].file_id = Hech =>
           yuborilgan'[e] = 0 \/ e = navbat[1][1]
    BY <1>1, <1>2, <1>3, <1>6 DEF NavbatTogri
  <2>. QED  BY <1>1, <1>2, <1>3, <1>4, <2>2, <2>3 DEF NavbatTogri
<1>. QED  BY <1>7, <1>8, <1>9, <1>10 DEF DInv

LEMMA set_file_idL ==
  ASSUME DInv, set_file_id PROVE DInv'
<1>1. DTuri /\ FaylEgasi /\ NusxaOzidan /\ NavbatTogri  BY DEF DInv
<1>2. navbat # <<>> /\ javob # Hech  BY DEF set_file_id
<1>3. PICK d \in DarsIdlar, f \in Fayllar : d = navbat[1][1] /\ f = navbat[1][2]
  BY <1>1, <1>2, DumL
<1>4. /\ darslar' = (IF darslar[d] = Hech THEN darslar
                     ELSE [darslar EXCEPT ![d].file_id = javob])
      /\ navbat' = Tail(navbat) /\ javob' = Hech
      /\ UNCHANGED <<disk, yuklash, nomlangan, tarix, yuborilgan>>
  BY <1>1, <1>2, <1>3, DumL DEF set_file_id, Egasi
<1>5. f = javob /\ f \in tarix[d]
  BY <1>1, <1>2, <1>3, DumL DEF NavbatTogri
<1>6. f # Hech  BY DarsFarazi
<1>7. /\ darslar' \in [DarsIdlar -> DarsTuri \cup {Hech}]
      /\ \A e \in DarsIdlar \ {d} : darslar'[e] = darslar[e]
      /\ darslar'[d] # Hech => darslar[d] # Hech
      /\ darslar[d] # Hech => /\ darslar'[d].file_id = f
                              /\ darslar'[d].video = darslar[d].video
  <2>1. CASE darslar[d] = Hech  BY <1>1, <1>4, <2>1 DEF DTuri
  <2>2. CASE darslar[d] # Hech
    <3>1. PICK r \in DarsTuri : r = darslar[d]  BY <1>1, <2>2 DEF DTuri
    <3>2. darslar' = [darslar EXCEPT ![d] = [r EXCEPT !.file_id = f]]
      BY <1>1, <1>4, <1>5, <2>2, <3>1 DEF DTuri
    <3>3. [r EXCEPT !.file_id = f] \in DarsTuri  BY DEF DarsTuri
    <3>4. darslar'[d] = [r EXCEPT !.file_id = f]  BY <1>1, <3>2 DEF DTuri
    <3>5. darslar'[d].file_id = f /\ darslar'[d].video = r.video  BY <3>4 DEF DarsTuri
    <3>. QED  BY <1>1, <2>2, <3>1, <3>2, <3>3, <3>5 DEF DTuri
  <2>. QED  BY <2>1, <2>2
<1>8. DTuri'  BY <1>1, <1>2, <1>4, <1>7, DumL DEF DTuri
<1>9. FaylEgasi'
  <2>1. \A e \in DarsIdlar : Nomlangan(e)' => Nomlangan(e) /\ darslar'[e].video = darslar[e].video
    BY <1>7 DEF Nomlangan
  <2>. QED  BY <1>1, <1>4, <2>1, FayllarTurgunL
<1>10. NusxaOzidan'  BY <1>1, <1>4, <1>5, <1>7 DEF NusxaOzidan
<1>11. \A e \in DarsIdlar : darslar'[e] # Hech /\ darslar'[e].file_id = Hech => yuborilgan[e] = 0
  BY <1>1, <1>3, <1>6, <1>7 DEF NavbatTogri
<1>12. NavbatTogri'
  <2>1. \A i \in DOMAIN navbat : i # 1 => yuborilgan[navbat[i][1]] = 0
    BY <1>1 DEF NavbatTogri
  <2>. QED  BY <1>1, <1>2, <1>4, <1>11, <2>1, KeyingisiL
<1>. QED  BY <1>8, <1>9, <1>10, <1>12 DEF DInv

LEMMA DBotQaytaL ==
  ASSUME DInv, DBotQayta PROVE DInv'
<1>1. DTuri /\ FaylEgasi /\ NusxaOzidan /\ NavbatTogri  BY DEF DInv
<1>2. /\ navbat' = <<>> /\ javob' = Hech /\ yuborilgan' = [d \in DarsIdlar |-> 0]
      /\ UNCHANGED <<darslar, disk, yuklash, nomlangan, tarix>>
  BY DEF DBotQayta
<1>3. <<>> \in Seq(DarsIdlar \X Fayllar) /\ DOMAIN <<>> = {}  OBVIOUS
<1>4. DTuri'  BY <1>1, <1>2, <1>3 DEF DTuri
<1>5. FaylEgasi'  BY <1>1, <1>2, FayllarTurgunL DEF Nomlangan
<1>6. NusxaOzidan'  BY <1>1, <1>2 DEF NusxaOzidan
<1>7. NavbatTogri'  BY <1>2, <1>3 DEF NavbatTogri
<1>. QED  BY <1>4, <1>5, <1>6, <1>7 DEF DInv

LEMMA DQadamL ==
  ASSUME DInv, [DNext]_dvars PROVE DInv'
<1>1. CASE DNext
  <2>1. ASSUME NEW y \in yuklash, videoBiriktir(y) \/ FaylOchadi(y) \/ YuklashUziladi(y)
        PROVE  DInv'
    BY <2>1, videoBiriktirL, FaylOchadiL, YuklashUziladiL
  <2>. QED
    BY <1>1, <2>1, darsSaqlaL, darsOchirL, FaylYoziladiL, pending_uploadL, YuborilmaydiL,
       YuboriladiL, set_file_idL, DBotQaytaL
    DEF DNext
<1>2. CASE UNCHANGED dvars
  <2>1. DTuri /\ FaylEgasi /\ NusxaOzidan /\ NavbatTogri  BY DEF DInv
  <2>2. UNCHANGED <<darslar, disk, yuklash, navbat, javob, nomlangan, tarix, yuborilgan>>
    BY <1>2 DEF dvars
  <2>3. DTuri' /\ NusxaOzidan' /\ NavbatTogri'
    BY <2>1, <2>2 DEF DTuri, NusxaOzidan, NavbatTogri
  <2>4. FaylEgasi'  BY <2>1, <2>2, FayllarTurgunL DEF Nomlangan
  <2>. QED  BY <2>3, <2>4 DEF DInv
<1>. QED  BY <1>1, <1>2

\* The video a lesson plays is there in the middle of any replacement, its copy in
\* Telegram is of a file of its own, and it is sent once, whatever uploads, deletions,
\* broken passes of the timer and restarts come together (route.ts, pending_upload).
THEOREM DarsTeoremasi == DSpec => []DarsButun
<1>1. DInit => DInv  BY DBoshL
<1>2. DInv /\ [DNext]_dvars => DInv'  BY DQadamL
<1>3. DInv => DarsButun
  <2>. SUFFICES ASSUME DInv PROVE DarsButun  OBVIOUS
  <2>1. VideoDiskda  BY DEF DInv, FaylEgasi, Nomlangan, VideoDiskda
  <2>2. BirMartaYuboriladi  BY DEF DInv, DTuri, BirMartaYuboriladi
  <2>. QED  BY <2>1, <2>2 DEF DInv, DarsButun
<1>. QED  BY <1>1, <1>2, <1>3, PTL DEF DSpec

(************************************ Dialogs ***********************************)

\* The three sources of a needed key: the last handler reads it, the button that
\* opens the form writes it, a step of the manual signal's path has written it.
OxirgisiOqiydi(h, x) == \E y \in Yakunlar : y.holat = h /\ x \in y.oqiydi /\ x # "title"
TugmaYozadi(h, x) == \E s \in Savollar \cup KechSavollar : s.holat = h /\ x \in s.yozadi
YoldaYozilgan(h, x) ==
    \E k \in 1..5, n \in 1..5 : k <= n /\ SignalYoli[n].keyin = h /\ x \in SignalYoli[k].yozadi

LEMMA KalitL ==
  ASSUME NEW h, NEW x
  PROVE  x \in KerakliKalitlar(h) <=>
            OxirgisiOqiydi(h, x) \/ TugmaYozadi(h, x) \/ YoldaYozilgan(h, x)
<1>1. x \in ((UNION {y.oqiydi : y \in {z \in Yakunlar : z.holat = h}}) \ {"title"})
        <=> OxirgisiOqiydi(h, x)
  BY DEF OxirgisiOqiydi
<1>2. x \in UNION {s.yozadi : s \in {z \in Savollar \cup KechSavollar : z.holat = h}}
        <=> TugmaYozadi(h, x)
  BY DEF TugmaYozadi
<1>3. x \in UNION {SignalYoli[k].yozadi :
                      k \in {i \in 1..5 : \E n \in i..5 : SignalYoli[n].keyin = h}}
        <=> YoldaYozilgan(h, x)
  BY DEF YoldaYozilgan
<1>. QED  BY <1>1, <1>2, <1>3 DEF KerakliKalitlar

\* The three sources, written out.
LEMMA YakunJadvalL ==
  ASSUME NEW h, NEW x
  PROVE  OxirgisiOqiydi(h, x) <=>
            \/ h = "rad_sababi" /\ x = "payment_id"
            \/ h = "narx_rekvizit" /\ x \in {"tier", "period", "currency", "amount"}
            \/ h = "coin_sabab" /\ x \in {"symbol", "status"}
            \/ h = "buzar_sabab" /\ x \in {"user_id", "telegram_id"}
            \/ h = "dars_fayli" /\ x = "min_tier"
            \/ h = "chek" /\ x \in {"tier", "period", "amount", "currency"}
            \/ h = "kirim" /\ x \in {"signal_id", "entry_price", "symbol"}
BY DEF OxirgisiOqiydi, Yakunlar, Yakun, reject_payment, price_save, coin_save, violation_apply,
       broadcast_send, content_save, receive_receipt, save_position, save_balance

LEMMA TugmaJadvalL ==
  ASSUME NEW h, NEW x
  PROVE  TugmaYozadi(h, x) <=>
            \/ h = "rad_sababi" /\ x = "payment_id"
            \/ h = "narx_summa" /\ x \in {"tier", "period", "currency"}
            \/ h = "coin_sabab" /\ x \in {"symbol", "status"}
            \/ h = "dars_fayli" /\ x = "min_tier"
            \/ h = "chek" /\ x \in {"tier", "period", "amount", "currency"}
            \/ h = "kirim" /\ x \in {"signal_id", "entry_price", "symbol"}
BY DEF TugmaYozadi, Savollar, KechSavollar, Savol, signal_ask_symbol, ask_reject_reason,
       price_ask_amount, coin_ask_reason, violation_ask_user, broadcast_ask, content_ask_title,
       content_ask_file, ask_balance, halal_list, show_payment_details, sig_enter

LEMMA YolJadvalL ==
  ASSUME NEW h, NEW x
  PROVE  YoldaYozilgan(h, x) <=>
            \/ x = "symbol" /\ h \in SignalFlow \ {"signal_nomi"}
            \/ x = "entry" /\ h \in SignalFlow \ {"signal_nomi", "signal_kirish"}
            \/ x = "stop" /\ h \in {"signal_tp1", "signal_tp2", "signal_izoh"}
            \/ x = "tp1" /\ h \in {"signal_tp2", "signal_izoh"}
            \/ x = "tp2" /\ h = "signal_izoh"
<1>1. \A n \in 1..5 : n = 1 \/ n = 2 \/ n = 3 \/ n = 4 \/ n = 5  OBVIOUS
<1>2. /\ SignalYoli[1].keyin = "signal_kirish" /\ SignalYoli[1].yozadi = {"symbol"}
      /\ SignalYoli[2].keyin = "signal_stop" /\ SignalYoli[2].yozadi = {"entry"}
      /\ SignalYoli[3].keyin = "signal_tp1" /\ SignalYoli[3].yozadi = {"stop"}
      /\ SignalYoli[4].keyin = "signal_tp2" /\ SignalYoli[4].yozadi = {"tp1"}
      /\ SignalYoli[5].keyin = "signal_izoh" /\ SignalYoli[5].yozadi = {"tp2"}
  BY DEF SignalYoli, Javob, signal_ask_entry, signal_ask_stop, signal_ask_tp1, signal_ask_tp2,
         signal_ask_note
<1>3. 1 \in 1..5 /\ 2 \in 1..5 /\ 3 \in 1..5 /\ 4 \in 1..5 /\ 5 \in 1..5  OBVIOUS
<1>4. ASSUME NEW k \in 1..5
      PROVE  (\E n \in 1..5 : k <= n /\ SignalYoli[n].keyin = h) <=>
                \/ (k <= 1 /\ h = "signal_kirish") \/ (k <= 2 /\ h = "signal_stop")
                \/ (k <= 3 /\ h = "signal_tp1") \/ (k <= 4 /\ h = "signal_tp2")
                \/ (k <= 5 /\ h = "signal_izoh")
  BY <1>1, <1>2, <1>3
<1>5. YoldaYozilgan(h, x) <=>
         \E k \in 1..5 : /\ \E n \in 1..5 : k <= n /\ SignalYoli[n].keyin = h
                         /\ x \in SignalYoli[k].yozadi
  BY DEF YoldaYozilgan
<1>. QED  BY <1>1, <1>2, <1>3, <1>4, <1>5 DEF SignalFlow

\* A button leaves the form it opens with all it needs, and so does a step of a form.
LEMMA SavolL ==
  ASSUME NEW s \in Savollar \cup KechSavollar
  PROVE  KerakliKalitlar(s.holat) \subseteq s.yozadi
<1>. SUFFICES ASSUME NEW x \in KerakliKalitlar(s.holat) PROVE x \in s.yozadi  OBVIOUS
<1>1. OxirgisiOqiydi(s.holat, x) \/ TugmaYozadi(s.holat, x) \/ YoldaYozilgan(s.holat, x)
  BY KalitL
<1>. QED
  BY <1>1, YakunJadvalL, TugmaJadvalL, YolJadvalL
  DEF SignalFlow, Savollar, KechSavollar, Savol, signal_ask_symbol, ask_reject_reason,
      price_ask_amount, coin_ask_reason, violation_ask_user, broadcast_ask, content_ask_title,
      content_ask_file, ask_balance, halal_list, show_payment_details, sig_enter

LEMMA JavobL ==
  ASSUME NEW j \in Javoblar \cup {violation_ask_reason}
  PROVE  KerakliKalitlar(j.keyin) \subseteq KerakliKalitlar(j.holat) \cup j.yozadi
<1>. SUFFICES ASSUME NEW x \in KerakliKalitlar(j.keyin), x \notin j.yozadi
              PROVE  x \in KerakliKalitlar(j.holat)
  OBVIOUS
<1>1. OxirgisiOqiydi(j.keyin, x) \/ TugmaYozadi(j.keyin, x) \/ YoldaYozilgan(j.keyin, x)
  BY KalitL
<1>2. OxirgisiOqiydi(j.holat, x) \/ TugmaYozadi(j.holat, x) \/ YoldaYozilgan(j.holat, x)
  BY <1>1, YakunJadvalL, TugmaJadvalL, YolJadvalL
  DEF SignalFlow, Javoblar, Javob, signal_ask_entry, signal_ask_stop, signal_ask_tp1,
      signal_ask_tp2, signal_ask_note, price_ask_details, coin_choose_status, content_ask_tier,
      violation_ask_reason
<1>. QED  BY <1>2, KalitL

LEMMA QaytaSoralganL == KerakliKalitlar("signal_stop") \subseteq KerakliKalitlar("signal_izoh")
<1>. SUFFICES ASSUME NEW x \in KerakliKalitlar("signal_stop")
              PROVE  x \in KerakliKalitlar("signal_izoh")
  OBVIOUS
<1>1. YoldaYozilgan("signal_stop", x)  BY KalitL, YakunJadvalL, TugmaJadvalL
<1>2. YoldaYozilgan("signal_izoh", x)  BY <1>1, YolJadvalL DEF SignalFlow
<1>. QED  BY <1>2, KalitL

\* What waits was asked for by somebody it is for, and its form with it; a message
\* that came to a form still finds there what the form had, unless a clear came between.
Haq(v) ==
    (v.ish = "javob" \/ (v.ish \in {"savol", "xabar"} /\ v.holat \in AdminFormalar)) => admin
Topadi(v) ==
    v.ish = "xabar" /\ v.tozalandi = FALSE /\ yirtiq = FALSE => KerakliKalitlar(v.holat) \subseteq maydonlar

VazifaTuri ==
    [ish : {"savol", "xabar", "javob", "yakun", "namoyish", "buyruq", "ekran"},
     holat : FormaTurlari \cup {"start", "panel"}, son : 1..MaxVazifa, tozalandi : BOOLEAN]

KutganTogri == vazifalar \subseteq VazifaTuri /\ \A v \in vazifalar : Haq(v) /\ Topadi(v)

FTogri ==
    /\ forma \in FormaTurlari \cup {"yoq"} /\ yirtiq \in BOOLEAN
    /\ FormaButun /\ AdminFormasi

FInv == FTogri /\ KutganTogri

LEMMA FInvL == FInv => DialogButun
BY DEF FInv, FTogri, KutganTogri, DialogButun, FTypeOK, VazifaTuri

\* The states and the tasks the handlers name.
LEMMA SavolTuriL ==
  ASSUME NEW s \in Savollar \cup KechSavollar
  PROVE  s.holat \in FormaTurlari /\ (s.holat \in AdminFormalar => s.kim = "admin")
BY DEF FormaTurlari, AdminFormalar, SignalFlow, Savollar, KechSavollar, Savol, signal_ask_symbol,
      ask_reject_reason, price_ask_amount, coin_ask_reason, violation_ask_user, broadcast_ask,
      content_ask_title, content_ask_file, ask_balance, halal_list, show_payment_details, sig_enter

LEMMA JavobTuriL ==
  ASSUME NEW j \in Javoblar \cup {violation_ask_reason}
  PROVE  j.keyin \in AdminFormalar /\ j.holat \in AdminFormalar
BY DEF AdminFormalar, SignalFlow, Javoblar, Javob, signal_ask_entry, signal_ask_stop,
      signal_ask_tp1, signal_ask_tp2, signal_ask_note, price_ask_details, coin_choose_status,
      content_ask_tier, violation_ask_reason

LEMMA YakunTuriL ==
  ASSUME NEW y \in Yakunlar \cup {signal_preview}
  PROVE  y.holat \in FormaTurlari
BY DEF FormaTurlari, AdminFormalar, SignalFlow, Yakunlar, Yakun, reject_payment, price_save,
       coin_save, violation_apply, broadcast_send, content_save, receive_receipt, save_position,
       save_balance, signal_preview

LEMMA YoqL == "yoq" \notin FormaTurlari /\ AdminFormalar \subseteq FormaTurlari
BY DEF FormaTurlari, AdminFormalar, SignalFlow

\* Opening a form with all it needs, by somebody it is for.
LEMMA OchiladiL ==
  ASSUME FTogri, NEW h \in FormaTurlari, NEW K, Ochadi(h, K),
         yirtiq' = FALSE => KerakliKalitlar(h) \subseteq maydonlar \cup K,
         h \in AdminFormalar => admin, yirtiq' \in BOOLEAN, UNCHANGED admin
  PROVE  FTogri'
<1>1. forma' = h /\ maydonlar' = maydonlar \cup K /\ admin' = admin  BY DEF Ochadi
<1>2. ~yirtiq' => yirtiq' = FALSE  OBVIOUS
<1>. QED  BY <1>1, <1>2 DEF FTogri, FormaButun, AdminFormasi

LEMMA TozaL ==
  ASSUME forma' = "yoq", yirtiq' = FALSE PROVE FTogri'
BY YoqL DEF FTogri, FormaButun, AdminFormasi

\* The form is as it was, and the person too.
LEMMA FormaTurgunL ==
  ASSUME FTogri, FormaTurgun PROVE FTogri'
BY DEF FTogri, FormaTurgun, FormaButun, AdminFormasi

\* What stays waiting stays right: the keys only grow, a tear only comes.
LEMMA QoladiL ==
  ASSUME KutganTogri, NEW V, V \subseteq vazifalar, vazifalar' = V, maydonlar \subseteq maydonlar',
         yirtiq' = FALSE => yirtiq = FALSE, UNCHANGED admin
  PROVE  KutganTogri'
<1>1. vazifalar' \subseteq VazifaTuri  BY DEF KutganTogri
<1>2. ASSUME NEW v \in vazifalar' PROVE Haq(v)' /\ Topadi(v)'
  <2>1. v \in vazifalar /\ Haq(v) /\ Topadi(v)  BY DEF KutganTogri
  <2>. QED  BY <2>1 DEF Haq, Topadi
<1>. QED  BY <1>1, <1>2 DEF KutganTogri

\* One task more, right in itself.
LEMMA KutadiL ==
  ASSUME FInv, FormaTurgun, NEW V, V \subseteq vazifalar,
         NEW turi \in {"savol", "xabar", "javob", "yakun", "namoyish", "buyruq", "ekran"},
         NEW h \in FormaTurlari \cup {"start", "panel"}, Kutadi(V, turi, h),
         (turi = "javob" \/ (turi \in {"savol", "xabar"} /\ h \in AdminFormalar)) => admin,
         turi = "xabar" => h = forma /\ h # "yoq"
  PROVE  FInv'
<1>1. FTogri'  BY FormaTurgunL DEF FInv
<1>2. PICK n \in 1..MaxVazifa :
         vazifalar' = V \cup {[ish |-> turi, holat |-> h, son |-> n, tozalandi |-> FALSE]}
  BY DEF Kutadi
<1>. DEFINE w == [ish |-> turi, holat |-> h, son |-> n, tozalandi |-> FALSE]
<1>3. w \in VazifaTuri  BY DEF VazifaTuri
<1>4. w.ish = turi /\ w.holat = h  OBVIOUS
<1>5. vazifalar' = V \cup {w}  BY <1>2
<1>6. UNCHANGED <<forma, maydonlar, admin, yirtiq>>  BY DEF FormaTurgun
<1>. HIDE DEF w
<1>7. Haq(w)'  BY <1>4, <1>6 DEF Haq
<1>8. Topadi(w)'
  <2>. SUFFICES ASSUME turi = "xabar", yirtiq = FALSE
                PROVE  KerakliKalitlar(h) \subseteq maydonlar
    BY <1>4, <1>6 DEF Topadi
  <2>. QED  BY DEF FInv, FTogri, FormaButun
<1>9. vazifalar' \subseteq VazifaTuri  BY <1>3, <1>5 DEF FInv, KutganTogri
<1>10. ASSUME NEW v \in vazifalar', v # w PROVE Haq(v)' /\ Topadi(v)'
  <2>1. v \in vazifalar  BY <1>5, <1>10
  <2>2. Haq(v) /\ Topadi(v)  BY <2>1 DEF FInv, KutganTogri
  <2>. QED  BY <2>2, <1>6 DEF Haq, Topadi
<1>. QED  BY <1>1, <1>7, <1>8, <1>9, <1>10 DEF FInv, KutganTogri

\* A clear, beside whatever waits.
LEMMA TozalangandaL ==
  ASSUME KutganTogri, NEW V, V \subseteq vazifalar, NEW W, W = Tozalangan(V),
         UNCHANGED admin, NEW w \in W
  PROVE  w \in VazifaTuri /\ Haq(w)' /\ Topadi(w)'
<1>1. PICK v \in V : w = [v EXCEPT !.tozalandi = @ \/ v.ish = "xabar"]  BY DEF Tozalangan
<1>2. v \in VazifaTuri /\ Haq(v)  BY DEF KutganTogri
<1>3. (v.tozalandi \/ v.ish = "xabar") \in BOOLEAN  OBVIOUS
<1>4. PICK b \in BOOLEAN : b = (v.tozalandi \/ v.ish = "xabar")  BY <1>3
<1>5. w = [v EXCEPT !.tozalandi = b]  BY <1>1, <1>4
<1>6. w \in VazifaTuri /\ w.ish = v.ish /\ w.holat = v.holat /\ w.tozalandi = b
  BY <1>2, <1>5 DEF VazifaTuri
<1>7. v.ish = "xabar" => b = TRUE  BY <1>4
<1>8. Haq(w)'  BY <1>2, <1>6 DEF Haq
<1>9. Topadi(w)'  BY <1>6, <1>7 DEF Topadi
<1>. QED  BY <1>6, <1>8, <1>9

LEMMA TozalashL ==
  ASSUME FInv, NEW V, V \subseteq vazifalar, Tozalash(V), UNCHANGED admin PROVE FInv'
<1>1. FTogri'  BY TozaL DEF Tozalash
<1>2. vazifalar' = Tozalangan(V)  BY DEF Tozalash
<1>3. \A w \in vazifalar' : w \in VazifaTuri /\ Haq(w)' /\ Topadi(w)'
  BY <1>2, TozalangandaL DEF FInv
<1>. QED  BY <1>1, <1>3 DEF FInv, KutganTogri

LEMMA KutganL ==
  ASSUME NEW turi, NEW h, NEW v \in Kutgan(turi, h)
  PROVE  v \in vazifalar /\ v.ish = turi /\ v.holat = h /\ Qoladi(v) \subseteq vazifalar
BY DEF Kutgan, Qoladi

\* A task that ends and leaves the form as it is.
LEMMA TugaydiL ==
  ASSUME FInv, NEW v \in vazifalar, vazifalar' = Qoladi(v), FormaTurgun PROVE FInv'
<1>1. FTogri'  BY FormaTurgunL DEF FInv
<1>2. Qoladi(v) \subseteq vazifalar  BY DEF Qoladi
<1>3. KutganTogri'  BY <1>2, QoladiL DEF FInv, FormaTurgun
<1>. QED  BY <1>1, <1>3 DEF FInv

LEMMA FBoshL ==
  ASSUME FInit PROVE FInv
BY YoqL DEF FInit, FInv, FTogri, FormaButun, AdminFormasi, KutganTogri

LEMMA SorabL ==
  ASSUME FInv, NEW s \in Savollar, Sorab(s) PROVE FInv'
<1>1. /\ Haqli(s.kim) /\ Ochadi(s.holat, s.yozadi)
      /\ UNCHANGED <<vazifalar, admin, yirtiq>>
  BY DEF Sorab
<1>2. s.holat \in FormaTurlari /\ (s.holat \in AdminFormalar => admin)
  BY <1>1, SavolTuriL DEF Haqli
<1>3. KerakliKalitlar(s.holat) \subseteq maydonlar \cup s.yozadi  BY SavolL
<1>4. FTogri /\ yirtiq' \in BOOLEAN  BY <1>1 DEF FInv, FTogri
<1>5. FTogri'  BY <1>1, <1>2, <1>3, <1>4, OchiladiL
<1>6. maydonlar \subseteq maydonlar'  BY <1>1 DEF Ochadi
<1>7. KutganTogri'  BY <1>1, <1>6, QoladiL DEF FInv
<1>. QED  BY <1>5, <1>7 DEF FInv

LEMMA KechL ==
  ASSUME FInv, NEW s \in KechSavollar, KechBoshlaydi(s) \/ KechSoraydi(s) \/ KechRad(s)
  PROVE  FInv'
<1>1. s.holat \in FormaTurlari /\ (s.holat \in AdminFormalar => s.kim = "admin")
  BY SavolTuriL
<1>2. CASE KechBoshlaydi(s)
  <2>1. Haqli(s.kim) /\ Kutadi(vazifalar, "savol", s.holat) /\ FormaTurgun
    BY <1>2 DEF KechBoshlaydi
  <2>2. s.holat \in AdminFormalar => admin  BY <1>1, <2>1 DEF Haqli
  <2>. QED  BY <1>1, <2>1, <2>2, KutadiL
<1>3. CASE KechSoraydi(s)
  <2>1. PICK v \in Kutgan("savol", s.holat) :
          vazifalar' = Qoladi(v) /\ Ochadi(s.holat, s.yozadi) /\ UNCHANGED <<admin, yirtiq>>
    BY <1>3 DEF KechSoraydi
  <2>2. v \in vazifalar /\ v.ish = "savol" /\ v.holat = s.holat /\ Qoladi(v) \subseteq vazifalar
    BY KutganL
  <2>3. s.holat \in AdminFormalar => admin  BY <2>2 DEF FInv, KutganTogri, Haq
  <2>4. KerakliKalitlar(s.holat) \subseteq maydonlar \cup s.yozadi  BY SavolL
  <2>5. FTogri /\ yirtiq' \in BOOLEAN  BY <2>1 DEF FInv, FTogri
  <2>6. FTogri'  BY <1>1, <2>1, <2>3, <2>4, <2>5, OchiladiL
  <2>7. maydonlar \subseteq maydonlar'  BY <2>1 DEF Ochadi
  <2>8. KutganTogri'  BY <2>1, <2>2, <2>7, QoladiL DEF FInv
  <2>. QED  BY <2>6, <2>8 DEF FInv
<1>4. CASE KechRad(s)  BY <1>4, KutganL, TugaydiL DEF KechRad
<1>. QED  BY <1>2, <1>3, <1>4

LEMMA XabarL ==
  ASSUME FInv, XabarKeladi \/ XabarRad PROVE FInv'
<1>1. CASE XabarKeladi
  <2>1. forma # "yoq" /\ Kutadi(vazifalar, "xabar", forma) /\ FormaTurgun  BY <1>1 DEF XabarKeladi
  <2>2. forma \in FormaTurlari /\ (forma \in AdminFormalar => admin)
    BY <2>1 DEF FInv, FTogri, AdminFormasi
  <2>. QED  BY <2>1, <2>2, KutadiL
<1>2. CASE XabarRad  BY <1>2, TugaydiL DEF XabarRad
<1>. QED  BY <1>1, <1>2

\* An answer goes on with a form whose keys are there; one whose form was cleared
\* leaves a form torn, but for an answer that writes all of it.
LEMMA DavomEtadiL ==
  ASSUME FInv, NEW v \in vazifalar, vazifalar' = Qoladi(v), UNCHANGED admin,
         NEW keyin \in AdminFormalar, NEW K, v.holat \in AdminFormalar,
         DavomEtadi(v, keyin, K),
         \/ v.ish = "xabar" /\ KerakliKalitlar(keyin) \subseteq KerakliKalitlar(v.holat) \cup K
         \/ v.ish = "javob" /\ keyin # v.holat /\ KerakliKalitlar(keyin) \subseteq K
  PROVE  FInv'
<1>. DEFINE h == IF keyin = v.holat THEN forma ELSE keyin
            yirtildi == /\ v.tozalandi /\ keyin # v.holat
                        /\ ~(KerakliKalitlar(keyin) \subseteq K)
<1>1. Ochadi(h, K) /\ yirtiq' = (yirtiq \/ yirtildi)  BY DEF DavomEtadi
<1>2. v \in VazifaTuri /\ Haq(v) /\ Topadi(v) /\ yirtiq \in BOOLEAN
  BY DEF FInv, FTogri, KutganTogri
<1>3. v.tozalandi \in BOOLEAN  BY <1>2 DEF VazifaTuri
<1>4. admin  BY <1>2 DEF Haq
<1>5. yirtildi \in BOOLEAN  OBVIOUS
<1>. HIDE DEF yirtildi
<1>6. yirtiq' \in BOOLEAN /\ (yirtiq' = FALSE => yirtiq = FALSE /\ yirtildi = FALSE)
  BY <1>1, <1>2, <1>5
<1>7. maydonlar \subseteq maydonlar' /\ maydonlar' = maydonlar \cup K  BY <1>1 DEF Ochadi
<1>8. Qoladi(v) \subseteq vazifalar  BY DEF Qoladi
<1>9. KutganTogri'  BY <1>6, <1>7, <1>8, QoladiL DEF FInv
<1>10. FTogri'
  <2>1. CASE keyin = v.holat
    <3>1. forma' = forma /\ admin' = admin  BY <1>1, <2>1 DEF Ochadi
    <3>2. ~yirtiq' => ~yirtiq  BY <1>2, <1>6
    <3>. QED  BY <1>6, <1>7, <3>1, <3>2 DEF FInv, FTogri, FormaButun, AdminFormasi
  <2>2. CASE keyin # v.holat
    <3>1. Ochadi(keyin, K) /\ keyin \in FormaTurlari  BY <1>1, <2>2, YoqL
    <3>2. ASSUME yirtiq' = FALSE PROVE KerakliKalitlar(keyin) \subseteq maydonlar \cup K
      <4>1. yirtiq = FALSE /\ yirtildi = FALSE  BY <1>6, <3>2
      <4>2. v.tozalandi = FALSE \/ KerakliKalitlar(keyin) \subseteq K
        BY <1>3, <2>2, <4>1 DEF yirtildi
      <4>3. CASE v.ish = "xabar" /\ v.tozalandi = FALSE
        BY <1>2, <4>1, <4>3 DEF Topadi
      <4>. QED  BY <4>2, <4>3
    <3>3. FTogri  BY DEF FInv
    <3>. HIDE DEF h
    <3>. QED  BY <1>4, <1>6, <3>1, <3>2, <3>3, OchiladiL
  <2>. QED  BY <2>1, <2>2
<1>. QED  BY <1>9, <1>10 DEF FInv

LEMMA JavobOladiL ==
  ASSUME FInv, NEW j \in Javoblar, JavobOladi(j) PROVE FInv'
<1>1. PICK v \in Kutgan("xabar", j.holat) :
        vazifalar' = Qoladi(v) /\ DavomEtadi(v, j.keyin, j.yozadi) /\ UNCHANGED admin
  BY DEF JavobOladi
<1>2. v \in vazifalar /\ v.ish = "xabar" /\ v.holat = j.holat  BY KutganL
<1>3. j.keyin \in AdminFormalar /\ j.holat \in AdminFormalar  BY JavobTuriL
<1>4. KerakliKalitlar(j.keyin) \subseteq KerakliKalitlar(v.holat) \cup j.yozadi  BY <1>2, JavobL
<1>. QED  BY <1>1, <1>2, <1>3, <1>4, DavomEtadiL

\* The user found late: the form that opens has what it needs whatever the person is
\* in by then, for it writes all of it.
LEMMA BuzarL ==
  ASSUME FInv, BuzarQidiriladi \/ BuzarTopildi \/ BuzarTopilmadi PROVE FInv'
<1>1. /\ violation_ask_reason.holat = "buzar_id" /\ violation_ask_reason.keyin = "buzar_sabab"
      /\ violation_ask_reason.yozadi = {"user_id", "telegram_id"}
  BY DEF violation_ask_reason, Javob
<1>2. /\ "buzar_id" \in AdminFormalar /\ "buzar_sabab" \in AdminFormalar
      /\ "buzar_id" \in FormaTurlari
  BY DEF AdminFormalar, FormaTurlari
<1>3. CASE BuzarQidiriladi
  <2>1. PICK v \in Kutgan("xabar", "buzar_id") :
          Kutadi(Qoladi(v), "javob", "buzar_id") /\ FormaTurgun
    BY <1>1, <1>3 DEF BuzarQidiriladi
  <2>2. v \in vazifalar /\ v.ish = "xabar" /\ v.holat = "buzar_id" /\ Qoladi(v) \subseteq vazifalar
    BY KutganL
  <2>3. admin  BY <1>2, <2>2 DEF FInv, KutganTogri, Haq
  <2>. QED  BY <1>2, <2>1, <2>2, <2>3, KutadiL
<1>4. CASE BuzarTopildi
  <2>1. PICK v \in Kutgan("javob", "buzar_id") :
          /\ vazifalar' = Qoladi(v)
          /\ DavomEtadi(v, "buzar_sabab", {"user_id", "telegram_id"}) /\ UNCHANGED admin
    BY <1>1, <1>4 DEF BuzarTopildi
  <2>2. v \in vazifalar /\ v.ish = "javob" /\ v.holat = "buzar_id"  BY KutganL
  <2>3. KerakliKalitlar("buzar_sabab") \subseteq {"user_id", "telegram_id"}
    BY KalitL, YakunJadvalL, TugmaJadvalL, YolJadvalL DEF SignalFlow
  <2>. QED  BY <1>2, <2>1, <2>2, <2>3, DavomEtadiL
<1>5. CASE BuzarTopilmadi  BY <1>5, KutganL, TugaydiL DEF BuzarTopilmadi
<1>. QED  BY <1>3, <1>4, <1>5

LEMMA YakunL ==
  ASSUME FInv, NEW y \in Yakunlar, Saqlaydi(y) \/ Saqlandi(y) \/ SaqlashYiqiladi(y)
  PROVE  FInv'
<1>1. y.holat \in FormaTurlari  BY YakunTuriL
<1>2. CASE Saqlaydi(y)
  <2>1. PICK v \in Kutgan("xabar", y.holat) : Kutadi(Qoladi(v), "yakun", y.holat) /\ FormaTurgun
    BY <1>2 DEF Saqlaydi
  <2>2. Qoladi(v) \subseteq vazifalar  BY KutganL
  <2>. QED  BY <1>1, <2>1, <2>2, KutadiL
<1>3. CASE Saqlandi(y)
  <2>1. PICK v \in Kutgan("yakun", y.holat) : Tozalash(Qoladi(v)) /\ UNCHANGED admin
    BY <1>3 DEF Saqlandi
  <2>2. Qoladi(v) \subseteq vazifalar  BY KutganL
  <2>. QED  BY <2>1, <2>2, TozalashL
<1>4. CASE SaqlashYiqiladi(y)  BY <1>4, KutganL, TugaydiL DEF SaqlashYiqiladi
<1>. QED  BY <1>2, <1>3, <1>4

LEMMA NamoyishL ==
  ASSUME FInv, TartibXato \/ NarxSoraladi \/ NarxKeldi PROVE FInv'
<1>1. signal_preview.holat = "signal_izoh"  BY DEF signal_preview, Yakun
<1>2. /\ "signal_izoh" \in AdminFormalar /\ "signal_stop" \in AdminFormalar
      /\ "signal_izoh" \in FormaTurlari
  BY DEF AdminFormalar, SignalFlow, FormaTurlari
<1>3. CASE TartibXato
  <2>1. PICK v \in Kutgan("xabar", "signal_izoh") :
          vazifalar' = Qoladi(v) /\ DavomEtadi(v, "signal_stop", {}) /\ UNCHANGED admin
    BY <1>1, <1>3 DEF TartibXato
  <2>2. v \in vazifalar /\ v.ish = "xabar" /\ v.holat = "signal_izoh"  BY KutganL
  <2>3. KerakliKalitlar("signal_stop") \subseteq KerakliKalitlar(v.holat) \cup {}
    BY <2>2, QaytaSoralganL
  <2>. QED  BY <1>2, <2>1, <2>2, <2>3, DavomEtadiL
<1>4. CASE NarxSoraladi
  <2>1. PICK v \in Kutgan("xabar", "signal_izoh") :
          Kutadi(Qoladi(v), "namoyish", "signal_izoh") /\ FormaTurgun
    BY <1>1, <1>4 DEF NarxSoraladi
  <2>2. Qoladi(v) \subseteq vazifalar  BY KutganL
  <2>. QED  BY <1>2, <2>1, <2>2, KutadiL
<1>5. CASE NarxKeldi  BY <1>5, KutganL, TugaydiL DEF NarxKeldi
<1>. QED  BY <1>3, <1>4, <1>5

LEMMA MenyuL ==
  ASSUME FInv, NEW b \in {"start", "panel"},
         BuyruqKeladi(b) \/ MenyuOchadi(b) \/ MenyuChiqadi(b)
  PROVE  FInv'
<1>1. CASE BuyruqKeladi(b)
  <2>1. Kutadi(vazifalar, "buyruq", b) /\ FormaTurgun  BY <1>1 DEF BuyruqKeladi
  <2>. QED  BY <2>1, KutadiL
<1>2. CASE MenyuOchadi(b)
  <2>1. PICK v \in Kutgan("buyruq", b) :
          /\ forma' = "yoq" /\ maydonlar' = {} /\ yirtiq' = FALSE
          /\ Kutadi(Tozalangan(Qoladi(v)), "ekran", b) /\ UNCHANGED admin
    BY <1>2 DEF MenyuOchadi
  <2>2. Qoladi(v) \subseteq vazifalar  BY KutganL
  <2>3. PICK n \in 1..MaxVazifa :
          vazifalar' = Tozalangan(Qoladi(v)) \cup
             {[ish |-> "ekran", holat |-> b, son |-> n, tozalandi |-> FALSE]}
    BY <2>1 DEF Kutadi
  <2>. DEFINE w == [ish |-> "ekran", holat |-> b, son |-> n, tozalandi |-> FALSE]
  <2>4. w \in VazifaTuri /\ w.ish = "ekran"  BY DEF VazifaTuri
  <2>5. vazifalar' = Tozalangan(Qoladi(v)) \cup {w}  BY <2>3
  <2>. HIDE DEF w
  <2>6. Haq(w)' /\ Topadi(w)'  BY <2>4 DEF Haq, Topadi
  <2>7. \A u \in Tozalangan(Qoladi(v)) : u \in VazifaTuri /\ Haq(u)' /\ Topadi(u)'
    BY <2>1, <2>2, TozalangandaL DEF FInv
  <2>8. KutganTogri'  BY <2>4, <2>5, <2>6, <2>7 DEF KutganTogri
  <2>. QED  BY <2>1, <2>8, TozaL DEF FInv
<1>3. CASE MenyuChiqadi(b)
  <2>1. PICK v \in Kutgan("ekran", b) :
          /\ vazifalar' = Qoladi(v) /\ maydonlar' = maydonlar \cup {"oxirgi_ekran_id"}
          /\ UNCHANGED <<forma, admin, yirtiq>>
    BY <1>3 DEF MenyuChiqadi
  <2>2. Qoladi(v) \subseteq vazifalar  BY KutganL
  <2>3. KutganTogri'  BY <2>1, <2>2, QoladiL DEF FInv
  <2>4. FTogri'  BY <2>1 DEF FInv, FTogri, FormaButun, AdminFormasi
  <2>. QED  BY <2>3, <2>4 DEF FInv
<1>. QED  BY <1>1, <1>2, <1>3

LEMMA UygaL ==
  ASSUME FInv, Uyga PROVE FInv'
BY TozalashL DEF Uyga

\* A restart may take a person's rights away, and with them every form and task.
LEMMA FQaytaL ==
  ASSUME FInv, FQayta PROVE FInv'
<1>1. forma' = "yoq" /\ vazifalar' = {} /\ yirtiq' = FALSE  BY DEF FQayta
<1>. QED  BY <1>1, TozaL DEF FInv, KutganTogri

LEMMA FTinchL ==
  ASSUME FInv, UNCHANGED fvars PROVE FInv'
<1>1. FormaTurgun /\ vazifalar' = vazifalar  BY DEF fvars, FormaTurgun
<1>2. FTogri'  BY <1>1, FormaTurgunL DEF FInv
<1>3. KutganTogri'  BY <1>1, QoladiL DEF FInv, FormaTurgun
<1>. QED  BY <1>2, <1>3 DEF FInv

LEMMA FQadamL ==
  ASSUME FInv, [FNext]_fvars PROVE FInv'
<1>1. CASE FNext
  <2>1. ASSUME NEW s \in Savollar, Sorab(s) PROVE FInv'  BY <2>1, SorabL
  <2>2. ASSUME NEW s \in KechSavollar, KechBoshlaydi(s) \/ KechSoraydi(s) \/ KechRad(s)
        PROVE FInv'
    BY <2>2, KechL
  <2>3. ASSUME NEW j \in Javoblar, JavobOladi(j) PROVE FInv'  BY <2>3, JavobOladiL
  <2>4. ASSUME NEW y \in Yakunlar, Saqlaydi(y) \/ Saqlandi(y) \/ SaqlashYiqiladi(y)
        PROVE FInv'
    BY <2>4, YakunL
  <2>5. ASSUME NEW b \in {"start", "panel"},
               BuyruqKeladi(b) \/ MenyuOchadi(b) \/ MenyuChiqadi(b)
        PROVE FInv'
    BY <2>5, MenyuL
  <2>. QED
    BY <1>1, <2>1, <2>2, <2>3, <2>4, <2>5, XabarL, BuzarL, NamoyishL, UygaL, FQaytaL DEF FNext
<1>2. CASE UNCHANGED fvars  BY <1>2, FTinchL
<1>. QED  BY <1>1, <1>2

\* An open form has every value its next handlers read, and nobody but an admin is in
\* an admin's form, whatever buttons are pressed, whatever ends late and clears, and
\* after any restart (aiogram's FSM states and MemoryStorage).  The form's half is not
\* said of a form that an answer has gone on with which was on its way when that form
\* was cleared: from then to the next clear yirtiq is TRUE, and only such an answer
\* makes it so.
THEOREM DialogTeoremasi == FSpec => []DialogButun
<1>1. FInit => FInv  BY FBoshL
<1>2. FInv /\ [FNext]_fvars => FInv'  BY FQadamL
<1>3. FInv => DialogButun  BY FInvL
<1>. QED  BY <1>1, <1>2, <1>3, PTL DEF FSpec

(******************************** The container *******************************)

(* Beside what the runs check: a radar that runs has found no problem in its file, *)
(* no row calls a coin halal but an admin's, and rows hold whole numbers.          *)
QarorHolatlari == {"yoq", "halal", "haram", "mashbooh"}
JarayonTuri ==
    [bosqich : {"sxema", "urug", "yuradi", "toxtadi"}, sayt : BOOLEAN,
     bot : {"yoq", "yuradi", "tanaffus"}, urinish : Nat,
     radar : {"yoq", "boshlanadi", "yuradi", "kutadi", "tugadi"}]
JarayonTogri ==
    /\ jarayon \in JarayonTuri
    /\ jarayon.radar = "yuradi" => radar_muammolari(yaml)
QatorlarTogri ==
    /\ qarorlar \in [Coinlar -> QarorHolatlari] /\ adminQarori \in [Coinlar -> QarorHolatlari]
    /\ \A coin \in Coinlar :
          /\ adminQarori[coin] # "yoq" => qarorlar[coin] = adminQarori[coin]
          /\ qarorlar[coin] = "halal" => adminQarori[coin] = "halal"
UstamalarTogri == \A kalit \in DOMAIN ustamalar : ustamalar[kalit].son \in Int
KInv ==
    /\ yaml \in Hujjatlar
    /\ muhit \in Muhitlar
    /\ JarayonTogri
    /\ QatorlarTogri
    /\ UstamalarTogri

LEMMA OldiL == Oldi \in JarayonTuri /\ Boshidan \in JarayonTuri
               /\ Oldi.radar = "yoq" /\ Boshidan.radar = "yoq"
  BY DEF Oldi, Boshidan, JarayonTuri

LEMMA QarorsizL == qarorlar = Qarorsiz /\ adminQarori = Qarorsiz => QatorlarTogri
  BY DEF Qarorsiz, QatorlarTogri, Coinlar, QarorHolatlari

LEMMA KBoshL == KInit => KInv
<1>. SUFFICES ASSUME KInit PROVE KInv  OBVIOUS
<1>1. yaml \in Hujjatlar /\ muhit \in Muhitlar  BY SozlamaFarazi DEF KInit
<1>2. JarayonTogri  BY OldiL DEF KInit, JarayonTogri
<1>3. QatorlarTogri  BY QarorsizL DEF KInit
<1>4. UstamalarTogri
  <2>1. DOMAIN ustamalar = {}  BY DEF KInit
  <2>. QED  BY <2>1 DEF UstamalarTogri
<1>. QED  BY <1>1, <1>2, <1>3, <1>4 DEF KInv

(* A step of the processes leaves the file and the rows alone. *)
LEMMA JarayonL ==
  ASSUME KInv, UNCHANGED <<yaml, muhit, rows>>, jarayon' \in JarayonTuri,
         jarayon'.radar = "yuradi" => radar_muammolari(yaml)
  PROVE  KInv'
<1>1. yaml' = yaml /\ muhit' = muhit /\ UNCHANGED <<qarorlar, adminQarori, ustamalar>>  BY DEF rows
<1>2. JarayonTogri'  BY <1>1 DEF JarayonTogri
<1>3. QatorlarTogri'  BY <1>1 DEF KInv, QatorlarTogri
<1>4. UstamalarTogri'  BY <1>1 DEF KInv, UstamalarTogri
<1>. QED  BY <1>1, <1>2, <1>3, <1>4 DEF KInv

(* A step of the rows leaves the file and the processes alone. *)
LEMMA QatorL ==
  ASSUME KInv, UNCHANGED <<yaml, muhit, jarayon>>, QatorlarTogri', UstamalarTogri'
  PROVE  KInv'
<1>1. JarayonTogri'  BY DEF KInv, JarayonTogri
<1>. QED  BY <1>1 DEF KInv

LEMMA KQadamL == KInv /\ [KNext]_kvars => KInv'
<1>. SUFFICES ASSUME KInv, [KNext]_kvars PROVE KInv'  OBVIOUS
<1>a. jarayon \in JarayonTuri /\ (jarayon.radar = "yuradi" => radar_muammolari(yaml))
  BY DEF KInv, JarayonTogri
<1>b. UNCHANGED <<qarorlar, adminQarori>> => QatorlarTogri'  BY DEF KInv, QatorlarTogri
<1>c. UNCHANGED ustamalar => UstamalarTogri'  BY DEF KInv, UstamalarTogri
<1>1. CASE alembic_upgrade
  <2>1. jarayon' \in JarayonTuri /\ jarayon'.radar = jarayon.radar
    BY <1>1, <1>a DEF alembic_upgrade, JarayonTuri
  <2>. QED  BY <1>1, <1>a, <2>1, JarayonL DEF alembic_upgrade
<1>2. CASE Urug
  <2>1. CASE jarayon' = Oldi /\ UNCHANGED rows
    BY <1>2, <2>1, JarayonL, OldiL DEF Urug
  <2>2. CASE /\ jarayon' = [bosqich |-> "yuradi", sayt |-> TRUE, bot |-> "yuradi", urinish |-> 1,
                            radar |-> "boshlanadi"]
             /\ qarorlar' = set_ruling(yaml, qarorlar)
             /\ UNCHANGED <<ustamalar, adminQarori>>
    <3>1. UNCHANGED <<yaml, muhit>>  BY <1>2 DEF Urug
    <3>. DEFINE r == set_ruling(yaml, qarorlar)
    <3>2. /\ r \in [Coinlar -> QarorHolatlari]
          /\ \A coin \in Coinlar :
                /\ qarorlar[coin] # "yoq" => r[coin] = qarorlar[coin]
                /\ r[coin] = "halal" => qarorlar[coin] = "halal"
      <4>1. qarorlar \in [Coinlar -> QarorHolatlari]  BY DEF KInv, QatorlarTogri
      <4>2. ASSUME NEW coin \in Coinlar
            PROVE  /\ r[coin] \in QarorHolatlari
                   /\ qarorlar[coin] # "yoq" => r[coin] = qarorlar[coin]
                   /\ r[coin] = "halal" => qarorlar[coin] = "halal"
        <5>1. \/ qarorlar[coin] # "yoq" /\ r[coin] = qarorlar[coin]
              \/ qarorlar[coin] = "yoq" /\ r[coin] \in {"mashbooh", "haram", "yoq"}
          BY Zenon DEF set_ruling
        <5>2. qarorlar[coin] \in QarorHolatlari  BY <4>1
        <5>. HIDE DEF r
        <5>. QED  BY <5>1, <5>2 DEF QarorHolatlari
      <4>3. r = [coin \in Coinlar |-> r[coin]]  BY Zenon DEF set_ruling
      <4>. HIDE DEF r
      <4>. QED  BY <4>2, <4>3
    <3>3. qarorlar' = r /\ adminQarori' = adminQarori  BY <2>2
    <3>. HIDE DEF r
    <3>4. QatorlarTogri'  BY <3>2, <3>3 DEF KInv, QatorlarTogri
    <3>5. jarayon' \in JarayonTuri /\ jarayon'.radar # "yuradi"  BY <2>2 DEF JarayonTuri
    <3>6. JarayonTogri'  BY <3>5 DEF JarayonTogri
    <3>7. UstamalarTogri'  BY <1>c, <2>2
    <3>. QED  BY <3>1, <3>4, <3>6, <3>7 DEF KInv
  <2>. QED  BY <1>2, <2>1, <2>2 DEF Urug
<1>3. CASE QaytaKotariladi
  BY <1>3, JarayonL, OldiL DEF QaytaKotariladi
<1>4. CASE SaytTugaydi
  <2>1. jarayon' = Oldi \/ jarayon' = [jarayon EXCEPT !.sayt = FALSE]  BY <1>4 DEF SaytTugaydi
  <2>2. jarayon' \in JarayonTuri /\ (jarayon'.radar = "yuradi" => jarayon.radar = "yuradi")
    BY <1>a, <2>1, OldiL DEF JarayonTuri
  <2>. QED  BY <1>4, <1>a, <2>2, JarayonL DEF SaytTugaydi
<1>5. CASE BotTugaydi
  <2>1. jarayon' \in JarayonTuri /\ jarayon'.radar = jarayon.radar
    BY <1>5, <1>a DEF BotTugaydi, JarayonTuri
  <2>. QED  BY <1>5, <1>a, <2>1, JarayonL DEF BotTugaydi
<1>6. CASE BotQaytadi
  <2>1. jarayon' = Oldi \/ jarayon' = [jarayon EXCEPT !.bot = "yuradi", !.urinish = @ + 1]
    BY <1>6 DEF BotQaytadi
  <2>2. jarayon' \in JarayonTuri /\ (jarayon'.radar = "yuradi" => jarayon.radar = "yuradi")
    <3>1. CASE jarayon' = Oldi  BY <3>1, OldiL
    <3>2. CASE jarayon' = [jarayon EXCEPT !.bot = "yuradi", !.urinish = @ + 1]
      <4>1. jarayon.urinish \in Nat  BY <1>a DEF JarayonTuri
      <4>2. jarayon.urinish + 1 \in Nat  BY <4>1
      <4>3. jarayon' = [jarayon EXCEPT !.bot = "yuradi", !.urinish = jarayon.urinish + 1]  BY <3>2
      <4>4. PICK n \in Nat : n = jarayon.urinish + 1  BY <4>2
      <4>. QED  BY <1>a, <4>3, <4>4 DEF JarayonTuri
    <3>. QED  BY <2>1, <3>1, <3>2
  <2>. QED  BY <1>6, <1>a, <2>2, JarayonL DEF BotQaytadi
<1>7. CASE ishga_tushir
  <2>1. PICK h \in {"tugadi", "yuradi", "kutadi"} :
          jarayon' = [jarayon EXCEPT !.radar = h] /\ (h = "yuradi" => radar_muammolari(yaml))
    BY <1>7 DEF ishga_tushir
  <2>2. jarayon' \in JarayonTuri /\ jarayon'.radar = h  BY <1>a, <2>1 DEF JarayonTuri
  <2>. QED  BY <1>7, <2>1, <2>2, JarayonL DEF ishga_tushir
<1>8. CASE RadarYiqiladi
  <2>1. jarayon' \in JarayonTuri /\ jarayon'.radar = "kutadi"
    BY <1>8, <1>a DEF RadarYiqiladi, JarayonTuri
  <2>. QED  BY <1>8, <2>1, JarayonL DEF RadarYiqiladi
<1>9. CASE radar_nazoratchisi
  <2>1. jarayon' \in JarayonTuri /\ jarayon'.radar = "boshlanadi"
    BY <1>9, <1>a DEF radar_nazoratchisi, JarayonTuri
  <2>. QED  BY <1>9, <2>1, JarayonL DEF radar_nazoratchisi
<1>10. CASE narxSaqla  BY <1>10, <1>b, <1>c, QatorL DEF narxSaqla
<1>11. CASE qarorSaqla
  <2>1. PICK coin \in Coinlar, status \in {"halal", "haram", "mashbooh"} :
           /\ qarorlar' = [qarorlar EXCEPT ![coin] = status]
           /\ adminQarori' = [adminQarori EXCEPT ![coin] = status]
    BY <1>11 DEF qarorSaqla
  <2>2. QatorlarTogri'  BY <2>1 DEF KInv, QatorlarTogri, QarorHolatlari
  <2>. QED  BY <1>11, <1>c, <2>2, QatorL DEF qarorSaqla
<1>12. CASE qarorOchir
  <2>1. PICK coin \in Coinlar :
           /\ qarorlar' = [qarorlar EXCEPT ![coin] = "yoq"]
           /\ adminQarori' = [adminQarori EXCEPT ![coin] = "yoq"]
    BY <1>12 DEF qarorOchir
  <2>2. QatorlarTogri'  BY <2>1 DEF KInv, QatorlarTogri, QarorHolatlari
  <2>. QED  BY <1>12, <1>c, <2>2, QatorL DEF qarorOchir
<1>13. ASSUME NEW qoida \in Qoidalar, Yoziladi(qoida[1], qoida[2]) PROVE UstamalarTogri'
  BY <1>13, KonteynerFarazi DEF Yoziladi, KInv, UstamalarTogri
<1>14. CASE sozlamaSaqla  BY <1>13, <1>14, <1>b, QatorL DEF sozlamaSaqla
<1>15. CASE sozlamaTikla
  <2>1. UstamalarTogri'  BY <1>15 DEF sozlamaTikla, KInv, UstamalarTogri
  <2>. QED  BY <1>15, <1>b, <2>1, QatorL DEF sozlamaTikla
<1>16. CASE QoldaYozadi  BY <1>13, <1>16, <1>b, QatorL DEF QoldaYozadi
<1>17. ASSUME NEW yangi \in Hujjatlar, Joylashtiriladi(yangi) PROVE KInv'
  <2>1. yaml' \in Hujjatlar /\ muhit' \in Muhitlar /\ jarayon' = Boshidan
    BY <1>17 DEF Joylashtiriladi, KInv
  <2>2. JarayonTogri'  BY <2>1, OldiL DEF JarayonTogri
  <2>3. CASE UNCHANGED rows  BY <1>b, <1>c, <2>1, <2>2, <2>3 DEF rows, KInv
  <2>4. CASE qarorlar' = Qarorsiz /\ adminQarori' = Qarorsiz /\ ustamalar' = << >>
    <3>1. QatorlarTogri'  BY <2>4 DEF Qarorsiz, QatorlarTogri, Coinlar, QarorHolatlari
    <3>2. DOMAIN ustamalar' = {}  BY <2>4
    <3>3. UstamalarTogri'  BY <3>2 DEF UstamalarTogri
    <3>. QED  BY <2>1, <2>2, <3>1, <3>3 DEF KInv
  <2>. QED  BY <1>17, <2>3, <2>4 DEF Joylashtiriladi
<1>18. CASE UNCHANGED kvars
  BY <1>18, <1>a, JarayonL DEF kvars, rows
<1>. QED
  BY <1>1, <1>2, <1>3, <1>4, <1>5, <1>6, <1>7, <1>8, <1>9, <1>10, <1>11, <1>12, <1>14, <1>15,
     <1>16, <1>17, <1>18 DEF KNext, KQadam

LEMMA KInvL == KSpec => []KInv
  BY KBoshL, KQadamL, PTL DEF KSpec

------------------------------------------------------------------------------
(* The numbers of a file are whole, and those not edited have the default. *)
LEMMA SonL ==
  ASSUME NEW hujjat \in Hujjatlar, NEW bolim, NEW qator, NEW kalit, NEW standart, standart.son \in Int
  PROVE  Qatordagi(hujjat, bolim, qator, kalit, standart).son \in Int
<1>. DEFINE farq == {f \in hujjat : f.bolim = bolim /\ f.qator = qator /\ f.kalit = kalit /\ f.xom.tur # "yoq"}
<1>1. \A f \in hujjat : f.xom.son \in Int  BY SozlamaFarazi
<1>2. CASE farq = {}  BY <1>2 DEF Qatordagi
<1>3. CASE farq # {}
  <2>1. (CHOOSE f \in farq : TRUE) \in farq  BY <1>3
  <2>2. (CHOOSE f \in farq : TRUE).xom.son \in Int  BY <1>1, <2>1
  <2>. QED  BY <1>3, <2>2 DEF Qatordagi
<1>. QED  BY <1>2, <1>3

LEMMA OraliqlarL ==
  /\ RADAR_ORALIQLARI = SOZLAMA_ORALIQLARI /\ RADAR_BUTUN_KALITLAR = BUTUN_KALITLAR
  /\ \A kalit \in DOMAIN SOZLAMA_ORALIQLARI :
        /\ SOZLAMA_ORALIQLARI[kalit][1] \in Int /\ SOZLAMA_ORALIQLARI[kalit][2] \in Int
        /\ RADAR_STANDART[kalit] \in Int
        /\ Birlik[kalit] \in Int
<1>1. RADAR_ORALIQLARI = SOZLAMA_ORALIQLARI /\ RADAR_BUTUN_KALITLAR = BUTUN_KALITLAR
  BY DEF RADAR_ORALIQLARI, SOZLAMA_ORALIQLARI, RADAR_BUTUN_KALITLAR, BUTUN_KALITLAR
<1>2. \A kalit \in DOMAIN SOZLAMA_ORALIQLARI :
        SOZLAMA_ORALIQLARI[kalit][1] \in Int /\ SOZLAMA_ORALIQLARI[kalit][2] \in Int
  BY DEF SOZLAMA_ORALIQLARI
<1>3. \A kalit \in DOMAIN SOZLAMA_ORALIQLARI : RADAR_STANDART[kalit] \in Int
  BY DEF SOZLAMA_ORALIQLARI, RADAR_STANDART
<1>4. \A kalit \in DOMAIN SOZLAMA_ORALIQLARI : Birlik[kalit] \in Int
  BY <1>1 DEF Birlik
<1>. QED  BY <1>1, <1>2, <1>3, <1>4

(* The numbers of the radar are whole, in whatever unit. *)
LEMMA RadarSonL ==
  ASSUME NEW hujjat \in Hujjatlar, NEW kalit \in DOMAIN SOZLAMA_ORALIQLARI
  PROVE  /\ Radardagi(hujjat, kalit).son \in Int
         /\ Soni(Radardagi(hujjat, kalit), Birlik[kalit]) \in Int
<1>1. Xom("float", RADAR_STANDART[kalit], BOSH_MATN).son \in Int  BY OraliqlarL DEF Xom
<1>2. Radardagi(hujjat, kalit).son \in Int  BY <1>1, SonL DEF Radardagi, Qiymat
<1>. DEFINE r == Radardagi(hujjat, kalit)
<1>3. r.son \in Int /\ Birlik[kalit] \in Int  BY <1>2, OraliqlarL
<1>. HIDE DEF r
<1>4. Soni(r, Birlik[kalit]) \in Int  BY <1>3 DEF Soni
<1>. QED  BY <1>2, <1>4 DEF r

LEMMA OynalarL == KInv => OynalarAjralgan
<1>. SUFFICES ASSUME KInv, Sessiyada PROVE OynalarAjralgan  BY DEF OynalarAjralgan
<1>1. radar_muammolari(yaml)  BY DEF KInv, JarayonTogri, Sessiyada
<1>. DEFINE v(kalit) == Soni(RadarVaqti(yaml, kalit), 1)
<1>2. \A kalit \in {"kashfiyot_daqiqa", "tasdiq_daqiqa", "kashfiyot_kechikish_daqiqa",
                    "tasdiq_kechikish_daqiqa"} : v(kalit) \in Int
  <2>. SUFFICES ASSUME NEW kalit \in {"kashfiyot_daqiqa", "tasdiq_daqiqa",
                                      "kashfiyot_kechikish_daqiqa", "tasdiq_kechikish_daqiqa"}
                PROVE  v(kalit) \in Int
    OBVIOUS
  <2>1. PICK n \in Int : RadarVaqti(yaml, kalit) = Qiymat(yaml, "RadarConfig", kalit, Xom("int", n, BOSH_MATN))
    BY DEF RadarVaqti
  <2>2. Xom("int", n, BOSH_MATN).son \in Int  BY DEF Xom
  <2>3. RadarVaqti(yaml, kalit).son \in Int  BY <2>1, <2>2, SonL DEF Qiymat, KInv
  <2>. QED  BY <2>3 DEF Soni
<1>3. /\ v("tasdiq_kechikish_daqiqa") < v("tasdiq_daqiqa")
      /\ v("kashfiyot_daqiqa") - v("kashfiyot_kechikish_daqiqa") > v("tasdiq_daqiqa")
  BY <1>1 DEF radar_muammolari
<1>. HIDE DEF v
<1>4. /\ v("kashfiyot_daqiqa") - v("kashfiyot_kechikish_daqiqa") > v("tasdiq_daqiqa")
      /\ v("tasdiq_daqiqa") - v("tasdiq_kechikish_daqiqa") > 0
  BY <1>2, <1>3
<1>. QED  BY <1>4 DEF OynalarAjralgan, v

LEMMA ChegaraL == KInv => ChegaraOraliqda
<1>. SUFFICES ASSUME KInv, Sessiyada, NEW kalit \in DOMAIN SOZLAMA_ORALIQLARI
     PROVE  LET chegara == chegaralar_qur(yaml, ustamalar)[kalit]
            IN  /\ SOZLAMA_ORALIQLARI[kalit][1] <= chegara /\ chegara <= SOZLAMA_ORALIQLARI[kalit][2]
                /\ kalit \in BUTUN_KALITLAR => chegara % 2 = 0
                /\ \/ \E boshqa \in DOMAIN ustamalar : ~sozlamaTekshir(boshqa, ustamalar[boshqa])
                   \/ Radardagi(yaml, kalit).tur = "bool"
                   \/ samarali(yaml, ustamalar, kalit) = chegara
  BY DEF ChegaraOraliqda
<1>. DEFINE c == chegaralar_qur(yaml, ustamalar)[kalit]
            r == Radardagi(yaml, kalit)
            x == ustamalar[kalit]
            lo == SOZLAMA_ORALIQLARI[kalit][1]
            hi == SOZLAMA_ORALIQLARI[kalit][2]
<1>1. radar_muammolari(yaml) /\ yaml \in Hujjatlar  BY DEF KInv, JarayonTogri, Sessiyada
<1>2. /\ lo \in Int /\ hi \in Int
      /\ RADAR_ORALIQLARI = SOZLAMA_ORALIQLARI /\ RADAR_BUTUN_KALITLAR = BUTUN_KALITLAR
  BY OraliqlarL
<1>3. /\ Sonli(r) /\ lo <= Soni(r, Birlik[kalit]) /\ Soni(r, Birlik[kalit]) <= hi
      /\ kalit \in BUTUN_KALITLAR => Soni(r, Birlik[kalit]) % 2 = 0
  BY <1>1, <1>2 DEF radar_muammolari
<1>4. c = IF kalit \in DOMAIN ustamalar /\ ~qiymat_xatosi(kalit, x) THEN x.son
          ELSE Soni(r, Birlik[kalit])
  BY <1>2 DEF chegaralar_qur
<1>5. samarali(yaml, ustamalar, kalit) =
        IF kalit \in DOMAIN ustamalar /\ x.tur = "float" THEN x.son
        ELSE IF r.tur \in {"int", "float"} THEN r.son ELSE SOZLAMA_STANDART[kalit]
  BY DEF samarali
<1>6. qiymat_xatosi(kalit, x) <=>
        \/ x.tur # "float" \/ x.son < lo \/ x.son > hi
        \/ kalit \in BUTUN_KALITLAR /\ x.son % 2 # 0
  BY <1>2 DEF qiymat_xatosi
<1>7. sozlamaTekshir(kalit, x) <=>
        /\ x.tur = "float" /\ lo <= x.son /\ x.son <= hi
        /\ kalit \in BUTUN_KALITLAR => x.son % 2 = 0
  BY DEF sozlamaTekshir
<1>8. r.tur # "bool" => Soni(r, Birlik[kalit]) = r.son /\ r.tur \in {"int", "float"}
  BY <1>3 DEF Soni, Sonli
<1>9. kalit \in DOMAIN ustamalar => x.son \in Int  BY DEF KInv, UstamalarTogri
<1>10. (\A boshqa \in DOMAIN ustamalar : sozlamaTekshir(boshqa, ustamalar[boshqa])) /\ kalit \in DOMAIN ustamalar
         => sozlamaTekshir(kalit, x)
  OBVIOUS
<1>. HIDE DEF c, r, x, lo, hi
<1>11. CASE kalit \in DOMAIN ustamalar /\ ~qiymat_xatosi(kalit, x)
  <2>1. c = x.son /\ lo <= c /\ c <= hi /\ (kalit \in BUTUN_KALITLAR => c % 2 = 0)
    BY <1>2, <1>4, <1>6, <1>9, <1>11
  <2>2. samarali(yaml, ustamalar, kalit) = c  BY <1>5, <1>6, <1>11, <2>1
  <2>. QED  BY <2>1, <2>2 DEF c, lo, hi
<1>12. CASE ~(kalit \in DOMAIN ustamalar /\ ~qiymat_xatosi(kalit, x))
  <2>1. c = Soni(r, Birlik[kalit])  BY <1>4, <1>12
  <2>2. lo <= c /\ c <= hi /\ (kalit \in BUTUN_KALITLAR => c % 2 = 0)  BY <1>3, <2>1
  <2>3. ASSUME \A boshqa \in DOMAIN ustamalar : sozlamaTekshir(boshqa, ustamalar[boshqa]), r.tur # "bool"
        PROVE  samarali(yaml, ustamalar, kalit) = c
    <3>1. kalit \notin DOMAIN ustamalar
      <4>. SUFFICES ASSUME kalit \in DOMAIN ustamalar PROVE ~qiymat_xatosi(kalit, x)  BY <1>12
      <4>1. sozlamaTekshir(kalit, x)  BY <1>10, <2>3
      <4>. QED  BY <1>2, <1>6, <1>7, <1>9, <4>1
    <3>. QED  BY <1>5, <1>8, <2>1, <2>3, <3>1
  <2>. QED  BY <2>2, <2>3 DEF c, lo, hi, r
<1>. QED  BY <1>11, <1>12

LEMMA HalolL == KInv => RadarHalol
<1>. SUFFICES ASSUME KInv, NEW coin \in Coinlar
     PROVE  /\ holati(yaml, qarorlar, coin) = "halal" =>
                 \/ adminQarori[coin] = "halal"
                 \/ coin \in Royxat(yaml, "kuzatiladigan_coinlar") /\ qarorlar[coin] = "yoq"
            /\ adminQarori[coin] = "haram" => holati(yaml, qarorlar, coin) # "halal"
  BY DEF RadarHalol
<1>1. /\ adminQarori[coin] # "yoq" => qarorlar[coin] = adminQarori[coin]
      /\ qarorlar[coin] = "halal" => adminQarori[coin] = "halal"
  BY DEF KInv, QatorlarTogri
<1>2. CASE coin \in Royxat(yaml, "stablecoin_symbols")
  BY <1>2 DEF holati
<1>3. CASE coin \notin Royxat(yaml, "stablecoin_symbols") /\ qarorlar[coin] # "yoq"
  BY <1>1, <1>3 DEF holati
<1>4. CASE coin \notin Royxat(yaml, "stablecoin_symbols") /\ qarorlar[coin] = "yoq"
  BY <1>1, <1>4 DEF holati
<1>. QED  BY <1>2, <1>3, <1>4

------------------------------------------------------------------------------
(* What a file says elsewhere does not depend on the radar's section. *)
Radarsiz(hujjat) == hujjat \ {f \in hujjat : f.bolim = "RadarConfig"}

LEMMA RadarsizL ==
  ASSUME NEW hujjat, NEW bolim, bolim # "RadarConfig"
  PROVE  /\ \A qator, kalit, standart :
               Qatordagi(Radarsiz(hujjat), bolim, qator, kalit, standart) =
               Qatordagi(hujjat, bolim, qator, kalit, standart)
         /\ \A kalit : {f \in Radarsiz(hujjat) : f.bolim = bolim /\ f.kalit = kalit} =
                       {f \in hujjat : f.bolim = bolim /\ f.kalit = kalit}
<1>1. ASSUME NEW qator, NEW kalit
      PROVE  {f \in Radarsiz(hujjat) : f.bolim = bolim /\ f.qator = qator /\ f.kalit = kalit /\ f.xom.tur # "yoq"} =
             {f \in hujjat : f.bolim = bolim /\ f.qator = qator /\ f.kalit = kalit /\ f.xom.tur # "yoq"}
  BY DEF Radarsiz
<1>2. ASSUME NEW qator, NEW kalit, NEW standart
      PROVE  Qatordagi(Radarsiz(hujjat), bolim, qator, kalit, standart) =
             Qatordagi(hujjat, bolim, qator, kalit, standart)
  <2>. DEFINE farq(h) == {f \in h : f.bolim = bolim /\ f.qator = qator /\ f.kalit = kalit /\ f.xom.tur # "yoq"}
              xomi(S) == IF S = {} THEN standart ELSE (CHOOSE f \in S : TRUE).xom
  <2>1. farq(Radarsiz(hujjat)) = farq(hujjat)  BY <1>1
  <2>2. \A h : Qatordagi(h, bolim, qator, kalit, standart) = xomi(farq(h))  BY DEF Qatordagi
  <2>. HIDE DEF farq, xomi
  <2>. QED  BY <2>1, <2>2
<1>3. ASSUME NEW kalit
      PROVE  {f \in Radarsiz(hujjat) : f.bolim = bolim /\ f.kalit = kalit} =
             {f \in hujjat : f.bolim = bolim /\ f.kalit = kalit}
  BY DEF Radarsiz
<1>. QED  BY <1>2, <1>3

LEMMA RoyxatL ==
  ASSUME NEW hujjat, NEW kalit
  PROVE  Royxat(Radarsiz(hujjat), kalit) = Royxat(hujjat, kalit)
<1>. DEFINE bolim == IF kalit = "kuzatiladigan_coinlar" THEN "ZanjirConfig" ELSE "HalalScreeningConfig"
            F(h) == {f \in h : f.bolim = bolim /\ f.kalit = kalit}
            B(h) == \E f \in h : f.bolim = "AppConfig" /\ f.kalit = "halal_screening"
<1>1. bolim # "RadarConfig"  OBVIOUS
<1>2. F(Radarsiz(hujjat)) = F(hujjat)
  <2>. HIDE DEF bolim
  <2>. QED  BY <1>1, RadarsizL
<1>3. B(Radarsiz(hujjat)) <=> B(hujjat)  BY DEF Radarsiz
<1>. QED  BY <1>2, <1>3, Zenon DEF Royxat

LEMMA ValidateL ==
  ASSUME NEW hujjat
  PROVE  validate(Radarsiz(hujjat)) <=> validate(hujjat)
<1>1. \A bolim \in {"RiskTier", "PositionSizingConfig", "FridayFilterConfig", "MarketDataConfig"} :
        \A qator, kalit, standart :
           Qatordagi(Radarsiz(hujjat), bolim, qator, kalit, standart) =
           Qatordagi(hujjat, bolim, qator, kalit, standart)
  BY RadarsizL
<1>2. \A bolim \in {"RiskTier", "PositionSizingConfig", "FridayFilterConfig", "MarketDataConfig"} :
        \A kalit, standart :
           Qiymat(Radarsiz(hujjat), bolim, kalit, standart) = Qiymat(hujjat, bolim, kalit, standart)
  BY <1>1 DEF Qiymat
<1>3. PogonalarTogri(Radarsiz(hujjat)) <=> PogonalarTogri(hujjat)
  BY <1>1, <1>2 DEF PogonalarTogri
<1>4. JumaTogri(Radarsiz(hujjat)) <=> JumaTogri(hujjat)
  BY <1>2 DEF JumaTogri
<1>5. \A bolim \in {"PositionSizingConfig", "MarketDataConfig"} : \A kalit, ruxsat :
        Tanlangan(Radarsiz(hujjat), bolim, kalit, ruxsat) <=> Tanlangan(hujjat, bolim, kalit, ruxsat)
  BY <1>2 DEF Tanlangan
<1>. QED  BY <1>2, <1>3, <1>4, <1>5 DEF validate

LEMMA BuildL ==
  ASSUME NEW hujjat, \A f \in hujjat : f.bolim = "RadarConfig" => f.kalit \in DOMAIN RadarConfig
  PROVE  _build(Radarsiz(hujjat)) <=> _build(hujjat)
<1>. DEFINE Joyida(f) ==
              /\ f.kalit \in DOMAIN Bolimlar[f.bolim]
              /\ IF f.xom.tur = "yoq" THEN <<f.bolim, f.kalit>> \notin Majburiy
                 ELSE _coerce(Bolimlar[f.bolim][f.kalit], f.xom)
<1>1. Bolimlar["RadarConfig"] = RadarConfig  BY DEF Bolimlar
<1>2. \A kalit \in DOMAIN RadarConfig : RadarConfig[kalit] \in {"bool", "str", "float", "int"}
  BY DEF RadarConfig
<1>3. \A kalit : <<"RadarConfig", kalit>> \notin Majburiy  BY DEF Majburiy
<1>4. \A f \in hujjat : f.bolim = "RadarConfig" => Joyida(f)
  <2>. SUFFICES ASSUME NEW f \in hujjat, f.bolim = "RadarConfig" PROVE Joyida(f)  OBVIOUS
  <2>1. f.kalit \in DOMAIN Bolimlar[f.bolim]  BY <1>1
  <2>2. _coerce(Bolimlar[f.bolim][f.kalit], f.xom)  BY <1>1, <1>2 DEF _coerce
  <2>. QED  BY <1>3, <2>1, <2>2
<1>5. \A h : _build(h) <=> \A f \in h : Joyida(f)  BY DEF _build
<1>. HIDE DEF Joyida
<1>. QED  BY <1>4, <1>5 DEF Radarsiz

LEMMA YolgizL == RadarYolgiz
<1>. SUFFICES ASSUME \A f \in {f \in yaml : f.bolim = "RadarConfig"} : f.kalit \in DOMAIN RadarConfig
     PROVE  UrugTugaydi(yaml) <=> UrugTugaydi(Radarsiz(yaml))
  BY DEF RadarYolgiz, Radarsiz
<1>1. load_config(yaml) <=> load_config(Radarsiz(yaml))
  BY BuildL, ValidateL DEF load_config
<1>2. \A kalit : Belgilar(yaml, kalit) <=> Belgilar(Radarsiz(yaml), kalit)
  BY RoyxatL DEF Belgilar
<1>. QED  BY <1>1, <1>2 DEF UrugTugaydi

------------------------------------------------------------------------------
(* Where the database is. *)
LEMMA BazaL == BazaBir
<1>. SUFFICES ASSUME Eksport(muhit).sxema = "sqlite"
     PROVE  bazaYoli(muhit) = sqlite_file(muhit) /\ videoJildi(muhit) = _media_jildi(muhit)
  BY DEF BazaBir
<1>1. ~Eksport(muhit).nisbiy
  <2>. DEFINE url == resolve_database_url(apply_platform_defaults(muhit))
  <2>1. CASE url.sxema = "sqlite"  BY <2>1 DEF Eksport, Manzil
  <2>2. CASE url.sxema # "sqlite"
    <3>1. Eksport(muhit) = url  BY <2>2 DEF Eksport
    <3>. QED  BY <2>2, <3>1
  <2>. QED  BY <2>1, <2>2
<1>2. \A papka : Yechim(papka, Eksport(muhit)) = Eksport(muhit).joy  BY <1>1 DEF Yechim
<1>. QED  BY <1>2 DEF bazaYoli, sqlite_file, videoJildi, _media_jildi

LEMMA OgohL == muhit \in Muhitlar => OgohlantirishRost
<1>. SUFFICES ASSUME muhit \in Muhitlar
     PROVE  /\ warn_if_data_is_temporary(muhit) => Yoqoladi(muhit)
            /\ DATABASE_URL(muhit).sxema = "yoq" /\ Yoqoladi(muhit) => warn_if_data_is_temporary(muhit)
  BY DEF OgohlantirishRost
<1>. DEFINE m == muhit
            url == resolve_database_url(apply_platform_defaults(m))
<1>1. /\ m.railway \in BOOLEAN /\ m.disk \in BOOLEAN
      /\ m.url \in {"yoq", "nisbiy", "mutlaq", "diskda", "postgres"}
      /\ m.disk => m.railway
      /\ m.url = "diskda" => m.disk
  BY DEF Muhitlar
<1>2. <<"ildiz">> \o <<"data">> # <<"disk">>
  <2>1. <<"ildiz">> \in Seq({"ildiz", "data"}) /\ <<"data">> \in Seq({"ildiz", "data"})  OBVIOUS
  <2>2. Len(<<"ildiz">> \o <<"data">>) = Len(<<"ildiz">>) + Len(<<"data">>)  BY <2>1, ConcatProperties
  <2>3. Len(<<"ildiz">>) = 1 /\ Len(<<"data">>) = 1 /\ Len(<<"disk">>) = 1  OBVIOUS
  <2>4. Len(<<"ildiz">> \o <<"data">>) = 2  BY <2>2, <2>3
  <2>. QED  BY <2>3, <2>4
<1>3. <<"srv">> # <<"disk">>  OBVIOUS
<1>4. ASSUME ~m.disk, Eksport(m).sxema = "sqlite" PROVE Eksport(m).joy # <<"disk">>
  <2>1. CASE m.url \in {"yoq", "nisbiy"}
    <3>1. url = Manzil("sqlite", TRUE, <<"data">>)
      BY <1>4, <2>1 DEF apply_platform_defaults, resolve_database_url, DATABASE_URL, Manzil
    <3>2. Eksport(m).joy = <<"ildiz">> \o <<"data">>  BY <3>1 DEF Eksport, Manzil, Yechim
    <3>. QED  BY <1>2, <3>2
  <2>2. CASE m.url = "mutlaq"
    <3>1. url = Manzil("sqlite", FALSE, <<"srv">>)
      BY <1>4, <2>2 DEF apply_platform_defaults, resolve_database_url, DATABASE_URL, Manzil
    <3>2. Eksport(m).joy = <<"srv">>  BY <3>1 DEF Eksport, Manzil, Yechim
    <3>. QED  BY <1>3, <3>2
  <2>3. CASE m.url = "postgres"
    <3>1. url = Manzil("postgres", FALSE, <<>>)
      BY <1>4, <2>3 DEF apply_platform_defaults, resolve_database_url, DATABASE_URL, Manzil
    <3>2. Eksport(m).sxema = "postgres"  BY <3>1 DEF Eksport, Manzil
    <3>. QED  BY <1>4, <3>2
  <2>. QED  BY <1>1, <1>4, <2>1, <2>2, <2>3
<1>5. ASSUME m.disk, DATABASE_URL(m).sxema = "yoq" PROVE Eksport(m).joy = <<"disk">>
  <2>1. url = Manzil("sqlite", FALSE, <<"disk">>)
    BY <1>5 DEF apply_platform_defaults, resolve_database_url, Manzil
  <2>. QED  BY <2>1 DEF Eksport, Manzil, Yechim
<1>. QED  BY <1>1, <1>4, <1>5 DEF warn_if_data_is_temporary, Yoqoladi

(* The container starts with a whole configuration or not at all, its parts agree *)
(* on where the data are, and what an admin decided holds (start.sh, seed.py,     *)
(* loader.py, sozlama.py, halol.py), for every file and environment.              *)
THEOREM KonteynerTeoremasi == KSpec => []KonteynerButun
<1>1. ASSUME KInv PROVE KonteynerButun
  <2>1. QarorSaqlanadi /\ muhit \in Muhitlar  BY <1>1 DEF KInv, QatorlarTogri, QarorSaqlanadi
  <2>. QED  BY <1>1, <2>1, YolgizL, OynalarL, ChegaraL, HalolL, BazaL, OgohL DEF KonteynerButun
<1>. QED  BY <1>1, KInvL, PTL

(********************************** The schema **********************************)

(* What the operations of the revisions are. *)

\* Columns of a model that the program must be given: NOT NULL, no default.
TalabUstunlar(t) == {u \in DOMAIN Modellar[t].ustun : Modellar[t].ustun[u] = "X"}

AMALLAR == {"create_table", "drop_table", "add_column", "drop_column", "alter_column",
            "create_index", "drop_index"}

\* A model's table is made with every such column.
Yaratar(a) ==
    a.amal = "create_table" =>
        /\ "ustun" \in DOMAIN a.tarif
        /\ a.jadval \in JadvalNomlari => TalabUstunlar(a.jadval) \subseteq DOMAIN a.tarif.ustun

\* No such column is dropped.
Butun(a) ==
    /\ a.amal \in AMALLAR /\ Yaratar(a)
    /\ a.amal = "drop_column" /\ a.jadval \in JadvalNomlari => a.nom \notin TalabUstunlar(a.jadval)

\* No table and no column of a model is dropped.
Saqlar(a) ==
    /\ a.amal = "drop_table" => a.jadval \notin JadvalNomlari
    /\ a.amal = "drop_column" /\ a.jadval \in JadvalNomlari =>
          a.nom \notin DOMAIN Modellar[a.jadval].ustun

\* An operation that adds, and may be undone.
Qoshar(a) ==
    /\ a.amal \in Qoshuvchi /\ Yaratar(a)
    /\ a.amal = "add_column" /\ a.jadval \in JadvalNomlari => a.nom \notin TalabUstunlar(a.jadval)

Yigma(L) == L \in Seq({L[i] : i \in DOMAIN L})

LEMMA KetmaKetL ==
  ASSUME NEW m \in Nat, NEW C, C = [i \in 1..m |-> C[i]]
  PROVE  Yigma(C)
<1>. DEFINE R == {C[i] : i \in DOMAIN C}
<1>1. DOMAIN C = 1..m  OBVIOUS
<1>2. \A i \in 1..m : C[i] \in R  BY <1>1
<1>. HIDE DEF R
<1>3. C \in [1..m -> R]  BY <1>2
<1>4. C \in Seq(R)  BY <1>3, SeqDef
<1>. QED  BY <1>4 DEF Yigma, R

\* A list of what is in A and in B.
Ulangan(Z, A, B) ==
    /\ Yigma(Z)
    /\ \A i \in DOMAIN Z : (\E j \in DOMAIN A : Z[i] = A[j]) \/ \E j \in DOMAIN B : Z[i] = B[j]

LEMMA QoshmaL ==
  ASSUME NEW A, NEW B, NEW Z, Z = A \o B, Yigma(A), Yigma(B)
  PROVE  Ulangan(Z, A, B)
<1>. DEFINE S == {A[i] : i \in DOMAIN A} \cup {B[i] : i \in DOMAIN B}
<1>1. A \in Seq(S) /\ B \in Seq(S)
  <2>1. A \in Seq({A[i] : i \in DOMAIN A}) /\ B \in Seq({B[i] : i \in DOMAIN B})  BY DEF Yigma
  <2>2. {A[i] : i \in DOMAIN A} \subseteq S /\ {B[i] : i \in DOMAIN B} \subseteq S  OBVIOUS
  <2>. HIDE DEF S
  <2>. QED  BY <2>1, <2>2
<1>. HIDE DEF S
<1>2. /\ Z \in Seq(S) /\ Len(Z) = Len(A) + Len(B) /\ Len(A) \in Nat /\ Len(B) \in Nat
      /\ DOMAIN A = 1..Len(A) /\ DOMAIN B = 1..Len(B) /\ DOMAIN Z = 1..Len(Z)
  BY <1>1, ConcatProperties, LenProperties
<1>3. \A i \in DOMAIN Z :
         Z[i] = IF i <= Len(A) THEN A[i] ELSE B[i - Len(A)]
  BY <1>1, <1>2, ConcatProperties
<1>4. ASSUME NEW i \in DOMAIN Z
      PROVE  \/ \E j \in DOMAIN A : Z[i] = A[j]
             \/ \E j \in DOMAIN B : Z[i] = B[j]
  <2>1. CASE i <= Len(A)
    <3>1. i \in DOMAIN A  BY <1>2, <2>1
    <3>. QED  BY <1>3, <2>1, <3>1
  <2>2. CASE ~(i <= Len(A))
    <3>1. i - Len(A) \in DOMAIN B  BY <1>2, <2>2
    <3>. QED  BY <1>3, <2>2, <3>1
  <2>. QED  BY <2>1, <2>2
<1>5. Yigma(Z)  BY <1>2, LenProperties, KetmaKetL
<1>. QED  BY <1>4, <1>5 DEF Ulangan

\* The columns of a model's table, and which of them must be given.
LEMMA JadvalL ==
  ASSUME NEW a, NEW b, NEW c, NEW i, NEW y, NEW k
  PROVE  /\ "ustun" \in DOMAIN Jadval(a, b, c, i, y, k)
         /\ DOMAIN Jadval(a, b, c, i, y, k).ustun = a \cup {"id"} \cup b \cup VaqtUstunlari \cup c
         /\ {u \in DOMAIN Jadval(a, b, c, i, y, k).ustun :
                Jadval(a, b, c, i, y, k).ustun[u] = "X"} = a \cup {"id"}
BY DEF Jadval, Ustunlar

(* The columns that must be given, model by model. *)
LEMMA MajburiyL ==
  /\ DOMAIN Modellar = JadvalNomlari
  /\ TalabUstunlar("users") = {"telegram_id", "role", "language", "is_blocked", "id"}
  /\ TalabUstunlar("subscriptions") = {"user_id", "tier", "period", "status", "starts_at",
        "expires_at", "is_trial", "id"}
  /\ TalabUstunlar("payments") = {"user_id", "tier", "period", "amount", "currency",
        "status", "id"}
  /\ TalabUstunlar("price_config") = {"tier", "period", "currency", "amount", "is_active",
        "id"}
  /\ TalabUstunlar("content") = {"kind", "title", "min_tier", "position", "is_published",
        "id"}
  /\ TalabUstunlar("content_progress") = {"user_id", "content_id", "id"}
  /\ TalabUstunlar("user_widgets") = {"user_id", "widget", "id"}
  /\ TalabUstunlar("violations") = {"user_id", "reason", "id"}
  /\ TalabUstunlar("coin_rulings") = {"symbol", "status", "reason", "id"}
  /\ TalabUstunlar("halal_universe_snapshots") = {"symbols", "scanned_depth",
        "is_complete", "id"}
  /\ TalabUstunlar("signals") = {"symbol", "source", "status", "entry", "stop", "tp1",
        "entry_order_type", "exit_order_type", "is_false_signal", "id"}
  /\ TalabUstunlar("signal_events") = {"signal_id", "event", "id"}
  /\ TalabUstunlar("risk_config") = {"key", "value", "id"}
  /\ TalabUstunlar("user_positions") = {"user_id", "signal_id", "amount_usd",
        "entry_price", "trade_date", "id"}
  /\ TalabUstunlar("social_links") = {"title", "url", "icon", "position", "is_active",
        "id"}
  /\ TalabUstunlar("bozor_kesimlari") = {"kod", "qiymat", "olingan", "id"}
  /\ TalabUstunlar("bozor_korinishlari") = {"turi", "sana", "asboblar_json", "xulosa",
        "kutilma", "id"}
  /\ TalabUstunlar("capital_blocks") = {"user_id", "raqam", "hajm_usd", "id"}
  /\ TalabUstunlar("position_exits") = {"position_id", "bosqich", "narx", "ulush_pct",
        "miqdor_usd", "natija_usd", "yopilgan_vaqt", "id"}
  /\ TalabUstunlar("homepage_posts") = {"content_type", "id"}
  /\ TalabUstunlar("zanjir_holatlari") = {"symbol", "bloklar_json", "natija",
        "tekshirilgan", "id"}
  /\ TalabUstunlar("kuzatuv_holatlari") = {"symbol", "yonalish", "tekshirilgan", "id"}
  /\ TalabUstunlar("kuzatuv_skani") = {"id"}
  /\ TalabUstunlar("kuzatuv_bozor") = {"symbol", "yangilangan", "id"}
  /\ TalabUstunlar("kunlik_qidiruv") = {"user_id", "sana", "id"}
  /\ TalabUstunlar("radar_sessiyalar") = {"turi", "sham_vaqti", "kun", "tartib",
        "boshlandi", "id"}
  /\ TalabUstunlar("radar_natijalar") = {"sessiya_id", "symbol", "belgi", "turi", "id"}
  /\ TalabUstunlar("radar_hajm") = {"symbol", "yangilangan", "id"}
  /\ TalabUstunlar("radar_sozlamalar") = {"kalit", "qiymat", "id"}
  /\ TalabUstunlar("radar_yashirin") = {"symbol", "id"}
  /\ TalabUstunlar("radar_holati") = {"id"}
<1>1. DOMAIN Modellar = JadvalNomlari  BY DEF Modellar
<1>2. TalabUstunlar("users") = {"telegram_id", "role", "language", "is_blocked", "id"}
  BY JadvalL DEF TalabUstunlar, Modellar, JadvalNomlari, User
<1>3. TalabUstunlar("subscriptions") = {"user_id", "tier", "period", "status", "starts_at",
      "expires_at", "is_trial", "id"}
  BY JadvalL DEF TalabUstunlar, Modellar, JadvalNomlari, Subscription
<1>4. TalabUstunlar("payments") = {"user_id", "tier", "period", "amount", "currency",
      "status", "id"}
  BY JadvalL DEF TalabUstunlar, Modellar, JadvalNomlari, Payment
<1>5. TalabUstunlar("price_config") = {"tier", "period", "currency", "amount", "is_active",
      "id"}
  BY JadvalL DEF TalabUstunlar, Modellar, JadvalNomlari, PriceConfig
<1>6. TalabUstunlar("content") = {"kind", "title", "min_tier", "position", "is_published",
      "id"}
  BY JadvalL DEF TalabUstunlar, Modellar, JadvalNomlari, Content
<1>7. TalabUstunlar("content_progress") = {"user_id", "content_id", "id"}
  BY JadvalL DEF TalabUstunlar, Modellar, JadvalNomlari, ContentProgress
<1>8. TalabUstunlar("user_widgets") = {"user_id", "widget", "id"}
  BY JadvalL DEF TalabUstunlar, Modellar, JadvalNomlari, UserWidget
<1>9. TalabUstunlar("violations") = {"user_id", "reason", "id"}
  BY JadvalL DEF TalabUstunlar, Modellar, JadvalNomlari, Violation
<1>10. TalabUstunlar("coin_rulings") = {"symbol", "status", "reason", "id"}
  BY JadvalL DEF TalabUstunlar, Modellar, JadvalNomlari, CoinRuling
<1>11. TalabUstunlar("halal_universe_snapshots") = {"symbols", "scanned_depth",
      "is_complete", "id"}
  BY JadvalL DEF TalabUstunlar, Modellar, JadvalNomlari, HalalUniverseSnapshot
<1>12. TalabUstunlar("signals") = {"symbol", "source", "status", "entry", "stop", "tp1",
      "entry_order_type", "exit_order_type", "is_false_signal", "id"}
  BY JadvalL DEF TalabUstunlar, Modellar, JadvalNomlari, SignalRecord
<1>13. TalabUstunlar("signal_events") = {"signal_id", "event", "id"}
  BY JadvalL DEF TalabUstunlar, Modellar, JadvalNomlari, SignalEvent
<1>14. TalabUstunlar("risk_config") = {"key", "value", "id"}
  BY JadvalL DEF TalabUstunlar, Modellar, JadvalNomlari, RiskConfigEntry
<1>15. TalabUstunlar("user_positions") = {"user_id", "signal_id", "amount_usd",
      "entry_price", "trade_date", "id"}
  BY JadvalL DEF TalabUstunlar, Modellar, JadvalNomlari, UserPosition
<1>16. TalabUstunlar("social_links") = {"title", "url", "icon", "position", "is_active",
      "id"}
  BY JadvalL DEF TalabUstunlar, Modellar, JadvalNomlari, SocialLink
<1>17. TalabUstunlar("bozor_kesimlari") = {"kod", "qiymat", "olingan", "id"}
  BY JadvalL DEF TalabUstunlar, Modellar, JadvalNomlari, BozorKesimi
<1>18. TalabUstunlar("bozor_korinishlari") = {"turi", "sana", "asboblar_json", "xulosa",
      "kutilma", "id"}
  BY JadvalL DEF TalabUstunlar, Modellar, JadvalNomlari, BozorKorinishi
<1>19. TalabUstunlar("capital_blocks") = {"user_id", "raqam", "hajm_usd", "id"}
  BY JadvalL DEF TalabUstunlar, Modellar, JadvalNomlari, CapitalBlock
<1>20. TalabUstunlar("position_exits") = {"position_id", "bosqich", "narx", "ulush_pct",
      "miqdor_usd", "natija_usd", "yopilgan_vaqt", "id"}
  BY JadvalL DEF TalabUstunlar, Modellar, JadvalNomlari, PositionExit
<1>21. TalabUstunlar("homepage_posts") = {"content_type", "id"}
  BY JadvalL DEF TalabUstunlar, Modellar, JadvalNomlari, HomepagePost
<1>22. TalabUstunlar("zanjir_holatlari") = {"symbol", "bloklar_json", "natija",
      "tekshirilgan", "id"}
  BY JadvalL DEF TalabUstunlar, Modellar, JadvalNomlari, ZanjirHolati
<1>23. TalabUstunlar("kuzatuv_holatlari") = {"symbol", "yonalish", "tekshirilgan", "id"}
  BY JadvalL DEF TalabUstunlar, Modellar, JadvalNomlari, KuzatuvHolati
<1>24. TalabUstunlar("kuzatuv_skani") = {"id"}
  BY JadvalL DEF TalabUstunlar, Modellar, JadvalNomlari, KuzatuvSkani
<1>25. TalabUstunlar("kuzatuv_bozor") = {"symbol", "yangilangan", "id"}
  BY JadvalL DEF TalabUstunlar, Modellar, JadvalNomlari, KuzatuvBozor
<1>26. TalabUstunlar("kunlik_qidiruv") = {"user_id", "sana", "id"}
  BY JadvalL DEF TalabUstunlar, Modellar, JadvalNomlari, KunlikQidiruv
<1>27. TalabUstunlar("radar_sessiyalar") = {"turi", "sham_vaqti", "kun", "tartib",
      "boshlandi", "id"}
  BY JadvalL DEF TalabUstunlar, Modellar, JadvalNomlari, RadarSessiya
<1>28. TalabUstunlar("radar_natijalar") = {"sessiya_id", "symbol", "belgi", "turi", "id"}
  BY JadvalL DEF TalabUstunlar, Modellar, JadvalNomlari, RadarNatija
<1>29. TalabUstunlar("radar_hajm") = {"symbol", "yangilangan", "id"}
  BY JadvalL DEF TalabUstunlar, Modellar, JadvalNomlari, RadarHajm
<1>30. TalabUstunlar("radar_sozlamalar") = {"kalit", "qiymat", "id"}
  BY JadvalL DEF TalabUstunlar, Modellar, JadvalNomlari, RadarSozlama
<1>31. TalabUstunlar("radar_yashirin") = {"symbol", "id"}
  BY JadvalL DEF TalabUstunlar, Modellar, JadvalNomlari, RadarYashirin
<1>32. TalabUstunlar("radar_holati") = {"id"}
  BY JadvalL DEF TalabUstunlar, Modellar, JadvalNomlari, RadarHolati
<1>. QED
  BY <1>1, <1>2, <1>3, <1>4, <1>5, <1>6, <1>7, <1>8, <1>9, <1>10, <1>11, <1>12, <1>13,
     <1>14, <1>15, <1>16, <1>17, <1>18, <1>19, <1>20, <1>21, <1>22, <1>23, <1>24, <1>25,
     <1>26, <1>27, <1>28, <1>29, <1>30, <1>31, <1>32

\* A table as a migration makes it has the columns named, the id and the timestamps.
LEMMA TarifL ==
  ASSUME NEW a, NEW b, NEW c, NEW y, NEW k
  PROVE  /\ "ustun" \in DOMAIN Asosiy(a, b, c, y, k) /\ "ustun" \in DOMAIN Vaqtsiz(a, b, c, y, k)
         /\ a \cup {"id"} \cup b \cup c \subseteq DOMAIN Asosiy(a, b, c, y, k).ustun
         /\ a \cup {"id"} \cup b \cup c \subseteq DOMAIN Vaqtsiz(a, b, c, y, k).ustun
<1>1. /\ "ustun" \in DOMAIN Asosiy(a, b, c, y, k)
      /\ DOMAIN Asosiy(a, b, c, y, k).ustun = a \cup {"id"} \cup b \cup VaqtUstunlari \cup c
  BY JadvalL DEF Asosiy
<1>2. /\ "ustun" \in DOMAIN Vaqtsiz(a, b, c, y, k)
      /\ DOMAIN Vaqtsiz(a, b, c, y, k).ustun = a \cup {"id"} \cup VaqtUstunlari \cup b \cup c
  BY <1>1 DEF Vaqtsiz, Ustunlar
<1>. QED  BY <1>1, <1>2

\* A revision of such operations.
Yurish(M) ==
    /\ Yigma(M.yuqori) /\ \A i \in DOMAIN M.yuqori : Butun(M.yuqori[i]) /\ Saqlar(M.yuqori[i])
    /\ Yigma(M.pastga) /\ \A i \in DOMAIN M.pastga : Butun(M.pastga[i])

\* Undone operation by operation.
LEMMA QaytarL ==
  ASSUME NEW L, Yigma(L), \A i \in DOMAIN L : Qoshar(L[i])
  PROVE  Yurish(Qaytariladi(L))
<1>. DEFINE P == Teskari(L)
<1>1. Len(L) \in Nat /\ DOMAIN L = 1..Len(L)  BY LenProperties DEF Yigma
<1>2. P = [k \in 1..Len(L) |-> TeskariAmal(L[Len(L) + 1 - k])]  BY <1>1 DEF Teskari
<1>3. DOMAIN P = 1..Len(L) /\ \A k \in 1..Len(L) : P[k] = TeskariAmal(L[Len(L) + 1 - k])
  BY <1>2
<1>4. Yigma(P)  BY <1>1, <1>2, KetmaKetL
<1>5. ASSUME NEW k \in DOMAIN P PROVE Butun(P[k])
  <2>1. k \in 1..Len(L) /\ Len(L) + 1 - k \in DOMAIN L  BY <1>1, <1>3
  <2>2. PICK i \in DOMAIN L : i = Len(L) + 1 - k  BY <2>1
  <2>3. P[k] = TeskariAmal(L[i]) /\ Qoshar(L[i])  BY <1>3, <2>1, <2>2
  <2>. HIDE DEF P
  <2>. QED
    BY <2>3 DEF TeskariAmal, Tashla, UstunTashla, IndeksTashla, Qoshar, Qoshuvchi, Butun,
                        Yaratar, AMALLAR
<1>6. \A i \in DOMAIN L : Butun(L[i]) /\ Saqlar(L[i])
  BY DEF Qoshar, Qoshuvchi, Butun, AMALLAR, Saqlar
<1>7. Qaytariladi(L).yuqori = L /\ Qaytariladi(L).pastga = P  BY DEF Qaytariladi
<1>. HIDE DEF P
<1>. QED  BY <1>4, <1>5, <1>6, <1>7 DEF Yurish

\* Columns added one after another.
LEMMA HarBiriniL ==
  ASSUME NEW j, NEW n, NEW tur, Yigma(n),
         \A i \in DOMAIN n : j \in JadvalNomlari => n[i] \notin TalabUstunlar(j)
  PROVE  /\ Yigma(HarBirini(j, n, tur))
         /\ \A i \in DOMAIN HarBirini(j, n, tur) : Qoshar(HarBirini(j, n, tur)[i])
<1>. DEFINE L == HarBirini(j, n, tur)
<1>1. Len(n) \in Nat /\ DOMAIN n = 1..Len(n)  BY LenProperties DEF Yigma
<1>2. L = [k \in 1..Len(n) |-> Qosh(j, n[k], tur)]  BY <1>1 DEF HarBirini
<1>3. DOMAIN L = 1..Len(n) /\ \A k \in 1..Len(n) : L[k] = Qosh(j, n[k], tur)  BY <1>2
<1>. HIDE DEF L
<1>4. Yigma(L)  BY <1>1, <1>2, KetmaKetL
<1>5. \A i \in DOMAIN L : Qoshar(L[i])
  BY <1>1, <1>3 DEF Qosh, Qoshar, Qoshuvchi, Yaratar
<1>. QED  BY <1>4, <1>5 DEF L

LEMMA BirinchiJadvallarL ==
  Yigma(BirinchiJadvallar) /\ \A i \in DOMAIN BirinchiJadvallar : Qoshar(BirinchiJadvallar[i])
<1>1. Yigma(BirinchiJadvallar) /\ DOMAIN BirinchiJadvallar = 1..14
  BY SMTT(30) DEF BirinchiJadvallar, Yigma
<1>2. \A i \in {1, 3, 4} : Qoshar(BirinchiJadvallar[i])
  BY SMTT(30), MajburiyL, TarifL
  DEF BirinchiJadvallar, Yarat, Qoshar, Yaratar, Qoshuvchi, JadvalNomlari
<1>3. \A i \in {6, 7, 9} : Qoshar(BirinchiJadvallar[i])
  BY SMTT(30), MajburiyL, TarifL
  DEF BirinchiJadvallar, Yarat, Qoshar, Yaratar, Qoshuvchi, JadvalNomlari
<1>4. \A i \in {10, 13} : Qoshar(BirinchiJadvallar[i])
  BY SMTT(30), MajburiyL, TarifL
  DEF BirinchiJadvallar, Yarat, Qoshar, Yaratar, Qoshuvchi, JadvalNomlari
<1>5. \A i \in {2, 5, 8, 11, 12, 14} : Qoshar(BirinchiJadvallar[i])
  BY SMTT(30) DEF BirinchiJadvallar, Indeks, Yagona, Qoshar, Yaratar, Qoshuvchi
<1>. QED  BY <1>1, <1>2, <1>3, <1>4, <1>5

LEMMA SignalJadvallariL ==
  /\ Yigma(SignalJadvallari)
  /\ \A i \in DOMAIN SignalJadvallari : Qoshar(SignalJadvallari[i])
<1>1. Yigma(SignalJadvallari)  BY SMTT(30) DEF SignalJadvallari, Yigma
<1>2. \A i \in DOMAIN SignalJadvallari : Qoshar(SignalJadvallari[i])
  BY SMTT(30), MajburiyL, TarifL
  DEF SignalJadvallari, Yarat, Qosh, Indeks, Yagona, Qoshar, Yaratar, Qoshuvchi,
      JadvalNomlari
<1>. QED  BY <1>1, <1>2

LEMMA ObunaJadvallariL ==
  /\ Yigma(ObunaJadvallari)
  /\ \A i \in DOMAIN ObunaJadvallari : Qoshar(ObunaJadvallari[i])
<1>1. Yigma(ObunaJadvallari)  BY SMTT(30) DEF ObunaJadvallari, Yigma
<1>2. \A i \in DOMAIN ObunaJadvallari : Qoshar(ObunaJadvallari[i])
  BY SMTT(30), MajburiyL, TarifL
  DEF ObunaJadvallari, Yarat, Qosh, Indeks, Yagona, Qoshar, Yaratar, Qoshuvchi,
      JadvalNomlari
<1>. QED  BY <1>1, <1>2

LEMMA RadarSessiyaJadvallariL ==
  /\ Yigma(RadarSessiyaJadvallari)
  /\ \A i \in DOMAIN RadarSessiyaJadvallari : Qoshar(RadarSessiyaJadvallari[i])
<1>1. Yigma(RadarSessiyaJadvallari)  BY SMTT(30) DEF RadarSessiyaJadvallari, Yigma
<1>2. \A i \in DOMAIN RadarSessiyaJadvallari : Qoshar(RadarSessiyaJadvallari[i])
  BY SMTT(30), MajburiyL, TarifL
  DEF RadarSessiyaJadvallari, Yarat, Qosh, Indeks, Yagona, Qoshar, Yaratar, Qoshuvchi,
      JadvalNomlari
<1>. QED  BY <1>1, <1>2

LEMMA RadarNatijaJadvaliL ==
  /\ Yigma(RadarNatijaJadvali)
  /\ \A i \in DOMAIN RadarNatijaJadvali : Qoshar(RadarNatijaJadvali[i])
<1>1. Yigma(RadarNatijaJadvali)  BY SMTT(30) DEF RadarNatijaJadvali, Yigma
<1>2. \A i \in DOMAIN RadarNatijaJadvali : Qoshar(RadarNatijaJadvali[i])
  BY SMTT(30), MajburiyL, TarifL
  DEF RadarNatijaJadvali, Yarat, Qosh, Indeks, Yagona, Qoshar, Yaratar, Qoshuvchi,
      JadvalNomlari
<1>. QED  BY <1>1, <1>2

LEMMA M_a1c4f7d92b03L == Yurish(M_a1c4f7d92b03)
<1>. DEFINE L == M_a1c4f7d92b03.yuqori
<1>1. Yigma(L)  BY SMTT(30) DEF M_a1c4f7d92b03, Qaytariladi, Yigma
<1>2. \A i \in DOMAIN L : Qoshar(L[i])
  BY SMTT(30), MajburiyL, TarifL
  DEF M_a1c4f7d92b03, Qaytariladi, Yarat, Qosh, Indeks, Yagona, Qoshar, Yaratar,
      Qoshuvchi, JadvalNomlari
<1>3. M_a1c4f7d92b03 = Qaytariladi(L)  BY DEF M_a1c4f7d92b03, Qaytariladi
<1>. HIDE DEF L
<1>. QED  BY <1>1, <1>2, <1>3, QaytarL

LEMMA M_da6c8ea490c9L == Yurish(M_da6c8ea490c9)
<1>. DEFINE L == M_da6c8ea490c9.yuqori
<1>1. Yigma(L)  BY SMTT(30) DEF M_da6c8ea490c9, Qaytariladi, Yigma
<1>2. \A i \in DOMAIN L : Qoshar(L[i])
  BY SMTT(30), MajburiyL, TarifL
  DEF M_da6c8ea490c9, Qaytariladi, Yarat, Qosh, Indeks, Yagona, Qoshar, Yaratar,
      Qoshuvchi, JadvalNomlari
<1>3. M_da6c8ea490c9 = Qaytariladi(L)  BY DEF M_da6c8ea490c9, Qaytariladi
<1>. HIDE DEF L
<1>. QED  BY <1>1, <1>2, <1>3, QaytarL

LEMMA M_26969526e4f4L == Yurish(M_26969526e4f4)
<1>. DEFINE L == M_26969526e4f4.yuqori
<1>1. Yigma(L)  BY SMTT(30) DEF M_26969526e4f4, Qaytariladi, Yigma
<1>2. \A i \in DOMAIN L : Qoshar(L[i])
  BY SMTT(30), MajburiyL, TarifL
  DEF M_26969526e4f4, Qaytariladi, Yarat, Qosh, Indeks, Yagona, Qoshar, Yaratar,
      Qoshuvchi, JadvalNomlari
<1>3. M_26969526e4f4 = Qaytariladi(L)  BY DEF M_26969526e4f4, Qaytariladi
<1>. HIDE DEF L
<1>. QED  BY <1>1, <1>2, <1>3, QaytarL

LEMMA M_3f599fdf0f4fL == Yurish(M_3f599fdf0f4f)
<1>. DEFINE L == M_3f599fdf0f4f.yuqori
<1>1. Yigma(L)  BY SMTT(30) DEF M_3f599fdf0f4f, Qaytariladi, Yigma
<1>2. \A i \in DOMAIN L : Qoshar(L[i])
  BY SMTT(30), MajburiyL, TarifL
  DEF M_3f599fdf0f4f, Qaytariladi, Yarat, Qosh, Indeks, Yagona, Qoshar, Yaratar,
      Qoshuvchi, JadvalNomlari
<1>3. M_3f599fdf0f4f = Qaytariladi(L)  BY DEF M_3f599fdf0f4f, Qaytariladi
<1>. HIDE DEF L
<1>. QED  BY <1>1, <1>2, <1>3, QaytarL

LEMMA M_7b21e4c05d18L == Yurish(M_7b21e4c05d18)
<1>. DEFINE L == M_7b21e4c05d18.yuqori
<1>1. Yigma(L)  BY SMTT(30) DEF M_7b21e4c05d18, Qaytariladi, Yigma
<1>2. \A i \in DOMAIN L : Qoshar(L[i])
  BY SMTT(30), MajburiyL, TarifL
  DEF M_7b21e4c05d18, Qaytariladi, Yarat, Qosh, Indeks, Yagona, Qoshar, Yaratar,
      Qoshuvchi, JadvalNomlari
<1>3. M_7b21e4c05d18 = Qaytariladi(L)  BY DEF M_7b21e4c05d18, Qaytariladi
<1>. HIDE DEF L
<1>. QED  BY <1>1, <1>2, <1>3, QaytarL

LEMMA M_c7d2f5a91e40L == Yurish(M_c7d2f5a91e40)
<1>. DEFINE L == M_c7d2f5a91e40.yuqori
<1>1. Yigma(L)  BY SMTT(30) DEF M_c7d2f5a91e40, Qaytariladi, Yigma
<1>2. \A i \in DOMAIN L : Qoshar(L[i])
  BY SMTT(30), MajburiyL, TarifL
  DEF M_c7d2f5a91e40, Qaytariladi, Yarat, Qosh, Indeks, Yagona, Qoshar, Yaratar,
      Qoshuvchi, JadvalNomlari
<1>3. M_c7d2f5a91e40 = Qaytariladi(L)  BY DEF M_c7d2f5a91e40, Qaytariladi
<1>. HIDE DEF L
<1>. QED  BY <1>1, <1>2, <1>3, QaytarL

LEMMA M_e91b4c7a2d55L == Yurish(M_e91b4c7a2d55)
<1>. DEFINE L == M_e91b4c7a2d55.yuqori
<1>1. Yigma(L)  BY SMTT(30) DEF M_e91b4c7a2d55, Qaytariladi, Yigma
<1>2. \A i \in DOMAIN L : Qoshar(L[i])
  BY SMTT(30), MajburiyL, TarifL
  DEF M_e91b4c7a2d55, Qaytariladi, Yarat, Qosh, Indeks, Yagona, Qoshar, Yaratar,
      Qoshuvchi, JadvalNomlari
<1>3. M_e91b4c7a2d55 = Qaytariladi(L)  BY DEF M_e91b4c7a2d55, Qaytariladi
<1>. HIDE DEF L
<1>. QED  BY <1>1, <1>2, <1>3, QaytarL

LEMMA M_f3a7c15d8e29L == Yurish(M_f3a7c15d8e29)
<1>. DEFINE L == M_f3a7c15d8e29.yuqori
<1>1. Yigma(L)  BY SMTT(30) DEF M_f3a7c15d8e29, Qaytariladi, Yigma
<1>2. \A i \in DOMAIN L : Qoshar(L[i])
  BY SMTT(30), MajburiyL, TarifL
  DEF M_f3a7c15d8e29, Qaytariladi, Yarat, Qosh, Indeks, Yagona, Qoshar, Yaratar,
      Qoshuvchi, JadvalNomlari
<1>3. M_f3a7c15d8e29 = Qaytariladi(L)  BY DEF M_f3a7c15d8e29, Qaytariladi
<1>. HIDE DEF L
<1>. QED  BY <1>1, <1>2, <1>3, QaytarL

LEMMA M_b8d3e6f14a72L == Yurish(M_b8d3e6f14a72)
<1>. DEFINE L == M_b8d3e6f14a72.yuqori
<1>1. Yigma(L)  BY SMTT(30) DEF M_b8d3e6f14a72, Qaytariladi, Yigma
<1>2. \A i \in DOMAIN L : Qoshar(L[i])
  BY SMTT(30), MajburiyL, TarifL
  DEF M_b8d3e6f14a72, Qaytariladi, Yarat, Qosh, Indeks, Yagona, Qoshar, Yaratar,
      Qoshuvchi, JadvalNomlari
<1>3. M_b8d3e6f14a72 = Qaytariladi(L)  BY DEF M_b8d3e6f14a72, Qaytariladi
<1>. HIDE DEF L
<1>. QED  BY <1>1, <1>2, <1>3, QaytarL

LEMMA M_d5c9b21e73f8L == Yurish(M_d5c9b21e73f8)
<1>. DEFINE L == M_d5c9b21e73f8.yuqori
<1>1. Yigma(L)  BY SMTT(30) DEF M_d5c9b21e73f8, Qaytariladi, Yigma
<1>2. \A i \in DOMAIN L : Qoshar(L[i])
  BY SMTT(30), MajburiyL, TarifL
  DEF M_d5c9b21e73f8, Qaytariladi, Yarat, Qosh, Indeks, Yagona, Qoshar, Yaratar,
      Qoshuvchi, JadvalNomlari
<1>3. M_d5c9b21e73f8 = Qaytariladi(L)  BY DEF M_d5c9b21e73f8, Qaytariladi
<1>. HIDE DEF L
<1>. QED  BY <1>1, <1>2, <1>3, QaytarL

LEMMA M_f8a2d64c091bL == Yurish(M_f8a2d64c091b)
<1>. DEFINE L == M_f8a2d64c091b.yuqori
<1>1. Yigma(L)  BY SMTT(30) DEF M_f8a2d64c091b, Qaytariladi, Yigma
<1>2. \A i \in DOMAIN L : Qoshar(L[i])
  BY SMTT(30), MajburiyL, TarifL
  DEF M_f8a2d64c091b, Qaytariladi, Yarat, Qosh, Indeks, Yagona, Qoshar, Yaratar,
      Qoshuvchi, JadvalNomlari
<1>3. M_f8a2d64c091b = Qaytariladi(L)  BY DEF M_f8a2d64c091b, Qaytariladi
<1>. HIDE DEF L
<1>. QED  BY <1>1, <1>2, <1>3, QaytarL

LEMMA M_d5b71e4c9a28L == Yurish(M_d5b71e4c9a28)
<1>. DEFINE L == M_d5b71e4c9a28.yuqori
<1>1. Yigma(L)  BY SMTT(30) DEF M_d5b71e4c9a28, Qaytariladi, Yigma
<1>2. \A i \in DOMAIN L : Qoshar(L[i])
  BY SMTT(30), MajburiyL, TarifL
  DEF M_d5b71e4c9a28, Qaytariladi, Yarat, Qosh, Indeks, Yagona, Qoshar, Yaratar,
      Qoshuvchi, JadvalNomlari
<1>3. M_d5b71e4c9a28 = Qaytariladi(L)  BY DEF M_d5b71e4c9a28, Qaytariladi
<1>. HIDE DEF L
<1>. QED  BY <1>1, <1>2, <1>3, QaytarL

LEMMA M_e8a3c15f6b92L == Yurish(M_e8a3c15f6b92)
<1>. DEFINE L == M_e8a3c15f6b92.yuqori
<1>1. Yigma(L)  BY SMTT(30) DEF M_e8a3c15f6b92, Qaytariladi, Yigma
<1>2. \A i \in DOMAIN L : Qoshar(L[i])
  BY SMTT(30), MajburiyL, TarifL
  DEF M_e8a3c15f6b92, Qaytariladi, Yarat, Qosh, Indeks, Yagona, Qoshar, Yaratar,
      Qoshuvchi, JadvalNomlari
<1>3. M_e8a3c15f6b92 = Qaytariladi(L)  BY DEF M_e8a3c15f6b92, Qaytariladi
<1>. HIDE DEF L
<1>. QED  BY <1>1, <1>2, <1>3, QaytarL

LEMMA M_f2d94b78c3a1L == Yurish(M_f2d94b78c3a1)
<1>. DEFINE L == M_f2d94b78c3a1.yuqori
<1>1. Yigma(L)  BY SMTT(30) DEF M_f2d94b78c3a1, Qaytariladi, Yigma
<1>2. \A i \in DOMAIN L : Qoshar(L[i])
  BY SMTT(30), MajburiyL, TarifL
  DEF M_f2d94b78c3a1, Qaytariladi, Yarat, Qosh, Indeks, Yagona, Qoshar, Yaratar,
      Qoshuvchi, JadvalNomlari
<1>3. M_f2d94b78c3a1 = Qaytariladi(L)  BY DEF M_f2d94b78c3a1, Qaytariladi
<1>. HIDE DEF L
<1>. QED  BY <1>1, <1>2, <1>3, QaytarL

\* Two lists of added things, one after the other.
LEMMA UlashL ==
  ASSUME NEW A, NEW B, Yigma(A), Yigma(B),
         \A i \in DOMAIN A : Qoshar(A[i]), \A i \in DOMAIN B : Qoshar(B[i])
  PROVE  Yigma(A \o B) /\ \A i \in DOMAIN (A \o B) : Qoshar((A \o B)[i])
<1>0. PICK Z : Z = A \o B  OBVIOUS
<1>1. Ulangan(Z, A, B)
  <2>1. Yigma(A) /\ Yigma(B) /\ Z = A \o B  BY <1>0
  <2>. QED  BY ONLY <2>1, QoshmaL
<1>2. Yigma(Z) /\ \A i \in DOMAIN Z : Qoshar(Z[i])  BY <1>1 DEF Ulangan
<1>. QED  BY <1>0, <1>2

LEMMA M_9adb13e4b0ecL == Yurish(M_9adb13e4b0ec)
<1>. DEFINE A == BirinchiJadvallar \o SignalJadvallari
            B == A \o ObunaJadvallari
<1>1. Yigma(A) /\ \A i \in DOMAIN A : Qoshar(A[i])
  BY BirinchiJadvallarL, SignalJadvallariL, UlashL
<1>. HIDE DEF A
<1>2. Yigma(B) /\ \A i \in DOMAIN B : Qoshar(B[i])
  BY <1>1, ObunaJadvallariL, UlashL
<1>3. M_9adb13e4b0ec = Qaytariladi(B)  BY DEF M_9adb13e4b0ec, A
<1>. HIDE DEF B
<1>. QED  BY <1>2, <1>3, QaytarL

LEMMA M_e4b7a2c91f05L == Yurish(M_e4b7a2c91f05)
<1>. DEFINE B == RadarSessiyaJadvallari \o RadarNatijaJadvali
<1>1. Yigma(B) /\ \A i \in DOMAIN B : Qoshar(B[i])
  BY RadarSessiyaJadvallariL, RadarNatijaJadvaliL, UlashL
<1>2. M_e4b7a2c91f05 = Qaytariladi(B)  BY DEF M_e4b7a2c91f05
<1>. HIDE DEF B
<1>. QED  BY <1>1, <1>2, QaytarL

LEMMA M_b4e1a7c30d92L == Yurish(M_b4e1a7c30d92)
<1>. DEFINE n == <<"structure_breadth_score", "quarterly_phase_score">>
            B == HarBirini("market_health_log", n, "N")
<1>1. Yigma(n) /\ "market_health_log" \notin JadvalNomlari  BY DEF Yigma, JadvalNomlari
<1>. HIDE DEF n
<1>2. Yigma(B) /\ \A i \in DOMAIN B : Qoshar(B[i])  BY <1>1, HarBiriniL
<1>3. M_b4e1a7c30d92 = Qaytariladi(B)  BY DEF M_b4e1a7c30d92, n
<1>. HIDE DEF B
<1>. QED  BY <1>2, <1>3, QaytarL

LEMMA M_e7b3c9d15a24L == Yurish(M_e7b3c9d15a24)
<1>. DEFINE A == << Yarat("homepage_posts", Vaqtsiz(
               {"content_type"}, {}, {"text_content", "media_url", "admin_id"}, {},
               {Boshatadi("admin_id", "users")})),
                    Indeks("homepage_posts", "ix_homepage_posts_admin_id"),
                    Indeks("homepage_posts", "ix_homepage_posts_created") >>
            n == <<"entry_chart_image", "result_chart_image">>
            H == HarBirini("signals", n, "N")
            B == A \o H
<1>1. Yigma(n) /\ \A i \in DOMAIN n : n[i] \notin TalabUstunlar("signals")
  BY SMTT(30), MajburiyL DEF Yigma
<1>2. Yigma(A)  BY SMTT(30) DEF Yigma
<1>3. \A i \in DOMAIN A : Qoshar(A[i])
  BY SMTT(30), MajburiyL, TarifL
  DEF Yarat, Indeks, Qoshar, Yaratar, Qoshuvchi, JadvalNomlari
<1>4. M_e7b3c9d15a24 = Qaytariladi(B)  BY DEF M_e7b3c9d15a24
<1>. HIDE DEF A, n
<1>5. Yigma(H) /\ \A i \in DOMAIN H : Qoshar(H[i])  BY <1>1, HarBiriniL
<1>. HIDE DEF H
<1>6. Yigma(B) /\ \A i \in DOMAIN B : Qoshar(B[i])  BY <1>2, <1>3, <1>5, UlashL
<1>. HIDE DEF B
<1>. QED  BY <1>4, <1>6, QaytarL

LEMMA M_a4c81f2b7d63L == Yurish(M_a4c81f2b7d63)
<1>. DEFINE n == <<"body", "duration_seconds", "category">>
            H == HarBirini("content", n, "N")
            A == << Yarat("content_progress", Asosiy(
                  {"user_id", "content_id"}, {"percent"}, {}, {"uq_progress_user_content"},
                  {Kaskad("user_id", "users"), Kaskad("content_id", "content")})),
            Indeks("content_progress", "ix_content_progress_user_id"),
            Indeks("content_progress", "ix_content_progress_content_id") >>
            B == H \o A
<1>1. Yigma(n) /\ \A i \in DOMAIN n : n[i] \notin TalabUstunlar("content")
  BY SMTT(30), MajburiyL DEF Yigma
<1>2. Yigma(A)  BY SMTT(30) DEF Yigma
<1>3. \A i \in DOMAIN A : Qoshar(A[i])
  BY SMTT(30), MajburiyL, TarifL
  DEF Yarat, Indeks, Qoshar, Yaratar, Qoshuvchi, JadvalNomlari
<1>4. M_a4c81f2b7d63 = Qaytariladi(B)  BY DEF M_a4c81f2b7d63
<1>. HIDE DEF A, n
<1>5. Yigma(H) /\ \A i \in DOMAIN H : Qoshar(H[i])  BY <1>1, HarBiriniL
<1>. HIDE DEF H
<1>6. Yigma(B) /\ \A i \in DOMAIN B : Qoshar(B[i])  BY <1>2, <1>3, <1>5, UlashL
<1>. HIDE DEF B
<1>. QED  BY <1>4, <1>6, QaytarL

LEMMA M_b7e392a5c184L == Yurish(M_b7e392a5c184)
<1>. DEFINE A == << Qosh("homepage_posts", "source_kind", "D") >>
            n == <<"source_id", "link">>
            H == HarBirini("homepage_posts", n, "N")
            C == << Yagona("homepage_posts", "uq_post_manba"),
            Yarat("user_widgets", Asosiy(
                  {"user_id", "widget"}, {"position"}, {}, {"uq_widget_user_widget"},
                  {Kaskad("user_id", "users")})),
            Indeks("user_widgets", "ix_user_widgets_user_id") >>
            D == A \o H
            B == D \o C
<1>1. Yigma(n) /\ \A i \in DOMAIN n : n[i] \notin TalabUstunlar("homepage_posts")
  BY SMTT(30), MajburiyL DEF Yigma
<1>2. Yigma(A) /\ Yigma(C)  BY SMTT(30) DEF Yigma
<1>3. \A i \in DOMAIN A : Qoshar(A[i])
  BY SMTT(30), MajburiyL DEF Qosh, Qoshar, Yaratar, Qoshuvchi, JadvalNomlari
<1>4. \A i \in DOMAIN C : Qoshar(C[i])
  BY SMTT(30), MajburiyL, TarifL
  DEF Yarat, Indeks, Yagona, Qoshar, Yaratar, Qoshuvchi, JadvalNomlari
<1>5. M_b7e392a5c184 = Qaytariladi(B)  BY DEF M_b7e392a5c184
<1>. HIDE DEF A, n, C
<1>6. Yigma(H) /\ \A i \in DOMAIN H : Qoshar(H[i])  BY <1>1, HarBiriniL
<1>. HIDE DEF H
<1>7. Yigma(D) /\ \A i \in DOMAIN D : Qoshar(D[i])  BY <1>2, <1>3, <1>6, UlashL
<1>. HIDE DEF D
<1>8. Yigma(B) /\ \A i \in DOMAIN B : Qoshar(B[i])  BY <1>2, <1>4, <1>7, UlashL
<1>. HIDE DEF B
<1>. QED  BY <1>5, <1>8, QaytarL

LEMMA M_a7f3e29d5c84L == Yurish(M_a7f3e29d5c84)
<1>. DEFINE n == <<"orin_cg", "fdv", "muomalada", "jami_token", "eng_kop_token",
                   "ath", "ath_farq", "atl", "atl_farq", "yuqori_24s", "past_24s">>
            B == HarBirini("kuzatuv_bozor", n, "N")
<1>1. Yigma(n) /\ \A i \in DOMAIN n : n[i] \notin TalabUstunlar("kuzatuv_bozor")
  BY SMTT(30), MajburiyL DEF Yigma
<1>. HIDE DEF n
<1>2. Yigma(B) /\ \A i \in DOMAIN B : Qoshar(B[i])  BY <1>1, HarBiriniL
<1>3. M_a7f3e29d5c84 = Qaytariladi(B)  BY DEF M_a7f3e29d5c84, n
<1>. HIDE DEF B
<1>. QED  BY <1>2, <1>3, QaytarL

LEMMA M_b4c8d21a9e37L == Yurish(M_b4c8d21a9e37)
<1>. DEFINE m == <<"bosqich", "bosqich_izoh">>
            n == <<"bosqich_ulush", "impuls_past", "impuls_yuqori", "narx">>
            G == HarBirini("kuzatuv_holatlari", m, "D")
            H == HarBirini("kuzatuv_holatlari", n, "N")
            B == G \o H
<1>1. /\ Yigma(m) /\ \A i \in DOMAIN m : m[i] \notin TalabUstunlar("kuzatuv_holatlari")
      /\ Yigma(n) /\ \A i \in DOMAIN n : n[i] \notin TalabUstunlar("kuzatuv_holatlari")
  BY SMTT(30), MajburiyL DEF Yigma
<1>2. M_b4c8d21a9e37 = Qaytariladi(B)  BY DEF M_b4c8d21a9e37
<1>. HIDE DEF m, n
<1>3. /\ Yigma(G) /\ \A i \in DOMAIN G : Qoshar(G[i])
      /\ Yigma(H) /\ \A i \in DOMAIN H : Qoshar(H[i])
  BY <1>1, HarBiriniL
<1>. HIDE DEF G, H
<1>4. Yigma(B) /\ \A i \in DOMAIN B : Qoshar(B[i])  BY <1>3, UlashL
<1>. HIDE DEF B
<1>. QED  BY <1>2, <1>4, QaytarL

LEMMA M_c9e15b3f8a42L == Yurish(M_c9e15b3f8a42)
<1>. DEFINE n == <<"bos_narx", "sweep_narx">>
            B == HarBirini("kuzatuv_holatlari", n, "N")
<1>1. Yigma(n) /\ \A i \in DOMAIN n : n[i] \notin TalabUstunlar("kuzatuv_holatlari")
  BY SMTT(30), MajburiyL DEF Yigma
<1>. HIDE DEF n
<1>2. Yigma(B) /\ \A i \in DOMAIN B : Qoshar(B[i])  BY <1>1, HarBiriniL
<1>3. M_c9e15b3f8a42 = Qaytariladi(B)  BY DEF M_c9e15b3f8a42, n
<1>. HIDE DEF B
<1>. QED  BY <1>2, <1>3, QaytarL

\* The revisions whose downgrade() is not their upgrade() undone.
LEMMA M_a2f9d43c6b17L == Yurish(M_a2f9d43c6b17)
<1>. DEFINE Y == M_a2f9d43c6b17.yuqori
            P == M_a2f9d43c6b17.pastga
<1>1. Yigma(Y) /\ Yigma(P)  BY SMTT(30) DEF M_a2f9d43c6b17, Yigma
<1>2. \A i \in DOMAIN Y : Butun(Y[i]) /\ Saqlar(Y[i])
  BY SMTT(30) DEF M_a2f9d43c6b17, Qosh, Ozgartir, Butun, Yaratar, Saqlar, AMALLAR
<1>3. \A i \in DOMAIN P : Butun(P[i])
  BY SMTT(30), MajburiyL DEF M_a2f9d43c6b17, Ozgartir, UstunTashla, Butun, Yaratar, AMALLAR
<1>. QED  BY <1>1, <1>2, <1>3 DEF Yurish

LEMMA EskiModulL ==
  /\ Len(EskiModul) = 5 /\ DOMAIN EskiModul = 1..5
  /\ \A k \in 1..5 : EskiModul[k] \notin JadvalNomlari
  /\ ToSet(EskiModul) \cap JadvalNomlari = {}
<1>1. Len(EskiModul) = 5 /\ DOMAIN EskiModul = 1..5  BY SMTT(30) DEF EskiModul
<1>2. \A k \in 1..5 : EskiModul[k] \notin JadvalNomlari
  BY SMTT(30) DEF EskiModul, JadvalNomlari
<1>. QED  BY <1>1, <1>2 DEF ToSet

LEMMA M_a1f4e07c9b62L == Yurish(M_a1f4e07c9b62)
<1>. DEFINE Y == M_a1f4e07c9b62.yuqori
            P == M_a1f4e07c9b62.pastga
<1>1. /\ Y = [k \in 1..5 |-> Tashla(EskiModul[k])]
      /\ P = [k \in 1..5 |-> Yarat(EskiModul[k], EngSodda)]
  BY EskiModulL DEF M_a1f4e07c9b62
<1>. HIDE DEF Y, P
<1>2. Yigma(Y) /\ Yigma(P)  BY <1>1, KetmaKetL
<1>3. \A i \in DOMAIN Y : Butun(Y[i]) /\ Saqlar(Y[i])
  BY <1>1, EskiModulL DEF Tashla, Butun, Yaratar, Saqlar, AMALLAR
<1>4. "ustun" \in DOMAIN EngSodda  BY DEF EngSodda
<1>5. \A i \in DOMAIN P : Butun(P[i])
  BY <1>1, <1>4, EskiModulL DEF Yarat, Butun, Yaratar, AMALLAR
<1>. QED  BY <1>2, <1>3, <1>5 DEF Yurish, Y, P

LEMMA M_c3f0a92d7b41L == Yurish(M_c3f0a92d7b41)
<1>1. \A x : /\ Yigma(VaqtQiymati(x))
             /\ \A i \in DOMAIN VaqtQiymati(x) : Butun(VaqtQiymati(x)[i]) /\ Saqlar(VaqtQiymati(x)[i])
  <2>. SUFFICES ASSUME NEW x
                PROVE  Yigma(VaqtQiymati(x)) /\ \A i \in DOMAIN VaqtQiymati(x) :
                          Butun(VaqtQiymati(x)[i]) /\ Saqlar(VaqtQiymati(x)[i])
    OBVIOUS
  <2>1. /\ DOMAIN VaqtQiymati(x) = 1..12
        /\ VaqtQiymati(x) = [k \in 1..12 |-> VaqtQiymati(x)[k]]
        /\ \A k \in 1..12 : VaqtQiymati(x)[k].amal = "alter_column"
    BY DEF VaqtQiymati, Ozgartir
  <2>2. Yigma(VaqtQiymati(x))  BY <2>1, KetmaKetL
  <2>. QED  BY <2>1, <2>2 DEF Butun, Yaratar, Saqlar, AMALLAR
<1>. QED  BY <1>1 DEF Yurish, M_c3f0a92d7b41

LEMMA M_d1a4f76b3e08L == Yurish(M_d1a4f76b3e08)
<1>. DEFINE nomlar == <<"bosqich", "bosqich_izoh", "bosqich_ulush", "impuls_past", "impuls_yuqori">>
            Y == M_d1a4f76b3e08.yuqori
            G == HarBirini("kuzatuv_holatlari", SubSeq(nomlar, 1, 2), "D")
            H == HarBirini("kuzatuv_holatlari", SubSeq(nomlar, 3, 5), "N")
<1>1. Y = [k \in 1..5 |-> UstunTashla("kuzatuv_holatlari", nomlar[k])] /\ M_d1a4f76b3e08.pastga = G \o H
  BY DEF M_d1a4f76b3e08
<1>2. Yigma(Y)  BY <1>1, KetmaKetL
<1>3. DOMAIN Modellar["kuzatuv_holatlari"].ustun \cap
         {"bosqich", "bosqich_izoh", "bosqich_ulush", "impuls_past", "impuls_yuqori"} = {}
  BY JadvalL DEF Modellar, JadvalNomlari, KuzatuvHolati, VaqtUstunlari
<1>4. \A k \in 1..5 : nomlar[k] \notin DOMAIN Modellar["kuzatuv_holatlari"].ustun
  BY <1>3
<1>5. \A k \in 1..5 : nomlar[k] \notin TalabUstunlar("kuzatuv_holatlari")
  BY <1>4 DEF TalabUstunlar
<1>6. \A i \in DOMAIN Y : Butun(Y[i]) /\ Saqlar(Y[i])
  <2>. HIDE DEF nomlar, Y
  <2>. QED  BY <1>1, <1>4, <1>5 DEF UstunTashla, Butun, Yaratar, Saqlar, AMALLAR
<1>7. ASSUME NEW m \in 1..5, NEW n \in 1..5, m <= n
      PROVE  /\ Yigma(SubSeq(nomlar, m, n))
             /\ \A i \in DOMAIN SubSeq(nomlar, m, n) :
                    SubSeq(nomlar, m, n)[i] \notin TalabUstunlar("kuzatuv_holatlari")
  <2>. DEFINE Q == SubSeq(nomlar, m, n)
              S == {nomlar[i] : i \in 1..5}
  <2>1. \A i \in m..n : i \in 1..5 /\ nomlar[i] \in S  OBVIOUS
  <2>. HIDE DEF nomlar, S
  <2>2. /\ Q \in Seq(S) /\ Len(Q) = n - m + 1
        /\ \A i \in 1..(n - m + 1) : Q[i] = nomlar[m + i - 1]
    BY <1>7, <2>1, SubSeqProperties
  <2>. HIDE DEF Q
  <2>3. Q \in [1..Len(Q) -> S] /\ DOMAIN Q = 1..(n - m + 1) /\ n - m + 1 \in Nat
    BY <1>7, <2>2, LenProperties
  <2>4. Yigma(Q)  BY <2>2, <2>3, KetmaKetL
  <2>5. \A i \in 1..(n - m + 1) : m + i - 1 \in 1..5  BY <1>7
  <2>6. \A i \in DOMAIN Q : Q[i] \notin TalabUstunlar("kuzatuv_holatlari")
    BY <1>5, <2>2, <2>3, <2>5
  <2>. QED  BY <2>4, <2>6 DEF Q
<1>. HIDE DEF nomlar
<1>8. 1 \in 1..5 /\ 2 \in 1..5 /\ 3 \in 1..5 /\ 5 \in 1..5 /\ 1 <= 2 /\ 3 <= 5  OBVIOUS
<1>9. /\ Yigma(G) /\ \A i \in DOMAIN G : Qoshar(G[i])
      /\ Yigma(H) /\ \A i \in DOMAIN H : Qoshar(H[i])
  BY <1>7, <1>8, HarBiriniL
<1>. HIDE DEF G, H, Y
<1>10. Yigma(G \o H) /\ \A i \in DOMAIN (G \o H) : Qoshar((G \o H)[i])  BY <1>9, UlashL
<1>11. \A i \in DOMAIN (G \o H) : Butun((G \o H)[i])
  BY <1>10 DEF Qoshar, Qoshuvchi, Butun, AMALLAR
<1>. QED  BY <1>1, <1>2, <1>6, <1>10, <1>11 DEF Yurish, Y

\* Every revision.
LEMMA TartibL ==
  OXIRGI = 27 /\ \A k \in 1..OXIRGI : Yurish(Tartib[k])
<1>1. OXIRGI = 27  BY SMTT(30) DEF OXIRGI, Tartib
<1>2. /\ Tartib[1] = M_9adb13e4b0ec /\ Tartib[2] = M_a1c4f7d92b03 /\ Tartib[3] = M_da6c8ea490c9
      /\ Tartib[4] = M_26969526e4f4 /\ Tartib[5] = M_3f599fdf0f4f /\ Tartib[6] = M_7b21e4c05d18
      /\ Tartib[7] = M_b4e1a7c30d92 /\ Tartib[8] = M_c7d2f5a91e40 /\ Tartib[9] = M_e91b4c7a2d55
      /\ Tartib[10] = M_f3a7c15d8e29 /\ Tartib[11] = M_a2f9d43c6b17 /\ Tartib[12] = M_b8d3e6f14a72
      /\ Tartib[13] = M_a1f4e07c9b62 /\ Tartib[14] = M_d5c9b21e73f8 /\ Tartib[15] = M_e7b3c9d15a24
      /\ Tartib[16] = M_f8a2d64c091b /\ Tartib[17] = M_a4c81f2b7d63 /\ Tartib[18] = M_b7e392a5c184
      /\ Tartib[19] = M_c3f0a92d7b41 /\ Tartib[20] = M_d5b71e4c9a28 /\ Tartib[21] = M_e8a3c15f6b92
      /\ Tartib[22] = M_f2d94b78c3a1 /\ Tartib[23] = M_a7f3e29d5c84 /\ Tartib[24] = M_b4c8d21a9e37
      /\ Tartib[25] = M_c9e15b3f8a42 /\ Tartib[26] = M_d1a4f76b3e08 /\ Tartib[27] = M_e4b7a2c91f05
  BY SMTT(30) DEF Tartib
<1>3. \A k \in 1..27 : Yurish(Tartib[k])
  BY <1>2, M_9adb13e4b0ecL, M_a1c4f7d92b03L, M_da6c8ea490c9L, M_26969526e4f4L, M_3f599fdf0f4fL,
     M_7b21e4c05d18L, M_b4e1a7c30d92L, M_c7d2f5a91e40L, M_e91b4c7a2d55L,
     M_f3a7c15d8e29L, M_a2f9d43c6b17L, M_b8d3e6f14a72L, M_a1f4e07c9b62L,
     M_d5c9b21e73f8L, M_e7b3c9d15a24L, M_f8a2d64c091bL, M_a4c81f2b7d63L,
     M_b7e392a5c184L, M_c3f0a92d7b41L, M_d5b71e4c9a28L, M_e8a3c15f6b92L,
     M_f2d94b78c3a1L, M_a7f3e29d5c84L, M_b4c8d21a9e37L, M_c9e15b3f8a42L,
     M_d1a4f76b3e08L, M_e4b7a2c91f05L
<1>. QED  BY <1>1, <1>3

-----------------------------------------------------------------------------
(* What an operation does to a schema. *)

ModelUstuni(t) == DOMAIN Modellar[t].ustun

\* Every table has columns, and a model's table those that must be given.
Shakl(s) ==
    /\ \A t \in DOMAIN s : "ustun" \in DOMAIN s[t]
    /\ \A t \in DOMAIN s \cap JadvalNomlari : TalabUstunlar(t) \subseteq DOMAIN s[t].ustun

UstuniBor(s, t, u) == t \in DOMAIN s /\ u \in DOMAIN s[t].ustun

\* An operation that makes the table; the column.
JadvalQiladi(a, t) == a.amal = "create_table" /\ a.jadval = t
UstunQiladi(a, t, u) ==
    \/ a.amal = "create_table" /\ a.jadval = t /\ u \in DOMAIN a.tarif.ustun
    \/ a.amal \in {"add_column", "alter_column"} /\ a.jadval = t /\ a.nom = u

\* Every column of the tables of the models that are in s1 is in s2.
Ortiq(s2, s1) ==
    \A t \in DOMAIN s1 \cap JadvalNomlari :
        t \in DOMAIN s2 /\ DOMAIN s1[t].ustun \cap ModelUstuni(t) \subseteq DOMAIN s2[t].ustun

LEMMA BajarUstunL ==
  ASSUME NEW s, NEW a, a.amal \in {"add_column", "alter_column"}, Shakl(s),
         NEW z, z = Bajar(s, a)
  PROVE  /\ DOMAIN z = DOMAIN s
         /\ \A t \in DOMAIN s : "ustun" \in DOMAIN z[t]
         /\ \A t \in DOMAIN s : t # a.jadval => z[t].ustun = s[t].ustun
         /\ a.jadval \in DOMAIN s => DOMAIN z[a.jadval].ustun = DOMAIN s[a.jadval].ustun \cup {a.nom}
<1>1. z = [s EXCEPT ![a.jadval].ustun =
                [u \in DOMAIN @ \cup {a.nom} |-> IF u = a.nom THEN a.tur ELSE @[u]]]
  BY DEF Bajar
<1>2. \A t \in DOMAIN s : "ustun" \in DOMAIN s[t]  BY DEF Shakl
<1>3. DOMAIN z = DOMAIN s /\ \A t \in DOMAIN s : t # a.jadval => z[t] = s[t]  BY <1>1
<1>4. ASSUME a.jadval \in DOMAIN s
      PROVE  z[a.jadval] = [s[a.jadval] EXCEPT !.ustun =
                [u \in DOMAIN s[a.jadval].ustun \cup {a.nom} |->
                     IF u = a.nom THEN a.tur ELSE s[a.jadval].ustun[u]]]
  BY <1>1, <1>4
<1>5. ASSUME a.jadval \in DOMAIN s
      PROVE  /\ "ustun" \in DOMAIN z[a.jadval]
             /\ DOMAIN z[a.jadval].ustun = DOMAIN s[a.jadval].ustun \cup {a.nom}
  BY <1>2, <1>4, <1>5
<1>. QED  BY <1>2, <1>3, <1>5

LEMMA BajarTashlaL ==
  ASSUME NEW s, NEW a, a.amal = "drop_column", Shakl(s), NEW z, z = Bajar(s, a)
  PROVE  /\ DOMAIN z = DOMAIN s
         /\ \A t \in DOMAIN s : "ustun" \in DOMAIN z[t]
         /\ \A t \in DOMAIN s : t # a.jadval => z[t].ustun = s[t].ustun
         /\ a.jadval \in DOMAIN s => DOMAIN z[a.jadval].ustun = DOMAIN s[a.jadval].ustun \ {a.nom}
<1>1. z = [s EXCEPT ![a.jadval].ustun = [u \in DOMAIN @ \ {a.nom} |-> @[u]]]
  BY DEF Bajar
<1>2. \A t \in DOMAIN s : "ustun" \in DOMAIN s[t]  BY DEF Shakl
<1>3. DOMAIN z = DOMAIN s /\ \A t \in DOMAIN s : t # a.jadval => z[t] = s[t]  BY <1>1
<1>4. ASSUME a.jadval \in DOMAIN s
      PROVE  z[a.jadval] = [s[a.jadval] EXCEPT !.ustun =
                [u \in DOMAIN s[a.jadval].ustun \ {a.nom} |-> s[a.jadval].ustun[u]]]
  BY <1>1, <1>4
<1>5. ASSUME a.jadval \in DOMAIN s
      PROVE  /\ "ustun" \in DOMAIN z[a.jadval]
             /\ DOMAIN z[a.jadval].ustun = DOMAIN s[a.jadval].ustun \ {a.nom}
  BY <1>2, <1>4, <1>5
<1>. QED  BY <1>2, <1>3, <1>5

LEMMA BajarIndeksL ==
  ASSUME NEW s, NEW a, a.amal \in {"create_index", "drop_index"}, Shakl(s), NEW z, z = Bajar(s, a)
  PROVE  /\ DOMAIN z = DOMAIN s
         /\ \A t \in DOMAIN s : "ustun" \in DOMAIN z[t]
         /\ \A t \in DOMAIN s : z[t].ustun = s[t].ustun
<1>1. \/ z = [s EXCEPT ![a.jadval].yagona = @ \cup {a.nom}]
      \/ z = [s EXCEPT ![a.jadval].indeks = @ \cup {a.nom}]
      \/ z = [s EXCEPT ![a.jadval].indeks = @ \ {a.nom}, ![a.jadval].yagona = @ \ {a.nom}]
  BY DEF Bajar
<1>2. \A t \in DOMAIN s : "ustun" \in DOMAIN s[t]  BY DEF Shakl
<1>3. CASE z = [s EXCEPT ![a.jadval].yagona = @ \cup {a.nom}]
  BY <1>2, <1>3
<1>4. CASE z = [s EXCEPT ![a.jadval].indeks = @ \cup {a.nom}]
  BY <1>2, <1>4
<1>5. CASE z = [s EXCEPT ![a.jadval].indeks = @ \ {a.nom}, ![a.jadval].yagona = @ \ {a.nom}]
  BY <1>2, <1>5
<1>. QED  BY <1>1, <1>3, <1>4, <1>5

\* One step of any revision, up or down.
LEMMA BajarL ==
  ASSUME NEW s, NEW a, Butun(a), Shakl(s), NEW z, z = Bajar(s, a)
  PROVE  /\ Shakl(z)
         /\ \A t \in DOMAIN z : t \in DOMAIN s \/ JadvalQiladi(a, t)
         /\ \A t \in DOMAIN z : \A u \in DOMAIN z[t].ustun : UstuniBor(s, t, u) \/ UstunQiladi(a, t, u)
         /\ Otadi(s, a) => \A t : JadvalQiladi(a, t) => t \in DOMAIN z
         /\ Otadi(s, a) => \A t, u : UstunQiladi(a, t, u) => UstuniBor(z, t, u)
         /\ Otadi(s, a) /\ Saqlar(a) => Ortiq(z, s)
<1>1. a.amal \in AMALLAR  BY DEF Butun
<1>2. /\ \A t \in DOMAIN s : "ustun" \in DOMAIN s[t]
      /\ \A t \in DOMAIN s \cap JadvalNomlari : TalabUstunlar(t) \subseteq DOMAIN s[t].ustun
  BY DEF Shakl
<1>3. CASE a.amal = "create_table"
  <2>1. z = [t \in DOMAIN s \cup {a.jadval} |-> IF t = a.jadval THEN a.tarif ELSE s[t]]
    BY <1>3 DEF Bajar
  <2>2. /\ DOMAIN z = DOMAIN s \cup {a.jadval} /\ z[a.jadval] = a.tarif
        /\ \A t \in DOMAIN s : t # a.jadval => z[t] = s[t]
    BY <2>1
  <2>3. /\ "ustun" \in DOMAIN a.tarif
        /\ a.jadval \in JadvalNomlari => TalabUstunlar(a.jadval) \subseteq DOMAIN a.tarif.ustun
    BY <1>3 DEF Butun, Yaratar
  <2>4. Shakl(z)  BY <1>2, <2>2, <2>3 DEF Shakl
  <2>5. \A t \in DOMAIN z : t \in DOMAIN s \/ JadvalQiladi(a, t)
    BY <1>3, <2>2 DEF JadvalQiladi
  <2>6. \A t \in DOMAIN z : \A u \in DOMAIN z[t].ustun : UstuniBor(s, t, u) \/ UstunQiladi(a, t, u)
    BY <1>3, <2>2 DEF UstuniBor, UstunQiladi
  <2>7. \A t : JadvalQiladi(a, t) => t \in DOMAIN z  BY <2>2 DEF JadvalQiladi
  <2>8. \A t, u : UstunQiladi(a, t, u) => UstuniBor(z, t, u)
    BY <1>3, <2>2 DEF UstunQiladi, UstuniBor
  <2>9. Otadi(s, a) => Ortiq(z, s)
    <3>1. Otadi(s, a) => a.jadval \notin DOMAIN s  BY <1>3 DEF Otadi
    <3>. QED  BY <2>2, <3>1 DEF Ortiq
  <2>. QED  BY <2>4, <2>5, <2>6, <2>7, <2>8, <2>9
<1>4. CASE a.amal = "drop_table"
  <2>1. z = [t \in DOMAIN s \ {a.jadval} |-> s[t]]  BY <1>4 DEF Bajar
  <2>2. DOMAIN z = DOMAIN s \ {a.jadval} /\ \A t \in DOMAIN z : z[t] = s[t]  BY <2>1
  <2>3. Shakl(z)  BY <1>2, <2>2 DEF Shakl
  <2>4. \A t, u : ~JadvalQiladi(a, t) /\ ~UstunQiladi(a, t, u)
    BY <1>4 DEF JadvalQiladi, UstunQiladi
  <2>5. Saqlar(a) => Ortiq(z, s)  BY <1>4, <2>2 DEF Saqlar, Ortiq
  <2>. QED  BY <2>2, <2>3, <2>4, <2>5 DEF UstuniBor
<1>5. CASE a.amal \in {"add_column", "alter_column"}
  <2>1. /\ DOMAIN z = DOMAIN s
        /\ \A t \in DOMAIN s : "ustun" \in DOMAIN z[t]
        /\ \A t \in DOMAIN s : t # a.jadval => z[t].ustun = s[t].ustun
        /\ a.jadval \in DOMAIN s => DOMAIN z[a.jadval].ustun = DOMAIN s[a.jadval].ustun \cup {a.nom}
    BY <1>5, BajarUstunL
  <2>2. \A t \in DOMAIN s : DOMAIN s[t].ustun \subseteq DOMAIN z[t].ustun  BY <2>1
  <2>3. Shakl(z)  BY <1>2, <2>1, <2>2 DEF Shakl
  <2>4. \A t : ~JadvalQiladi(a, t)  BY <1>5 DEF JadvalQiladi
  <2>5. \A t \in DOMAIN z : \A u \in DOMAIN z[t].ustun : UstuniBor(s, t, u) \/ UstunQiladi(a, t, u)
    BY <1>5, <2>1 DEF UstuniBor, UstunQiladi
  <2>6. Otadi(s, a) => a.jadval \in DOMAIN s  BY <1>5 DEF Otadi
  <2>7. Otadi(s, a) => \A t, u : UstunQiladi(a, t, u) => UstuniBor(z, t, u)
    BY <1>5, <2>1, <2>6 DEF UstunQiladi, UstuniBor
  <2>8. Ortiq(z, s)  BY <2>1, <2>2 DEF Ortiq
  <2>. QED  BY <2>1, <2>3, <2>4, <2>5, <2>7, <2>8
<1>6. CASE a.amal = "drop_column"
  <2>1. /\ DOMAIN z = DOMAIN s
        /\ \A t \in DOMAIN s : "ustun" \in DOMAIN z[t]
        /\ \A t \in DOMAIN s : t # a.jadval => z[t].ustun = s[t].ustun
        /\ a.jadval \in DOMAIN s => DOMAIN z[a.jadval].ustun = DOMAIN s[a.jadval].ustun \ {a.nom}
    BY <1>6, BajarTashlaL
  <2>2. a.jadval \in JadvalNomlari => a.nom \notin TalabUstunlar(a.jadval)  BY <1>6 DEF Butun
  <2>3. Shakl(z)  BY <1>2, <2>1, <2>2 DEF Shakl
  <2>4. \A t, u : ~JadvalQiladi(a, t) /\ ~UstunQiladi(a, t, u)
    BY <1>6 DEF JadvalQiladi, UstunQiladi
  <2>5. \A t \in DOMAIN z : \A u \in DOMAIN z[t].ustun : UstuniBor(s, t, u)
    BY <2>1 DEF UstuniBor
  <2>6. Saqlar(a) => Ortiq(z, s)  BY <1>6, <2>1 DEF Saqlar, Ortiq, ModelUstuni
  <2>. QED  BY <2>1, <2>3, <2>4, <2>5, <2>6
<1>7. CASE a.amal \in {"create_index", "drop_index"}
  <2>1. /\ DOMAIN z = DOMAIN s
        /\ \A t \in DOMAIN s : "ustun" \in DOMAIN z[t]
        /\ \A t \in DOMAIN s : z[t].ustun = s[t].ustun
    BY <1>7, BajarIndeksL
  <2>2. Shakl(z)  BY <1>2, <2>1 DEF Shakl
  <2>3. \A t, u : ~JadvalQiladi(a, t) /\ ~UstunQiladi(a, t, u)
    BY <1>7 DEF JadvalQiladi, UstunQiladi
  <2>4. \A t \in DOMAIN z : \A u \in DOMAIN z[t].ustun : UstuniBor(s, t, u)
    BY <2>1 DEF UstuniBor
  <2>5. Ortiq(z, s)  BY <2>1 DEF Ortiq
  <2>. QED  BY <2>1, <2>2, <2>3, <2>4, <2>5
<1>. QED  BY <1>1, <1>3, <1>4, <1>5, <1>6, <1>7 DEF AMALLAR

-----------------------------------------------------------------------------
(* What the revisions do to a schema, one after another. *)

\* The schemas on the way are a function.
AmalYoli(f, s, L, M) == f = [i \in 0..M |-> IF i = 0 THEN s ELSE Bajar(f[i - 1], L[i])]

LEMMA AmalYoliL ==
  ASSUME NEW s, NEW L, NEW M \in Nat
  PROVE  \E f : AmalYoli(f, s, L, M)
<1>. DEFINE T == {m \in Nat : ~\E f : AmalYoli(f, s, L, m)}
<1>1. ASSUME T # {} PROVE FALSE
  <2>1. PICK m \in T : \A y \in T : m <= y
    <3>1. T \subseteq Nat  OBVIOUS
    <3>. HIDE DEF T
    <3>. QED  BY <1>1, <3>1, EngKichikL
  <2>2. m \in Nat /\ ~\E f : AmalYoli(f, s, L, m)  OBVIOUS
  <2>3. CASE m = 0
    <3>. DEFINE f == [i \in 0..0 |-> s]
    <3>1. f = [i \in 0..0 |-> IF i = 0 THEN s ELSE Bajar(f[i - 1], L[i])]  OBVIOUS
    <3>. HIDE DEF f
    <3>2. AmalYoli(f, s, L, 0)  BY <3>1 DEF AmalYoli
    <3>. QED  BY <2>2, <2>3, <3>2
  <2>4. CASE m # 0
    <3>1. m - 1 \in Nat /\ m - 1 < m  BY <2>2, <2>4
    <3>2. m - 1 \notin T  BY <2>1, <3>1
    <3>3. PICK f : AmalYoli(f, s, L, m - 1)  BY <3>1, <3>2
    <3>. DEFINE g == [i \in 0..m |-> IF i < m THEN f[i] ELSE Bajar(f[m - 1], L[m])]
    <3>4. \A i \in 0..(m - 1) : f[i] = IF i = 0 THEN s ELSE Bajar(f[i - 1], L[i])
      BY <3>3 DEF AmalYoli
    <3>5. ASSUME NEW i \in 0..m
          PROVE  g[i] = IF i = 0 THEN s ELSE Bajar(g[i - 1], L[i])
      <4>1. CASE i = 0
        <5>1. 0 \in 0..(m - 1) /\ 0 < m  BY <3>1
        <5>2. g[0] = f[0]  BY <5>1
        <5>. QED  BY <3>4, <4>1, <5>1, <5>2
      <4>2. CASE i \in 1..(m - 1)
        <5>1. i \in 0..(m - 1) /\ i < m /\ i - 1 \in 0..m /\ i - 1 < m /\ i # 0
          BY <2>2, <3>1, <4>2
        <5>2. g[i] = f[i] /\ g[i - 1] = f[i - 1]  BY <5>1
        <5>. QED  BY <3>4, <5>1, <5>2
      <4>3. CASE i = m
        <5>1. ~(i < m) /\ m - 1 \in 0..m /\ m - 1 < m /\ i # 0  BY <2>2, <2>4, <3>1, <4>3
        <5>2. g[i] = Bajar(f[m - 1], L[m]) /\ g[m - 1] = f[m - 1]  BY <4>3, <5>1
        <5>. QED  BY <4>3, <5>1, <5>2
      <4>. QED  BY <2>2, <4>1, <4>2, <4>3
    <3>6. g = [i \in 0..m |-> g[i]]  OBVIOUS
    <3>. HIDE DEF g
    <3>7. AmalYoli(g, s, L, m)  BY <3>5, <3>6 DEF AmalYoli
    <3>. QED  BY <2>2, <3>7
  <2>. QED  BY <2>3, <2>4
<1>. QED  BY <1>1

\* Where the tables and the columns of z come from, when the operations L led to it from s.
Manbali(z, s, L, n) ==
    /\ \A t \in DOMAIN z : t \in DOMAIN s \/ \E i \in 1..n : JadvalQiladi(L[i], t)
    /\ \A t \in DOMAIN z : \A u \in DOMAIN z[t].ustun :
          UstuniBor(s, t, u) \/ \E i \in 1..n : UstunQiladi(L[i], t, u)

LEMMA AmallardanL ==
  ASSUME NEW s, NEW L, Yigma(L), \A i \in DOMAIN L : Butun(L[i]), Shakl(s)
  PROVE  Shakl(Amallardan(s, L)) /\ Manbali(Amallardan(s, L), s, L, Len(L))
<1>1. Len(L) \in Nat /\ DOMAIN L = 1..Len(L)  BY LenProperties DEF Yigma
<1>. DEFINE f == CHOOSE g : AmalYoli(g, s, L, Len(L))
<1>2. Amallardan(s, L) = f[Len(L)]
  BY DEF Amallardan, AmalYoli
<1>3. AmalYoli(f, s, L, Len(L))
  <2>1. \E g : AmalYoli(g, s, L, Len(L))  BY <1>1, AmalYoliL
  <2>. QED  BY <2>1
<1>. HIDE DEF f
<1>4. f[0] = s /\ \A i \in 1..Len(L) : f[i] = Bajar(f[i - 1], L[i])
  <2>1. \A i \in 0..Len(L) : f[i] = IF i = 0 THEN s ELSE Bajar(f[i - 1], L[i])
    BY <1>3 DEF AmalYoli
  <2>2. 0 \in 0..Len(L) /\ \A i \in 1..Len(L) : i \in 0..Len(L) /\ i # 0  BY <1>1
  <2>. QED  BY <2>1, <2>2
<1>. DEFINE Yaxshi(i) == Shakl(f[i]) /\ Manbali(f[i], s, L, i)
            T == {i \in 0..Len(L) : ~Yaxshi(i)}
<1>5. Yaxshi(0)  BY <1>4 DEF Manbali, UstuniBor
<1>6. ASSUME NEW i \in 1..Len(L), Yaxshi(i - 1) PROVE Yaxshi(i)
  <2>1. i - 1 \in Nat /\ i \in Nat /\ i \in DOMAIN L /\ \A j \in 1..(i - 1) : j \in 1..i
    BY <1>1
  <2>2. i \in 1..i  BY <2>1
  <2>3. Butun(L[i]) /\ Shakl(f[i - 1]) /\ f[i] = Bajar(f[i - 1], L[i])  BY <1>4, <1>6, <2>1
  <2>4. /\ Shakl(f[i])
        /\ \A t \in DOMAIN f[i] : t \in DOMAIN f[i - 1] \/ JadvalQiladi(L[i], t)
        /\ \A t \in DOMAIN f[i] : \A u \in DOMAIN f[i][t].ustun :
              UstuniBor(f[i - 1], t, u) \/ UstunQiladi(L[i], t, u)
    BY <2>3, BajarL
  <2>5. Manbali(f[i - 1], s, L, i - 1)  BY <1>6
  <2>6. \A t \in DOMAIN f[i] : t \in DOMAIN s \/ \E j \in 1..i : JadvalQiladi(L[j], t)
    BY <2>1, <2>2, <2>4, <2>5 DEF Manbali
  <2>7. ASSUME NEW t \in DOMAIN f[i], NEW u \in DOMAIN f[i][t].ustun
        PROVE  UstuniBor(s, t, u) \/ \E j \in 1..i : UstunQiladi(L[j], t, u)
    <3>1. CASE UstunQiladi(L[i], t, u)  BY <2>2, <3>1
    <3>2. CASE UstuniBor(f[i - 1], t, u)
      <4>1. t \in DOMAIN f[i - 1] /\ u \in DOMAIN f[i - 1][t].ustun  BY <3>2 DEF UstuniBor
      <4>2. UstuniBor(s, t, u) \/ \E j \in 1..(i - 1) : UstunQiladi(L[j], t, u)
        BY <2>5, <4>1 DEF Manbali
      <4>. QED  BY <2>1, <4>2
    <3>. QED  BY <2>4, <3>1, <3>2
  <2>. QED  BY <2>4, <2>6, <2>7 DEF Manbali
<1>7. T = {}
  <2>. SUFFICES ASSUME T # {} PROVE FALSE  OBVIOUS
  <2>1. PICK m \in T : \A y \in T : m <= y
    <3>1. T \subseteq Nat  BY <1>1
    <3>. HIDE DEF T
    <3>. QED  BY <3>1, EngKichikL
  <2>2. m \in 0..Len(L) /\ ~Yaxshi(m)  OBVIOUS
  <2>3. m # 0  BY <1>5, <2>2
  <2>4. m \in 1..Len(L) /\ m - 1 \in 0..Len(L) /\ ~(m <= m - 1)  BY <1>1, <2>2, <2>3
  <2>5. m - 1 \notin T  BY <2>1, <2>4
  <2>. HIDE DEF Yaxshi
  <2>6. Yaxshi(m - 1)  BY <2>4, <2>5
  <2>. QED  BY <1>6, <2>2, <2>4, <2>6
<1>8. Yaxshi(Len(L))
  <2>. HIDE DEF Yaxshi
  <2>. QED  BY <1>1, <1>7
<1>. QED  BY <1>2, <1>8

\* The schema after revision k, from the one before it.
Keyin(x, k) == CHOOSE s \in {Amallardan(oldin, Tartib[k].yuqori) : oldin \in {x}} : TRUE

LEMMA KeyinL ==
  ASSUME NEW x, NEW k
  PROVE  Keyin(x, k) = Amallardan(x, Tartib[k].yuqori)
<1>. DEFINE S == {Amallardan(oldin, Tartib[k].yuqori) : oldin \in {x}}
<1>1. \A s : s \in S <=> s = Amallardan(x, Tartib[k].yuqori)  OBVIOUS
<1>2. Keyin(x, k) = CHOOSE s \in S : TRUE  BY DEF Keyin
<1>. HIDE DEF S
<1>3. \E s \in S : TRUE  BY <1>1
<1>4. Keyin(x, k) \in S  BY <1>2, <1>3
<1>. QED  BY <1>1, <1>4

\* The schemas of the revisions are a function.
GachaYoli(f, M) == f = [k \in 0..M |-> IF k = 0 THEN <<>> ELSE Keyin(f[k - 1], k)]

LEMMA GachaYoliL ==
  ASSUME NEW M \in Nat
  PROVE  \E f : GachaYoli(f, M)
<1>. DEFINE T == {m \in Nat : ~\E f : GachaYoli(f, m)}
<1>1. ASSUME T # {} PROVE FALSE
  <2>1. PICK m \in T : \A y \in T : m <= y
    <3>1. T \subseteq Nat  OBVIOUS
    <3>. HIDE DEF T
    <3>. QED  BY <1>1, <3>1, EngKichikL
  <2>2. m \in Nat /\ ~\E f : GachaYoli(f, m)  OBVIOUS
  <2>3. CASE m = 0
    <3>. DEFINE f == [k \in 0..0 |-> <<>>]
    <3>1. f = [k \in 0..0 |-> IF k = 0 THEN <<>> ELSE Keyin(f[k - 1], k)]  OBVIOUS
    <3>. HIDE DEF f
    <3>2. GachaYoli(f, 0)  BY <3>1 DEF GachaYoli
    <3>. QED  BY <2>2, <2>3, <3>2
  <2>4. CASE m # 0
    <3>1. m - 1 \in Nat /\ m - 1 < m  BY <2>2, <2>4
    <3>2. m - 1 \notin T  BY <2>1, <3>1
    <3>3. PICK f : GachaYoli(f, m - 1)  BY <3>1, <3>2
    <3>. DEFINE g == [k \in 0..m |-> IF k < m THEN f[k] ELSE Keyin(f[m - 1], m)]
    <3>4. \A k \in 0..(m - 1) : f[k] = IF k = 0 THEN <<>> ELSE Keyin(f[k - 1], k)
      BY <3>3 DEF GachaYoli
    <3>5. ASSUME NEW k \in 0..m
          PROVE  g[k] = IF k = 0 THEN <<>> ELSE Keyin(g[k - 1], k)
      <4>1. CASE k = 0
        <5>1. 0 \in 0..(m - 1) /\ 0 < m  BY <3>1
        <5>2. g[0] = f[0]  BY <5>1
        <5>. QED  BY <3>4, <4>1, <5>1, <5>2
      <4>2. CASE k \in 1..(m - 1)
        <5>1. k \in 0..(m - 1) /\ k < m /\ k - 1 \in 0..m /\ k - 1 < m /\ k # 0
          BY <2>2, <3>1, <4>2
        <5>2. g[k] = f[k] /\ g[k - 1] = f[k - 1]  BY <5>1
        <5>. QED  BY <3>4, <5>1, <5>2
      <4>3. CASE k = m
        <5>1. ~(k < m) /\ m - 1 \in 0..m /\ m - 1 < m /\ k # 0  BY <2>2, <2>4, <3>1, <4>3
        <5>2. g[k] = Keyin(f[m - 1], m) /\ g[m - 1] = f[m - 1]  BY <4>3, <5>1
        <5>. QED  BY <4>3, <5>1, <5>2
      <4>. QED  BY <2>2, <4>1, <4>2, <4>3
    <3>6. g = [k \in 0..m |-> g[k]]  OBVIOUS
    <3>. HIDE DEF g
    <3>7. GachaYoli(g, m)  BY <3>5, <3>6 DEF GachaYoli
    <3>. QED  BY <2>2, <3>7
  <2>. QED  BY <2>3, <2>4
<1>. QED  BY <1>1

\* The schema of each version has the form, and what it has more than the version before it
\* was made by an operation of its revision.
LEMMA SxemalarL ==
  /\ \A k \in 0..OXIRGI : Shakl(Sxemalar[k])
  /\ \A k \in 1..OXIRGI :
        Manbali(Sxemalar[k], Sxemalar[k - 1], Tartib[k].yuqori, Len(Tartib[k].yuqori))
<1>1. OXIRGI \in Nat /\ \A k \in 1..OXIRGI : Yurish(Tartib[k])  BY TartibL
<1>2. GachaYoli(SxemaGacha, OXIRGI)
  <2>1. \E f : GachaYoli(f, OXIRGI)  BY <1>1, GachaYoliL
  <2>2. SxemaGacha = CHOOSE f : GachaYoli(f, OXIRGI)  BY DEF SxemaGacha, GachaYoli, Keyin
  <2>. QED  BY <2>1, <2>2
<1>3. \A k \in 0..OXIRGI : SxemaGacha[k] = IF k = 0 THEN <<>> ELSE Keyin(SxemaGacha[k - 1], k)
  BY <1>2 DEF GachaYoli
<1>4. \A k \in 0..OXIRGI : Sxemalar[k] = SxemaGacha[k]  BY DEF Sxemalar
<1>5. \A k \in 1..OXIRGI : k \in 0..OXIRGI /\ k - 1 \in 0..OXIRGI /\ k # 0  BY <1>1
<1>6. Sxemalar[0] = <<>>
  <2>1. 0 \in 0..OXIRGI  BY <1>1
  <2>. QED  BY <1>3, <1>4, <2>1
<1>7. \A k \in 1..OXIRGI : Sxemalar[k] = Amallardan(Sxemalar[k - 1], Tartib[k].yuqori)
  BY <1>3, <1>4, <1>5, KeyinL
<1>8. ASSUME NEW k \in 1..OXIRGI, Shakl(Sxemalar[k - 1])
      PROVE  /\ Shakl(Sxemalar[k])
             /\ Manbali(Sxemalar[k], Sxemalar[k - 1], Tartib[k].yuqori, Len(Tartib[k].yuqori))
  <2>1. Yigma(Tartib[k].yuqori) /\ \A i \in DOMAIN Tartib[k].yuqori : Butun(Tartib[k].yuqori[i])
    BY <1>1 DEF Yurish
  <2>2. PICK L : L = Tartib[k].yuqori  OBVIOUS
  <2>3. PICK s : s = Sxemalar[k - 1]  OBVIOUS
  <2>4. Shakl(Amallardan(s, L)) /\ Manbali(Amallardan(s, L), s, L, Len(L))
    BY <1>8, <2>1, <2>2, <2>3, AmallardanL
  <2>. QED  BY <1>7, <2>2, <2>3, <2>4
<1>9. Shakl(Sxemalar[0])
  <2>1. \A s : s = <<>> => DOMAIN s = {}  OBVIOUS
  <2>. QED  BY <1>6, <2>1 DEF Shakl
<1>. DEFINE T == {k \in 0..OXIRGI : ~Shakl(Sxemalar[k])}
<1>10. T = {}
  <2>. SUFFICES ASSUME T # {} PROVE FALSE  OBVIOUS
  <2>1. PICK m \in T : \A y \in T : m <= y
    <3>1. T \subseteq Nat  BY <1>1
    <3>. HIDE DEF T
    <3>. QED  BY <3>1, EngKichikL
  <2>2. m \in 0..OXIRGI /\ ~Shakl(Sxemalar[m])  OBVIOUS
  <2>3. m # 0  BY <1>9, <2>2
  <2>4. m \in 1..OXIRGI /\ m - 1 \in 0..OXIRGI /\ ~(m <= m - 1)  BY <1>1, <2>2, <2>3
  <2>5. Shakl(Sxemalar[m - 1])  BY <2>1, <2>4
  <2>. QED  BY <1>8, <2>2, <2>4, <2>5
<1>11. \A k \in 0..OXIRGI : Shakl(Sxemalar[k])  BY <1>10
<1>. QED  BY <1>5, <1>8, <1>11

-----------------------------------------------------------------------------
(* The invariant of the database file. *)

LEMMA ModellarL ==
  /\ DOMAIN Modellar = JadvalNomlari
  /\ \A t \in JadvalNomlari : "ustun" \in DOMAIN Modellar[t]
<1>1. DOMAIN Modellar = JadvalNomlari  BY DEF Modellar
<1>2. \A t \in JadvalNomlari : Modellar[t] \in {User, Subscription, Payment,
        PriceConfig, Content, ContentProgress, UserWidget, Violation, CoinRuling,
        HalalUniverseSnapshot, SignalRecord, SignalEvent, RiskConfigEntry, UserPosition,
        SocialLink, BozorKesimi, BozorKorinishi, CapitalBlock, PositionExit,
        HomepagePost, ZanjirHolati, KuzatuvHolati, KuzatuvSkani, KuzatuvBozor,
        KunlikQidiruv, RadarSessiya, RadarNatija, RadarHajm, RadarSozlama,
        RadarYashirin, RadarHolati}
  BY SMTT(30) DEF Modellar, JadvalNomlari
<1>3. \A x \in {User, Subscription, Payment, PriceConfig, Content, ContentProgress,
        UserWidget, Violation} : "ustun" \in DOMAIN x
  BY JadvalL DEF User, Subscription, Payment, PriceConfig, Content, ContentProgress,
        UserWidget, Violation
<1>4. \A x \in {CoinRuling, HalalUniverseSnapshot, SignalRecord, SignalEvent,
        RiskConfigEntry, UserPosition, SocialLink, BozorKesimi} : "ustun" \in DOMAIN x
  BY JadvalL DEF CoinRuling, HalalUniverseSnapshot, SignalRecord, SignalEvent,
        RiskConfigEntry, UserPosition, SocialLink, BozorKesimi
<1>5. \A x \in {BozorKorinishi, CapitalBlock, PositionExit, HomepagePost, ZanjirHolati,
        KuzatuvHolati, KuzatuvSkani, KuzatuvBozor} : "ustun" \in DOMAIN x
  BY JadvalL DEF BozorKorinishi, CapitalBlock, PositionExit, HomepagePost, ZanjirHolati,
        KuzatuvHolati, KuzatuvSkani, KuzatuvBozor
<1>6. \A x \in {KunlikQidiruv, RadarSessiya, RadarNatija, RadarHajm, RadarSozlama,
        RadarYashirin, RadarHolati} : "ustun" \in DOMAIN x
  BY JadvalL DEF KunlikQidiruv, RadarSessiya, RadarNatija, RadarHajm, RadarSozlama,
        RadarYashirin, RadarHolati
<1>. QED  BY <1>1, <1>2, <1>3, <1>4, <1>5, <1>6

\* Nothing of the models is lost from s1 to s2 to s3.
LEMMA OrtiqL ==
  ASSUME NEW s1, NEW s2, NEW s3, Ortiq(s2, s1), Ortiq(s3, s2)
  PROVE  Ortiq(s3, s1)
<1>. SUFFICES ASSUME NEW t \in DOMAIN s1 \cap JadvalNomlari
              PROVE  /\ t \in DOMAIN s3
                     /\ DOMAIN s1[t].ustun \cap ModelUstuni(t) \subseteq DOMAIN s3[t].ustun
  BY DEF Ortiq
<1>1. t \in DOMAIN s2 /\ DOMAIN s1[t].ustun \cap ModelUstuni(t) \subseteq DOMAIN s2[t].ustun
  BY DEF Ortiq
<1>2. t \in DOMAIN s3 /\ DOMAIN s2[t].ustun \cap ModelUstuni(t) \subseteq DOMAIN s3[t].ustun
  BY <1>1 DEF Ortiq
<1>. QED  BY <1>1, <1>2

\* Every table of the models with every column of theirs.
Toliq(s) == \A t \in JadvalNomlari : t \in DOMAIN s /\ ModelUstuni(t) \subseteq DOMAIN s[t].ustun

\* What version k has of the models is in s, or made by one of L.
Yetadi(s, L, k) ==
    \A t \in DOMAIN Sxemalar[k] \cap JadvalNomlari :
        /\ t \in DOMAIN s \/ \E i \in DOMAIN L : JadvalQiladi(L[i], t)
        /\ \A u \in DOMAIN Sxemalar[k][t].ustun \cap ModelUstuni(t) :
              UstuniBor(s, t, u) \/ \E i \in DOMAIN L : UstunQiladi(L[i], t, u)

LEMMA YetadiL ==
  ASSUME NEW s, NEW k
  PROVE  Yetadi(s, <<>>, k) <=> Ortiq(s, Sxemalar[k])
<1>1. \A L : L = <<>> => DOMAIN L = {}  OBVIOUS
<1>2. PICK L : L = <<>>  OBVIOUS
<1>3. DOMAIN L = {}  BY <1>1, <1>2
<1>4. Yetadi(s, L, k) <=> Ortiq(s, Sxemalar[k])  BY <1>3 DEF Yetadi, Ortiq, UstuniBor
<1>. QED  BY <1>2, <1>4

LEMMA DumRoyxatiL ==
  ASSUME NEW L, Yigma(L), L # <<>>
  PROVE  /\ Yigma(Tail(L))
         /\ \E i \in DOMAIN L : L[i] = Head(L)
         /\ \A i \in DOMAIN Tail(L) : \E j \in DOMAIN L : L[j] = Tail(L)[i]
         /\ \A j \in DOMAIN L : L[j] = Head(L) \/ \E i \in DOMAIN Tail(L) : Tail(L)[i] = L[j]
<1>. DEFINE S == {L[i] : i \in DOMAIN L}
            D == Tail(L)
<1>1. L \in Seq(S)  BY DEF Yigma
<1>. HIDE DEF S
<1>2. /\ D \in Seq(S) /\ Len(D) = Len(L) - 1
      /\ \A i \in 1..Len(D) : D[i] = L[i + 1]
  BY <1>1, HeadTailProperties
<1>3. Len(L) \in Nat /\ DOMAIN L = 1..Len(L) /\ DOMAIN D = 1..Len(D) /\ Len(D) \in Nat
      /\ D \in [1..Len(D) -> S]
  BY <1>1, <1>2, LenProperties
<1>4. Len(L) # 0  BY <1>1, EmptySeq
<1>5. Head(L) = L[1] /\ 1 \in DOMAIN L  BY <1>1, <1>3, <1>4
<1>. HIDE DEF D
<1>6. Yigma(D)  BY <1>3, KetmaKetL
<1>7. ASSUME NEW i \in DOMAIN D PROVE \E j \in DOMAIN L : L[j] = D[i]
  <2>1. i + 1 \in DOMAIN L  BY <1>2, <1>3
  <2>. QED  BY <1>2, <1>3, <2>1
<1>8. ASSUME NEW j \in DOMAIN L, j # 1 PROVE \E i \in DOMAIN D : D[i] = L[j]
  <2>1. j - 1 \in DOMAIN D /\ (j - 1) + 1 = j  BY <1>2, <1>3, <1>8
  <2>. QED  BY <1>2, <1>3, <2>1
<1>. QED  BY <1>5, <1>6, <1>7, <1>8 DEF D

\* The rest of a revision.
Ishda(L) == Yigma(L) /\ \A i \in DOMAIN L : Butun(L[i])
Asraydi(L) == \A i \in DOMAIN L : Saqlar(L[i])

LEMMA BoshIshL == Ishda(<<>>) /\ Asraydi(<<>>)
<1>1. <<>> = [i \in 1..0 |-> <<>>[i]]  OBVIOUS
<1>2. \A L : L = <<>> => DOMAIN L = {}  OBVIOUS
<1>3. PICK L : L = <<>>  OBVIOUS
<1>4. DOMAIN L = {} /\ Yigma(L)  BY <1>1, <1>2, <1>3, KetmaKetL
<1>5. Ishda(L) /\ Asraydi(L)  BY <1>4 DEF Ishda, Asraydi
<1>. QED  BY <1>3, <1>5

LEMMA IshUlashL ==
  ASSUME NEW A, NEW B, Ishda(A), Ishda(B), Asraydi(A), Asraydi(B)
  PROVE  Ishda(A \o B) /\ Asraydi(A \o B)
<1>0. PICK Z : Z = A \o B  OBVIOUS
<1>1. Yigma(A) /\ Yigma(B)  BY DEF Ishda
<1>2. Ulangan(Z, A, B)
  <2>1. Yigma(A) /\ Yigma(B) /\ Z = A \o B  BY <1>0, <1>1
  <2>. QED  BY ONLY <2>1, QoshmaL
<1>3. Yigma(Z) /\ \A i \in DOMAIN Z : Butun(Z[i]) /\ Saqlar(Z[i])
  BY <1>2 DEF Ulangan, Ishda, Asraydi
<1>. QED  BY <1>0, <1>3 DEF Ishda, Asraydi

\* What a revision does to the file at hand: all of it, but tables of the old module may be gone.
LEMMA YuqoriAmallarL ==
  ASSUME NEW k \in 1..OXIRGI
  PROVE  /\ Ishda(YuqoriAmallar(k)) /\ Asraydi(YuqoriAmallar(k))
         /\ \A i \in 1..Len(Tartib[k].yuqori) :
              /\ \A t : JadvalQiladi(Tartib[k].yuqori[i], t) =>
                    \E j \in DOMAIN YuqoriAmallar(k) : JadvalQiladi(YuqoriAmallar(k)[j], t)
              /\ \A t, u : UstunQiladi(Tartib[k].yuqori[i], t, u) =>
                    \E j \in DOMAIN YuqoriAmallar(k) : UstunQiladi(YuqoriAmallar(k)[j], t, u)
<1>1. Yurish(Tartib[k])  BY TartibL
<1>2. /\ Ishda(Tartib[k].yuqori) /\ Asraydi(Tartib[k].yuqori)
      /\ DOMAIN Tartib[k].yuqori = 1..Len(Tartib[k].yuqori)
  BY <1>1, LenProperties DEF Yurish, Ishda, Asraydi, Yigma
<1>3. CASE Tartib[k] # M_a1f4e07c9b62
  <2>1. YuqoriAmallar(k) = Tartib[k].yuqori  BY <1>3 DEF YuqoriAmallar
  <2>. QED  BY <1>2, <2>1
<1>4. CASE Tartib[k] = M_a1f4e07c9b62
  <2>1. ASSUME NEW n \in 1..5 PROVE Ishda(Borlari(n)) /\ Asraydi(Borlari(n))
    <3>1. CASE Borlari(n) = <<>>  BY <3>1, BoshIshL
    <3>2. CASE Borlari(n) = << Tashla(EskiModul[n]) >>
      <4>1. PICK L : L = << Tashla(EskiModul[n]) >>  OBVIOUS
      <4>2. L = [i \in 1..1 |-> L[i]] /\ DOMAIN L = 1..1 /\ L[1] = Tashla(EskiModul[n])
        BY <4>1
      <4>3. Yigma(L)  BY <4>2, KetmaKetL
      <4>4. Butun(L[1]) /\ Saqlar(L[1])
        BY <4>2, EskiModulL DEF Tashla, Butun, Yaratar, Saqlar, AMALLAR
      <4>. QED  BY <3>2, <4>1, <4>2, <4>3, <4>4 DEF Ishda, Asraydi
    <3>. QED  BY <3>1, <3>2 DEF Borlari
  <2>2. /\ Ishda(Borlari(1) \o Borlari(2)) /\ Asraydi(Borlari(1) \o Borlari(2))
    BY <2>1, IshUlashL
  <2>3. /\ Ishda(Borlari(1) \o Borlari(2) \o Borlari(3))
        /\ Asraydi(Borlari(1) \o Borlari(2) \o Borlari(3))
    BY <2>1, <2>2, IshUlashL
  <2>4. /\ Ishda(Borlari(1) \o Borlari(2) \o Borlari(3) \o Borlari(4))
        /\ Asraydi(Borlari(1) \o Borlari(2) \o Borlari(3) \o Borlari(4))
    BY <2>1, <2>3, IshUlashL
  <2>5. /\ Ishda(Borlari(1) \o Borlari(2) \o Borlari(3) \o Borlari(4) \o Borlari(5))
        /\ Asraydi(Borlari(1) \o Borlari(2) \o Borlari(3) \o Borlari(4) \o Borlari(5))
    BY <2>1, <2>4, IshUlashL
  <2>6. Ishda(YuqoriAmallar(k)) /\ Asraydi(YuqoriAmallar(k))  BY <1>4, <2>5 DEF YuqoriAmallar
  <2>7. \A i \in DOMAIN Tartib[k].yuqori : Tartib[k].yuqori[i].amal = "drop_table"
    <3>1. M_a1f4e07c9b62.yuqori = [n \in 1..5 |-> Tashla(EskiModul[n])]
      BY EskiModulL DEF M_a1f4e07c9b62
    <3>. QED  BY <1>4, <3>1 DEF Tashla
  <2>. QED  BY <1>2, <2>6, <2>7 DEF JadvalQiladi, UstunQiladi
<1>. QED  BY <1>3, <1>4

\* A revision is taken up where the version before it is honest.
LEMMA YangiReviziyaL ==
  ASSUME NEW k \in 1..OXIRGI, NEW s, Ortiq(s, Sxemalar[k - 1])
  PROVE  Yetadi(s, YuqoriAmallar(k), k)
<1>. DEFINE Y == Tartib[k].yuqori
<1>1. Manbali(Sxemalar[k], Sxemalar[k - 1], Y, Len(Y))  BY SxemalarL
<1>2. \A i \in 1..Len(Y) :
        /\ \A t : JadvalQiladi(Y[i], t) =>
              \E j \in DOMAIN YuqoriAmallar(k) : JadvalQiladi(YuqoriAmallar(k)[j], t)
        /\ \A t, u : UstunQiladi(Y[i], t, u) =>
              \E j \in DOMAIN YuqoriAmallar(k) : UstunQiladi(YuqoriAmallar(k)[j], t, u)
  BY YuqoriAmallarL
<1>. HIDE DEF Y
<1>3. ASSUME NEW t \in DOMAIN Sxemalar[k] \cap JadvalNomlari
      PROVE  t \in DOMAIN s \/ \E j \in DOMAIN YuqoriAmallar(k) : JadvalQiladi(YuqoriAmallar(k)[j], t)
  <2>1. t \in DOMAIN Sxemalar[k - 1] \/ \E i \in 1..Len(Y) : JadvalQiladi(Y[i], t)
    BY <1>1 DEF Manbali
  <2>. QED  BY <1>2, <2>1 DEF Ortiq
<1>4. ASSUME NEW t \in DOMAIN Sxemalar[k] \cap JadvalNomlari,
             NEW u \in DOMAIN Sxemalar[k][t].ustun \cap ModelUstuni(t)
      PROVE  UstuniBor(s, t, u) \/ \E j \in DOMAIN YuqoriAmallar(k) : UstunQiladi(YuqoriAmallar(k)[j], t, u)
  <2>1. UstuniBor(Sxemalar[k - 1], t, u) \/ \E i \in 1..Len(Y) : UstunQiladi(Y[i], t, u)
    BY <1>1 DEF Manbali
  <2>2. UstuniBor(Sxemalar[k - 1], t, u) => UstuniBor(s, t, u)  BY DEF UstuniBor, Ortiq
  <2>. QED  BY <1>2, <2>1, <2>2
<1>. QED  BY <1>3, <1>4 DEF Yetadi

\* One of its operations is done, the others are left.
LEMMA YetaveradiL ==
  ASSUME NEW s, NEW L, NEW k, NEW z, Shakl(s), Ishda(L), Asraydi(L), L # <<>>, Otadi(s, Head(L)),
         z = Bajar(s, Head(L)), Yetadi(s, L, k)
  PROVE  Ortiq(z, s) /\ Yetadi(z, Tail(L), k)
<1>1. PICK a : a = Head(L)  OBVIOUS
<1>2. /\ \E i \in DOMAIN L : L[i] = a
      /\ \A j \in DOMAIN L : L[j] = a \/ \E i \in DOMAIN Tail(L) : Tail(L)[i] = L[j]
  BY <1>1, DumRoyxatiL DEF Ishda
<1>3. Butun(a) /\ Saqlar(a)  BY <1>2 DEF Ishda, Asraydi
<1>4. /\ \A t : JadvalQiladi(a, t) => t \in DOMAIN z
      /\ \A t, u : UstunQiladi(a, t, u) => UstuniBor(z, t, u)
      /\ Ortiq(z, s)
  BY <1>1, <1>3, BajarL
<1>5. ASSUME NEW t \in DOMAIN Sxemalar[k] \cap JadvalNomlari
      PROVE  t \in DOMAIN z \/ \E i \in DOMAIN Tail(L) : JadvalQiladi(Tail(L)[i], t)
  <2>1. t \in DOMAIN s \/ \E i \in DOMAIN L : JadvalQiladi(L[i], t)  BY DEF Yetadi
  <2>2. t \in DOMAIN s => t \in DOMAIN z  BY <1>4 DEF Ortiq
  <2>. QED  BY <1>2, <1>4, <2>1, <2>2
<1>6. ASSUME NEW t \in DOMAIN Sxemalar[k] \cap JadvalNomlari,
             NEW u \in DOMAIN Sxemalar[k][t].ustun \cap ModelUstuni(t)
      PROVE  UstuniBor(z, t, u) \/ \E i \in DOMAIN Tail(L) : UstunQiladi(Tail(L)[i], t, u)
  <2>1. UstuniBor(s, t, u) \/ \E i \in DOMAIN L : UstunQiladi(L[i], t, u)  BY DEF Yetadi
  <2>2. UstuniBor(s, t, u) => UstuniBor(z, t, u)  BY <1>4 DEF UstuniBor, Ortiq
  <2>. QED  BY <1>2, <1>4, <2>1, <2>2
<1>. QED  BY <1>4, <1>5, <1>6 DEF Yetadi

(* init_models, step by step. *)
LEMMA EskiOlibTashlaL ==
  ASSUME NEW s, Shakl(s), NEW z, z = EskiOlibTashla(s)
  PROVE  Shakl(z) /\ Ortiq(z, s)
<1>1. z = [t \in DOMAIN s \ ToSet(EskiModul) |-> s[t]]  BY DEF EskiOlibTashla
<1>2. DOMAIN z = DOMAIN s \ ToSet(EskiModul) /\ \A t \in DOMAIN z : z[t] = s[t]  BY <1>1
<1>. QED  BY <1>2, EskiModulL DEF Shakl, Ortiq

LEMMA YaratHammasiL ==
  ASSUME NEW s, Shakl(s), NEW z, z = YaratHammasi(s)
  PROVE  Shakl(z) /\ Ortiq(z, s) /\ JadvalNomlari \subseteq DOMAIN z
<1>1. z = [t \in DOMAIN s \cup DOMAIN Modellar |-> IF t \in DOMAIN s THEN s[t] ELSE Modellar[t]]
  BY DEF YaratHammasi
<1>2. /\ DOMAIN z = DOMAIN s \cup JadvalNomlari
      /\ \A t \in DOMAIN s : z[t] = s[t]
      /\ \A t \in JadvalNomlari : t \notin DOMAIN s => z[t] = Modellar[t]
  BY <1>1, ModellarL
<1>3. \A t \in JadvalNomlari : TalabUstunlar(t) \subseteq DOMAIN Modellar[t].ustun
  BY DEF TalabUstunlar
<1>. QED  BY <1>2, <1>3, ModellarL DEF Shakl, Ortiq

LEMMA UstunQoshL ==
  ASSUME NEW s, Shakl(s), NEW z, z = UstunQosh(s)
  PROVE  Shakl(z) /\ Ortiq(z, s) /\ (JadvalNomlari \subseteq DOMAIN s => Toliq(z))
<1>1. DOMAIN z = DOMAIN s /\ \A t \in DOMAIN s : t \notin JadvalNomlari => z[t] = s[t]
  BY ModellarL DEF UstunQosh
<1>2. \A t \in DOMAIN s : "ustun" \in DOMAIN s[t]  BY DEF Shakl
<1>3. ASSUME NEW t \in DOMAIN s \cap JadvalNomlari
      PROVE  "ustun" \in DOMAIN z[t] /\ DOMAIN z[t].ustun = DOMAIN s[t].ustun \cup Qoshiladi(t)
  <2>1. z[t] = [s[t] EXCEPT !.ustun =
                [u \in DOMAIN s[t].ustun \cup Qoshiladi(t) |->
                    IF u \in DOMAIN s[t].ustun THEN s[t].ustun[u]
                    ELSE IF Modellar[t].ustun[u] = "D" THEN "ND" ELSE "N"]]
    BY ModellarL DEF UstunQosh
  <2>. QED  BY <1>2, <2>1
<1>4. \A t \in JadvalNomlari : ModelUstuni(t) = TalabUstunlar(t) \cup Qoshiladi(t)
  BY DEF ModelUstuni, TalabUstunlar, Qoshiladi
<1>5. \A t \in DOMAIN s \cap JadvalNomlari :
         TalabUstunlar(t) \subseteq DOMAIN z[t].ustun /\ ModelUstuni(t) \subseteq DOMAIN z[t].ustun
  BY <1>3, <1>4 DEF Shakl
<1>6. Shakl(z)  BY <1>1, <1>2, <1>3, <1>5 DEF Shakl
<1>7. Ortiq(z, s)  BY <1>1, <1>3 DEF Ortiq
<1>8. JadvalNomlari \subseteq DOMAIN s => Toliq(z)  BY <1>1, <1>5 DEF Toliq
<1>. QED  BY <1>6, <1>7, <1>8

\* What is left of init_models, and what has been done.
Bosqichda(L, s) ==
    \/ L = <<"eski", "yarat", "ustun", "belgi">>
    \/ L = <<"yarat", "ustun", "belgi">>
    \/ L = <<"ustun", "belgi">> /\ JadvalNomlari \subseteq DOMAIN s
    \/ L = <<"belgi">> /\ Toliq(s)

\* Without a downgrade: the version is honest, and a revision at hand leads to the next one.
Tushirilmagan ==
    /\ ish # "pastga"
    /\ Ortiq(sxema, Sxemalar[versiya])
    /\ ish = "alembic" => Yetadi(sxema, qoldi, maqsad)

SxInv ==
    /\ SXTypeOK
    /\ Shakl(sxema)
    /\ ish \in {"alembic", "pastga"} => Ishda(qoldi)
    /\ ish = "alembic" => Asraydi(qoldi)
    /\ ish \in {"seed", "bot"} => Bosqichda(qoldi, sxema)
    /\ ish = "ishlayapti" => Toliq(sxema)
    /\ "tushirildi" \notin ToSet(yol) => Tushirilmagan

LEMMA SxBoshL == SXInit => SxInv
<1>. SUFFICES ASSUME SXInit PROVE SxInv  OBVIOUS
<1>1. SXTypeOK  BY DEF SXInit, SXTypeOK, Ishlar
<1>2. Shakl(sxema)  BY SxemalarL DEF SXInit
<1>3. ish = "tinch" /\ Ortiq(sxema, Sxemalar[versiya])  BY DEF SXInit, Ortiq
<1>. QED  BY <1>1, <1>2, <1>3 DEF SxInv, Tushirilmagan

\* What befalls the database is remembered.
LEMMA BoldiL ==
  ASSUME NEW h \in Hodisalar, Boldi(h), yol \in Seq(Hodisalar)
  PROVE  /\ yol' \in Seq(Hodisalar)
         /\ h \in ToSet(yol')
         /\ "tushirildi" \notin ToSet(yol') => "tushirildi" \notin ToSet(yol)
<1>. DEFINE Y == Append(yol, h)
<1>1. yol' = Y  BY DEF Boldi
<1>2. /\ Y \in Seq(Hodisalar) /\ Len(Y) = Len(yol) + 1 /\ Y[Len(yol) + 1] = h
      /\ \A i \in 1..Len(yol) : Y[i] = yol[i]
  BY AppendProperties
<1>. HIDE DEF Y
<1>3. Len(yol) \in Nat /\ DOMAIN yol = 1..Len(yol) /\ DOMAIN Y = 1..(Len(yol) + 1)
  BY <1>2, LenProperties
<1>4. Len(yol) + 1 \in DOMAIN Y /\ \A i \in DOMAIN yol : i \in DOMAIN Y /\ Y[i] = yol[i]
  BY <1>2, <1>3
<1>5. h \in ToSet(Y) /\ ToSet(yol) \subseteq ToSet(Y)  BY <1>2, <1>4 DEF ToSet
<1>. QED  BY <1>1, <1>2, <1>5

(* The actions, one by one. *)
LEMMA KonteynerBoshlanadiL ==
  ASSUME SxInv, KonteynerBoshlanadi
  PROVE  SxInv' /\ Ortiq(sxema', sxema)
<1>1. /\ ish \in {"tinch", "yiqildi"} /\ ish' = "alembic" /\ qoldi = <<>> /\ maqsad = versiya
      /\ sxema' = sxema /\ versiya' = versiya /\ qoldi' = qoldi /\ maqsad' = maqsad /\ yol' = yol
  BY DEF SxInv, SXTypeOK, KonteynerBoshlanadi
<1>2. SXTypeOK'  BY <1>1 DEF SxInv, SXTypeOK, Ishlar
<1>3. Ishda(qoldi') /\ Asraydi(qoldi')  BY <1>1, BoshIshL
<1>4. "tushirildi" \notin ToSet(yol) => Tushirilmagan'
  <2>1. Ortiq(sxema, Sxemalar[versiya]) => Yetadi(sxema, <<>>, versiya)  BY YetadiL
  <2>. QED  BY <1>1, <2>1 DEF SxInv, Tushirilmagan
<1>. QED  BY <1>1, <1>2, <1>3, <1>4 DEF SxInv, Ortiq

LEMMA MigratsiyaOladiL ==
  ASSUME SxInv, MigratsiyaOladi
  PROVE  SxInv' /\ Ortiq(sxema', sxema)
<1>1. /\ ish = "alembic" /\ versiya \in 0..OXIRGI /\ versiya < OXIRGI /\ maqsad' = versiya + 1
      /\ qoldi' = YuqoriAmallar(versiya + 1)
      /\ sxema' = sxema /\ versiya' = versiya /\ ish' = ish /\ yol' = yol
  BY DEF SxInv, SXTypeOK, MigratsiyaOladi
<1>2. versiya + 1 \in 1..OXIRGI /\ versiya + 1 \in 0..OXIRGI /\ (versiya + 1) - 1 = versiya
  BY <1>1, TartibL
<1>3. SXTypeOK'  BY <1>1, <1>2 DEF SxInv, SXTypeOK, Ishlar
<1>4. Ishda(qoldi') /\ Asraydi(qoldi')  BY <1>1, <1>2, YuqoriAmallarL
<1>5. "tushirildi" \notin ToSet(yol) => Tushirilmagan'
  <2>1. Ortiq(sxema, Sxemalar[versiya]) => Yetadi(sxema, YuqoriAmallar(versiya + 1), versiya + 1)
    BY <1>2, YangiReviziyaL
  <2>. QED  BY <1>1, <2>1 DEF SxInv, Tushirilmagan
<1>. QED  BY <1>1, <1>3, <1>4, <1>5 DEF SxInv, Ortiq

LEMMA AmalBajariladiL ==
  ASSUME SxInv, AmalBajariladi
  PROVE  SxInv' /\ (ish # "pastga" => Ortiq(sxema', sxema))
<1>1. /\ ish \in {"alembic", "pastga"} /\ qoldi # <<>> /\ Otadi(sxema, Head(qoldi))
      /\ sxema' = Bajar(sxema, Head(qoldi)) /\ qoldi' = Tail(qoldi)
      /\ versiya' = versiya /\ ish' = ish /\ maqsad' = maqsad /\ yol' = yol
      /\ Shakl(sxema) /\ Ishda(qoldi) /\ (ish = "alembic" => Asraydi(qoldi))
  BY DEF SxInv, AmalBajariladi
<1>2. SXTypeOK'  BY <1>1 DEF SxInv, SXTypeOK, Ishlar
<1>3. PICK a : a = Head(qoldi)  OBVIOUS
<1>4. /\ \E i \in DOMAIN qoldi : qoldi[i] = a
      /\ Yigma(Tail(qoldi))
      /\ \A i \in DOMAIN Tail(qoldi) : \E j \in DOMAIN qoldi : qoldi[j] = Tail(qoldi)[i]
  BY <1>1, <1>3, DumRoyxatiL DEF Ishda
<1>5. Butun(a) /\ (ish = "alembic" => Saqlar(a))  BY <1>1, <1>4 DEF Ishda, Asraydi
<1>6. Shakl(sxema') /\ (ish = "alembic" => Ortiq(sxema', sxema))
  BY <1>1, <1>3, <1>5, BajarL
<1>7. Ishda(qoldi') /\ (ish = "alembic" => Asraydi(qoldi'))
  BY <1>1, <1>4 DEF Ishda, Asraydi
<1>8. ASSUME "tushirildi" \notin ToSet(yol) PROVE Tushirilmagan'
  <2>1. ish = "alembic" /\ Ortiq(sxema, Sxemalar[versiya]) /\ Yetadi(sxema, qoldi, maqsad)
    BY <1>1, <1>8 DEF SxInv, Tushirilmagan
  <2>2. Yetadi(sxema', Tail(qoldi), maqsad)  BY <1>1, <2>1, YetaveradiL
  <2>3. Ortiq(sxema', Sxemalar[versiya])  BY <1>6, <2>1, OrtiqL
  <2>. QED  BY <1>1, <2>1, <2>2, <2>3 DEF Tushirilmagan
<1>. QED  BY <1>1, <1>2, <1>6, <1>7, <1>8 DEF SxInv

LEMMA AmalYiqiladiL ==
  ASSUME SxInv, AmalYiqiladi
  PROVE  SxInv' /\ Ortiq(sxema', sxema)
<1>1. /\ ish \in {"alembic", "pastga"} /\ ish' = "yiqildi" /\ qoldi' = <<>> /\ maqsad' = versiya
      /\ sxema' = sxema /\ versiya' = versiya /\ yol' = yol
  BY DEF AmalYiqiladi
<1>2. SXTypeOK'  BY <1>1 DEF SxInv, SXTypeOK, Ishlar
<1>. QED  BY <1>1, <1>2 DEF SxInv, Tushirilmagan, Ortiq

LEMMA VersiyaYoziladiL ==
  ASSUME SxInv, VersiyaYoziladi
  PROVE  SxInv' /\ Ortiq(sxema', sxema)
<1>1. /\ ish \in {"alembic", "pastga"} /\ qoldi = <<>> /\ versiya' = maqsad
      /\ ish' = IF ish = "pastga" THEN "tinch" ELSE ish
      /\ sxema' = sxema /\ qoldi' = qoldi /\ maqsad' = maqsad /\ yol' = yol
  BY DEF VersiyaYoziladi
<1>2. SXTypeOK'  BY <1>1 DEF SxInv, SXTypeOK, Ishlar
<1>3. "tushirildi" \notin ToSet(yol) => Tushirilmagan'
  <2>1. Yetadi(sxema, <<>>, maqsad) <=> Ortiq(sxema, Sxemalar[maqsad])  BY YetadiL
  <2>. QED  BY <1>1, <2>1 DEF SxInv, Tushirilmagan
<1>. QED  BY <1>1, <1>2, <1>3 DEF SxInv, Ortiq

LEMMA AlembicTugaydiL ==
  ASSUME SxInv, AlembicTugaydi
  PROVE  SxInv' /\ Ortiq(sxema', sxema)
<1>1. /\ ish = "alembic" /\ versiya = OXIRGI /\ maqsad = OXIRGI
      /\ ish' = "seed" /\ qoldi' = <<"eski", "yarat", "ustun", "belgi">>
      /\ sxema' = sxema /\ versiya' = versiya /\ maqsad' = maqsad /\ yol' = yol
  BY DEF AlembicTugaydi, BOSQICHLAR
<1>2. SXTypeOK'  BY <1>1 DEF SxInv, SXTypeOK, Ishlar
<1>3. Bosqichda(qoldi', sxema')  BY <1>1 DEF Bosqichda
<1>. QED  BY <1>1, <1>2, <1>3 DEF SxInv, Tushirilmagan, Ortiq

LEMMA PastgaOladiL ==
  ASSUME SxInv, PastgaOladi
  PROVE  SxInv' /\ Ortiq(sxema', sxema)
<1>1. /\ ish = "tinch" /\ versiya > 0 /\ ish' = "pastga" /\ maqsad' = versiya - 1
      /\ qoldi' = Tartib[versiya].pastga /\ Boldi("tushirildi")
      /\ sxema' = sxema /\ versiya' = versiya /\ yol \in Seq(Hodisalar)
  BY DEF SxInv, SXTypeOK, PastgaOladi
<1>0. versiya \in 0..OXIRGI  BY DEF SxInv, SXTypeOK
<1>2. yol' \in Seq(Hodisalar) /\ "tushirildi" \in ToSet(yol')
  <2>1. PICK h \in Hodisalar : h = "tushirildi"  BY DEF Hodisalar
  <2>2. Boldi(h)  BY <1>1, <2>1
  <2>. QED  BY <1>1, <2>1, <2>2, BoldiL
<1>3. versiya \in 1..OXIRGI /\ versiya - 1 \in 0..OXIRGI
  <2>1. OXIRGI \in Nat  BY TartibL
  <2>2. versiya > 0  BY <1>1
  <2>. QED  BY <1>0, <2>1, <2>2
<1>4. SXTypeOK'
  <2>1. maqsad' \in 0..OXIRGI
    <3>1. maqsad' = versiya - 1  BY Zenon, <1>1
    <3>2. versiya - 1 \in 0..OXIRGI  BY <1>3
    <3>. QED  BY ONLY Zenon, <3>1, <3>2
  <2>2. versiya' \in 0..OXIRGI
    <3>1. versiya' = versiya  BY <1>1
    <3>. QED  BY ONLY Zenon, <1>0, <3>1
  <2>. QED  BY <1>1, <1>2, <2>1, <2>2 DEF SXTypeOK, Ishlar
<1>5. Ishda(qoldi')
  <2>1. Yurish(Tartib[versiya])  BY <1>3, TartibL
  <2>2. PICK L : L = Tartib[versiya].pastga  OBVIOUS
  <2>3. Ishda(L)  BY <2>1, <2>2 DEF Yurish, Ishda
  <2>. QED  BY <1>1, <2>2, <2>3
<1>. QED  BY <1>1, <1>2, <1>4, <1>5 DEF SxInv, Ortiq

LEMMA InitJadvallarL ==
  ASSUME SxInv, InitJadvallar
  PROVE  SxInv' /\ Ortiq(sxema', sxema)
<1>1. /\ ish \in {"seed", "bot"} /\ Head(qoldi) # "belgi"
      /\ sxema' = CASE Head(qoldi) = "eski"  -> EskiOlibTashla(sxema)
                    [] Head(qoldi) = "yarat" -> YaratHammasi(sxema)
                    [] Head(qoldi) = "ustun" -> UstunQosh(sxema)
      /\ qoldi' = Tail(qoldi)
      /\ versiya' = versiya /\ ish' = ish /\ maqsad' = maqsad /\ yol' = yol
      /\ Shakl(sxema) /\ Bosqichda(qoldi, sxema)
  BY DEF SxInv, InitJadvallar
<1>2. SXTypeOK'  BY <1>1 DEF SxInv, SXTypeOK, Ishlar
<1>3. \/ Head(qoldi) = "eski" /\ Tail(qoldi) = <<"yarat", "ustun", "belgi">>
      \/ Head(qoldi) = "yarat" /\ Tail(qoldi) = <<"ustun", "belgi">>
      \/ Head(qoldi) = "ustun" /\ Tail(qoldi) = <<"belgi">> /\ JadvalNomlari \subseteq DOMAIN sxema
  <2>1. CASE qoldi = <<"eski", "yarat", "ustun", "belgi">>  BY <2>1
  <2>2. CASE qoldi = <<"yarat", "ustun", "belgi">>  BY <2>2
  <2>3. CASE qoldi = <<"ustun", "belgi">> /\ JadvalNomlari \subseteq DOMAIN sxema  BY <2>3
  <2>4. CASE qoldi = <<"belgi">>
    <3>1. Head(qoldi) = "belgi"  BY <2>4
    <3>. QED  BY <1>1, <3>1
  <2>. QED  BY <1>1, <2>1, <2>2, <2>3, <2>4 DEF Bosqichda
<1>4. Shakl(sxema') /\ Ortiq(sxema', sxema) /\ Bosqichda(qoldi', sxema')
  <2>1. CASE Head(qoldi) = "eski" /\ Tail(qoldi) = <<"yarat", "ustun", "belgi">>
    <3>1. sxema' = EskiOlibTashla(sxema)  BY <1>1, <2>1
    <3>. QED  BY <1>1, <2>1, <3>1, EskiOlibTashlaL DEF Bosqichda
  <2>2. CASE Head(qoldi) = "yarat" /\ Tail(qoldi) = <<"ustun", "belgi">>
    <3>1. sxema' = YaratHammasi(sxema)  BY <1>1, <2>2
    <3>. QED  BY <1>1, <2>2, <3>1, YaratHammasiL DEF Bosqichda
  <2>3. CASE Head(qoldi) = "ustun" /\ Tail(qoldi) = <<"belgi">> /\ JadvalNomlari \subseteq DOMAIN sxema
    <3>1. sxema' = UstunQosh(sxema)  BY <1>1, <2>3
    <3>. QED  BY <1>1, <2>3, <3>1, UstunQoshL DEF Bosqichda
  <2>. QED  BY <1>3, <2>1, <2>2, <2>3
<1>5. "tushirildi" \notin ToSet(yol) => Tushirilmagan'
  <2>1. Ortiq(sxema, Sxemalar[versiya]) => Ortiq(sxema', Sxemalar[versiya])  BY <1>4, OrtiqL
  <2>. QED  BY <1>1, <2>1 DEF SxInv, Tushirilmagan
<1>. QED  BY <1>1, <1>2, <1>4, <1>5 DEF SxInv

LEMMA BelgilaYangiL ==
  ASSUME SxInv, BelgilaYangi
  PROVE  SxInv' /\ Ortiq(sxema', sxema)
<1>1. /\ ish \in {"seed", "bot"} /\ Head(qoldi) = "belgi"
      /\ versiya' = (IF versiya = 0 THEN OXIRGI ELSE versiya) /\ maqsad' = versiya'
      /\ \/ ish' = "bot" /\ qoldi' = <<"eski", "yarat", "ustun", "belgi">>
         \/ ish' = "ishlayapti" /\ qoldi' = <<>>
      /\ sxema' = sxema /\ yol' = yol /\ Bosqichda(qoldi, sxema)
  BY DEF SxInv, BelgilaYangi, BOSQICHLAR
<1>2. Toliq(sxema)
  <2>1. CASE qoldi = <<"eski", "yarat", "ustun", "belgi">>
    <3>1. Head(qoldi) = "eski"  BY <2>1
    <3>. QED  BY <1>1, <3>1
  <2>2. CASE qoldi = <<"yarat", "ustun", "belgi">>
    <3>1. Head(qoldi) = "yarat"  BY <2>2
    <3>. QED  BY <1>1, <3>1
  <2>3. CASE qoldi = <<"ustun", "belgi">>
    <3>1. Head(qoldi) = "ustun"  BY <2>3
    <3>. QED  BY <1>1, <3>1
  <2>. QED  BY <1>1, <2>1, <2>2, <2>3 DEF Bosqichda
<1>3. SXTypeOK'
  <2>1. OXIRGI \in 0..OXIRGI  BY TartibL
  <2>. QED  BY <1>1, <2>1 DEF SxInv, SXTypeOK, Ishlar
<1>4. ish' = "bot" => Bosqichda(qoldi', sxema')  BY <1>1 DEF Bosqichda
<1>5. Ortiq(sxema', Sxemalar[versiya'])
  <2>1. \A t \in JadvalNomlari : t \in DOMAIN sxema' /\ ModelUstuni(t) \subseteq DOMAIN sxema'[t].ustun
    BY <1>1, <1>2 DEF Toliq
  <2>. QED  BY <2>1 DEF Ortiq
<1>. QED  BY <1>1, <1>2, <1>3, <1>4, <1>5 DEF SxInv, Tushirilmagan, Ortiq

LEMMA BotBevositaL ==
  ASSUME SxInv, BotBevosita
  PROVE  SxInv' /\ Ortiq(sxema', sxema)
<1>1. /\ ish \in {"tinch", "yiqildi"} /\ ish' = "bot"
      /\ qoldi' = <<"eski", "yarat", "ustun", "belgi">> /\ Boldi("bevosita")
      /\ sxema' = sxema /\ versiya' = versiya /\ maqsad' = maqsad
      /\ yol \in Seq(Hodisalar)
  BY DEF SxInv, SXTypeOK, BotBevosita, BOSQICHLAR
<1>2. /\ yol' \in Seq(Hodisalar)
      /\ "tushirildi" \notin ToSet(yol') => "tushirildi" \notin ToSet(yol)
  <2>1. PICK h \in Hodisalar : h = "bevosita"  BY DEF Hodisalar
  <2>2. Boldi(h)  BY <1>1, <2>1
  <2>. QED  BY <1>1, <2>2, BoldiL
<1>3. SXTypeOK'  BY <1>1, <1>2 DEF SxInv, SXTypeOK, Ishlar
<1>4. Bosqichda(qoldi', sxema')  BY <1>1 DEF Bosqichda
<1>. QED  BY <1>1, <1>2, <1>3, <1>4 DEF SxInv, Tushirilmagan, Ortiq

LEMMA ToxtaydiL ==
  ASSUME SxInv, Toxtaydi
  PROVE  SxInv' /\ Ortiq(sxema', sxema)
<1>1. /\ ish = "ishlayapti" /\ ish' = "tinch"
      /\ sxema' = sxema /\ versiya' = versiya /\ qoldi' = qoldi /\ maqsad' = maqsad /\ yol' = yol
  BY DEF Toxtaydi
<1>2. SXTypeOK'  BY <1>1 DEF SxInv, SXTypeOK, Ishlar
<1>. QED  BY <1>1, <1>2 DEF SxInv, Tushirilmagan, Ortiq

LEMMA UziladiL ==
  ASSUME SxInv, Uziladi
  PROVE  SxInv' /\ Ortiq(sxema', sxema)
<1>1. /\ ish' = "tinch" /\ qoldi' = <<>> /\ maqsad' = versiya
      /\ \E h \in {"yarim", "uzildi"} : Boldi(h)
      /\ sxema' = sxema /\ versiya' = versiya /\ yol \in Seq(Hodisalar)
  BY DEF SxInv, SXTypeOK, Uziladi
<1>2. /\ yol' \in Seq(Hodisalar)
      /\ "tushirildi" \notin ToSet(yol') => "tushirildi" \notin ToSet(yol)
  <2>1. PICK h \in Hodisalar : Boldi(h)  BY <1>1 DEF Hodisalar
  <2>. QED  BY <1>1, <2>1, BoldiL
<1>3. SXTypeOK'  BY <1>1, <1>2 DEF SxInv, SXTypeOK, Ishlar
<1>. QED  BY <1>1, <1>2, <1>3 DEF SxInv, Tushirilmagan, Ortiq

LEMMA SxQadamL ==
  ASSUME SxInv, [SXNext]_sxvars
  PROVE  SxInv' /\ (ish # "pastga" => Ortiq(sxema', sxema))
<1>1. CASE UNCHANGED sxvars
  BY <1>1 DEF sxvars, SxInv, SXTypeOK, Tushirilmagan, Ortiq
<1>. QED
  BY <1>1, KonteynerBoshlanadiL, MigratsiyaOladiL, AmalBajariladiL, AmalYiqiladiL,
     VersiyaYoziladiL, AlembicTugaydiL, PastgaOladiL, InitJadvallarL, BelgilaYangiL,
     BotBevositaL, ToxtaydiL, UziladiL
  DEF SXNext

LEMMA SxInvL == SXSpec => []SxInv
<1>1. SxInv /\ [SXNext]_sxvars => SxInv'  BY SxQadamL
<1>. QED  BY SxBoshL, <1>1, PTL DEF SXSpec

(* The running program finds every table and every column its models name (init_models of *)
(* core/storage/database.py), after any number of crashes, bare starts and downgrades.    *)
THEOREM ModellarTeoremasi == SXSpec => []KodTopadi
<1>1. SxInv => KodTopadi  BY ModellarL DEF SxInv, Toliq, ModelUstuni, KodTopadi
<1>. QED  BY <1>1, SxInvL, PTL

(* Without a downgrade the recorded version never promises what is not there *)
(* (alembic_version; _stamp_if_fresh of core/storage/database.py).           *)
THEOREM VersiyaTeoremasi == SXSpec => []VersiyaRost
<1>1. SxInv => VersiyaRost
  BY ModellarL DEF SxInv, Tushirilmagan, Ortiq, ModelUstuni, VersiyaRost
<1>. QED  BY <1>1, SxInvL, PTL

(* No migration, no start and no crash between two statements drops a table or a column *)
(* of the models (migrations/versions, core/storage/database.py).                       *)
THEOREM MalumotTeoremasi == SXSpec => MalumotSaqlanadi
<1>. DEFINE A == ish # "pastga" =>
                    \A t \in DOMAIN Modellar \cap DOMAIN sxema :
                        /\ t \in DOMAIN sxema'
                        /\ DOMAIN Modellar[t].ustun \cap DOMAIN sxema[t].ustun
                              \subseteq DOMAIN sxema'[t].ustun
<1>1. SxInv /\ [SXNext]_sxvars => A
  <2>1. SxInv /\ [SXNext]_sxvars => (ish # "pastga" => Ortiq(sxema', sxema))  BY SxQadamL
  <2>. QED  BY <2>1, ModellarL DEF Ortiq, ModelUstuni
<1>. HIDE DEF A
<1>2. SXSpec => [][A]_sxvars  BY <1>1, SxInvL, PTL DEF SXSpec
<1>. QED  BY <1>2 DEF A, MalumotSaqlanadi
=============================================================================
