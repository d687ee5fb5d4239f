-------------------------- MODULE ObunaTolovIsboti --------------------------
(***************************************************************************)
(* Proofs about ObunaTolov, for every number of handlers, payments and     *)
(* subscriptions, every set of reminder days and every time.               *)
(***************************************************************************)
EXTENDS ObunaTolov, TLAPS

(* What is still active had not run out at the task's last run. *)
MuddatInv == \A o \in Oid : obuna[o].holat = "active" => yurdi < obuna[o].tugash

(* What was sent or waits to be sent is marked, and what waits was not sent. *)
EslatmaInv ==
    /\ \A o \in Oid, d \in Eslatmalar :
          /\ keldi[o][d] <= 1
          /\ keldi[o][d] > 0 => d \in obuna[o].eslatma
          /\ <<o, d>> \in vazifa => d \in obuna[o].eslatma /\ keldi[o][d] = 0
    /\ \A o \in Oid : obuna[o].holat = "yoq" => obuna[o].eslatma = {}

(* A reminder that is not marked was not due at the task's last run: more   *)
(* than d days were left.                                                   *)
OtmaydiInv ==
    \A o \in Oid, d \in Eslatmalar :
        (obuna[o].holat = "active" /\ ~obuna[o].sinov /\ ~Uzoq(d) /\ d \notin obuna[o].eslatma)
            => yurdi + KUN * (d + 1) <= obuna[o].tugash

BazaInv == TasdiqObunali /\ MuddatInv /\ EslatmaInv /\ OtmaydiInv
IInv == TypeOK /\ BazaInv

TolovTuri == [holat : {"yoq", "pending", "approved", "rejected"}, tarif : 0..TarifSoni,
              sinov : BOOLEAN, obuna : 0..MaxObuna]
ObunaTuri == [holat : {"yoq", "active", "expired", "suspended"}, tarif : 0..TarifSoni,
              sinov : BOOLEAN, tugash : Nat, eslatma : SUBSET Eslatmalar, tolov : 0..MaxTolov]
AmalTuri == [ish : {"yoq", "tasdiq", "rad"}, tolov : 0..MaxTolov]

LEMMA KunL ==
  ASSUME NEW a \in Nat, NEW b \in Nat
  PROVE  /\ KUN * a \in Nat
         /\ KUN * (a + 1) = KUN * a + KUN
         /\ a <= b => KUN * a <= KUN * b
<1>1. KUN \in Nat  BY ObunaFarazi
<1>2. KUN * a \in Nat /\ KUN * (a + 1) = KUN * a + KUN  BY <1>1
<1>3. ASSUME a <= b PROVE KUN * a <= KUN * b
  <2>1. b - a \in Nat /\ b = a + (b - a)  BY <1>3
  <2>2. KUN * b = KUN * a + KUN * (b - a)  BY <1>1, <2>1
  <2>3. KUN * (b - a) \in Nat  BY <1>1, <2>1
  <2>. QED  BY <1>2, <2>2, <2>3
<1>. QED  BY <1>2, <1>3

LEMMA BoshlanishL == Init => IInv
  BY ObunaFarazi DEF Init, IInv, BazaInv, TypeOK, TasdiqObunali, MuddatInv, EslatmaInv, OtmaydiInv,
     BoshTolov, BoshObuna, BoshAmal, Tid, Oid, Tarif

(* The steps that leave the rows, the task and what was sent alone keep all *)
(* but the types for nothing.                                               *)
LEMMA BazaL ==
  ASSUME BazaInv, UNCHANGED <<tolov, obuna, vazifa, yurdi, keldi>>
  PROVE  BazaInv'
  BY DEF BazaInv, TasdiqObunali, MuddatInv, EslatmaInv, OtmaydiInv

LEMMA SoatL == IInv /\ Soat => IInv'
<1>. SUFFICES ASSUME IInv, Soat PROVE IInv'  OBVIOUS
<1>1. BazaInv'  BY BazaL DEF IInv, Soat, baza
<1>2. TypeOK'  BY ObunaFarazi DEF IInv, TypeOK, Soat, baza
<1>. QED  BY <1>1, <1>2 DEF IInv

LEMMA FormaL == IInv /\ (RekvizitKorish \/ ShaklYopiladi) => IInv'
<1>. SUFFICES ASSUME IInv, RekvizitKorish \/ ShaklYopiladi PROVE IInv'  OBVIOUS
<1>1. BazaInv'  BY BazaL DEF IInv, RekvizitKorish, ShaklYopiladi, baza
<1>2. shakl' \subseteq [tarif : Tarif, sinov : BOOLEAN]  BY DEF RekvizitKorish, ShaklYopiladi
<1>3. chek' \in Nat  BY DEF IInv, TypeOK, RekvizitKorish, ShaklYopiladi
<1>4. TypeOK'  BY <1>2, <1>3 DEF IInv, TypeOK, RekvizitKorish, ShaklYopiladi, baza
<1>. QED  BY <1>1, <1>4 DEF IInv

(* A handler reads, fails, or the bot restarts. *)
LEMMA AmalL ==
  ASSUME IInv, NEW h \in Korganlar, NEW x \in AmalTuri, x.ish # "yoq" => x.tolov \in Tid,
         amal' = [amal EXCEPT ![h] = x]
  PROVE  /\ amal' \in [Korganlar -> AmalTuri]
         /\ \A g \in Korganlar : amal'[g].ish # "yoq" => amal'[g].tolov \in Tid
<1>1. amal \in [Korganlar -> AmalTuri]  BY DEF IInv, TypeOK, AmalTuri
<1>2. \A g \in Korganlar : amal[g].ish # "yoq" => amal[g].tolov \in Tid  BY DEF IInv, TypeOK
<1>. QED  BY <1>1, <1>2

LEMMA BoshAmalL == BoshAmal \in AmalTuri /\ BoshAmal.ish = "yoq"
  BY ObunaFarazi DEF BoshAmal, AmalTuri

LEMMA OqishL ==
  ASSUME IInv, NEW h \in Korganlar,
         AmalXatosi(h) \/ (\E ish \in {"tasdiq", "rad"} : AmalOqiydi(h, ish))
  PROVE  IInv'
<1>1. UNCHANGED <<vaqt, tolov, obuna, shakl, chek, vazifa, yurdi, keldi>>
  BY DEF AmalXatosi, AmalOqiydi, baza
<1>2. PICK x \in AmalTuri : (x.ish # "yoq" => x.tolov \in Tid) /\ amal' = [amal EXCEPT ![h] = x]
  <2>1. CASE AmalXatosi(h)  BY <2>1, BoshAmalL DEF AmalXatosi
  <2>2. ASSUME NEW ish \in {"tasdiq", "rad"}, AmalOqiydi(h, ish)
        PROVE  \E x \in AmalTuri : (x.ish # "yoq" => x.tolov \in Tid) /\ amal' = [amal EXCEPT ![h] = x]
    <3>1. PICK p \in Tid : amal' = [amal EXCEPT ![h] = [ish |-> ish, tolov |-> p]]
      BY <2>2 DEF AmalOqiydi
    <3>2. [ish |-> ish, tolov |-> p] \in AmalTuri  BY ObunaFarazi DEF AmalTuri, Tid
    <3>. QED  BY <3>1, <3>2
  <2>. QED  BY <2>1, <2>2
<1>3. TypeOK'  BY <1>1, <1>2, AmalL DEF IInv, TypeOK, AmalTuri
<1>4. BazaInv'  BY <1>1, BazaL DEF IInv
<1>. QED  BY <1>3, <1>4 DEF IInv

LEMMA UzilishL == IInv /\ Uzilish => IInv'
<1>. SUFFICES ASSUME IInv, Uzilish PROVE IInv'  OBVIOUS
<1>1. /\ shakl' = {} /\ chek' = 0 /\ vazifa' = {}
      /\ amal' = [h \in Korganlar |-> IF h = SAYT THEN amal[SAYT] ELSE BoshAmal]
      /\ UNCHANGED <<vaqt, tolov, obuna, yurdi, keldi>>
  BY DEF Uzilish, baza
<1>2. amal \in [Korganlar -> AmalTuri] /\ SAYT \in Korganlar
  BY DEF IInv, TypeOK, AmalTuri, Korganlar
<1>3. /\ amal' \in [Korganlar -> AmalTuri]
      /\ \A g \in Korganlar : amal'[g].ish # "yoq" => amal'[g].tolov \in Tid
  BY <1>1, <1>2, BoshAmalL DEF IInv, TypeOK
<1>4. TypeOK'  BY <1>1, <1>3 DEF IInv, TypeOK, AmalTuri
<1>5. BazaInv'  BY <1>1 DEF IInv, BazaInv, TasdiqObunali, MuddatInv, EslatmaInv, OtmaydiInv
<1>. QED  BY <1>4, <1>5 DEF IInv

-----------------------------------------------------------------------------
(* A payment is made or rejected: no approved one appears. *)
LEMMA TolovL ==
  ASSUME IInv, NEW p \in Tid, NEW y \in TolovTuri, y.holat # "approved",
         tolov' = [tolov EXCEPT ![p] = y], UNCHANGED <<obuna, vazifa, yurdi, keldi>>
  PROVE  tolov' \in [Tid -> TolovTuri] /\ BazaInv'
<1>1. tolov \in [Tid -> TolovTuri]  BY DEF IInv, TypeOK, TolovTuri
<1>2. tolov' \in [Tid -> TolovTuri]  BY <1>1
<1>3. \A q \in Tid : tolov'[q] = IF q = p THEN y ELSE tolov[q]  BY <1>1
<1>4. TasdiqObunali'
  <2>. SUFFICES ASSUME NEW q \in Tid, tolov'[q].holat = "approved"
                PROVE  /\ tolov'[q].obuna \in Oid
                       /\ obuna'[tolov'[q].obuna].holat # "yoq"
                       /\ obuna'[tolov'[q].obuna].tolov = q
                       /\ obuna'[tolov'[q].obuna].tarif = tolov'[q].tarif
                       /\ obuna'[tolov'[q].obuna].sinov = tolov'[q].sinov
    BY DEF TasdiqObunali
  <2>1. tolov'[q] = tolov[q]  BY <1>3
  <2>. QED  BY <2>1 DEF IInv, BazaInv, TasdiqObunali
<1>5. (MuddatInv /\ EslatmaInv /\ OtmaydiInv)'
  BY DEF IInv, BazaInv, MuddatInv, EslatmaInv, OtmaydiInv
<1>. QED  BY <1>2, <1>4, <1>5 DEF BazaInv

LEMMA ChekL == IInv /\ ChekKeldi => IInv'
<1>. SUFFICES ASSUME IInv, ChekKeldi PROVE IInv'  OBVIOUS
<1>1. PICK p \in Tid, r \in shakl :
        tolov' = [tolov EXCEPT ![p] = [holat |-> "pending", tarif |-> r.tarif, sinov |-> r.sinov, obuna |-> 0]]
  BY DEF ChekKeldi
<1>2. chek' = chek + 1 /\ UNCHANGED <<vaqt, obuna, shakl, amal, vazifa, yurdi, keldi>>
  BY DEF ChekKeldi
<1>3. r.tarif \in 0..TarifSoni /\ r.sinov \in BOOLEAN  BY ObunaFarazi DEF IInv, TypeOK, Tarif
<1>. DEFINE y == [holat |-> "pending", tarif |-> r.tarif, sinov |-> r.sinov, obuna |-> 0]
<1>4. y \in TolovTuri /\ y.holat # "approved"  BY <1>3, ObunaFarazi DEF TolovTuri
<1>. HIDE DEF y
<1>5. tolov' = [tolov EXCEPT ![p] = y]  BY <1>1 DEF y
<1>6. tolov' \in [Tid -> TolovTuri] /\ BazaInv'  BY <1>2, <1>4, <1>5, TolovL
<1>7. TypeOK'  BY <1>2, <1>6 DEF IInv, TypeOK, TolovTuri
<1>. QED  BY <1>6, <1>7 DEF IInv

LEMMA RadL == ASSUME IInv, NEW h \in Korganlar, RadYozadi(h) PROVE IInv'
<1>1. /\ amal[h].ish = "rad"
      /\ tolov' = [tolov EXCEPT ![amal[h].tolov].holat = "rejected"]
      /\ amal' = [amal EXCEPT ![h] = BoshAmal]
      /\ UNCHANGED <<vaqt, obuna, shakl, chek, vazifa, yurdi, keldi>>
  BY DEF RadYozadi
<1>2. PICK p \in Tid : p = amal[h].tolov  BY <1>1 DEF IInv, TypeOK
<1>. DEFINE y == [tolov[p] EXCEPT !.holat = "rejected"]
<1>3. tolov[p] \in TolovTuri  BY DEF IInv, TypeOK, TolovTuri
<1>4. y \in TolovTuri /\ y.holat # "approved"  BY <1>3 DEF TolovTuri
<1>5. tolov' = [tolov EXCEPT ![p] = y]  BY <1>1, <1>2
<1>. HIDE DEF y
<1>6. tolov' \in [Tid -> TolovTuri] /\ BazaInv'  BY <1>1, <1>4, <1>5, TolovL
<1>7. TypeOK'  BY <1>1, <1>6, AmalL, BoshAmalL DEF IInv, TypeOK, TolovTuri, AmalTuri
<1>. QED  BY <1>6, <1>7 DEF IInv
-----------------------------------------------------------------------------
(* A new subscription: of a row no payment and no reminder knows. *)
LEMMA TasdiqlashL ==
  ASSUME IInv, NEW p \in Tid, Tasdiqlash(p), UNCHANGED <<vaqt, vazifa, yurdi, keldi>>
  PROVE  tolov' \in [Tid -> TolovTuri] /\ obuna' \in [Oid -> ObunaTuri] /\ BazaInv'
<1>. DEFINE y(o) == [holat |-> "active", tarif |-> tolov[p].tarif, sinov |-> tolov[p].sinov,
                     tugash |-> Tugash(tolov[p].sinov), eslatma |-> {}, tolov |-> p]
            x(o) == [tolov[p] EXCEPT !.holat = "approved", !.obuna = o]
<1>1. PICK o \in Oid :
        /\ obuna[o].holat = "yoq"
        /\ obuna' = [obuna EXCEPT ![o] = y(o)]
        /\ tolov' = [tolov EXCEPT ![p].holat = "approved", ![p].obuna = o]
  BY DEF Tasdiqlash, YangiObuna
<1>2. tolov \in [Tid -> TolovTuri] /\ obuna \in [Oid -> ObunaTuri]
  BY DEF IInv, TypeOK, TolovTuri, ObunaTuri
<1>3. PICK n \in {Kunlik, Oylik} : Tugash(tolov[p].sinov) = vaqt + KUN * n  BY DEF Tugash
<1>4. n \in Nat \ {0} /\ vaqt \in Nat /\ yurdi \in Nat /\ yurdi <= vaqt
  BY ObunaFarazi DEF IInv, TypeOK
<1>5. KUN * n \in Nat /\ KUN * n > 0
  <2>1. 1 <= n /\ 1 \in Nat /\ n \in Nat  BY <1>4
  <2>2. KUN * n \in Nat /\ KUN * 1 <= KUN * n  BY <2>1, KunL
  <2>3. KUN * 1 = KUN /\ KUN > 0  BY ObunaFarazi
  <2>. QED  BY <2>2, <2>3, ObunaFarazi
<1>6. Tugash(tolov[p].sinov) \in Nat /\ Tugash(tolov[p].sinov) > yurdi  BY <1>3, <1>4, <1>5
<1>7. ~tolov[p].sinov => Tugash(tolov[p].sinov) = vaqt + KUN * Oylik  BY DEF Tugash
<1>8. tolov[p] \in TolovTuri /\ p \in 0..MaxTolov /\ o \in 0..MaxObuna
  BY <1>2, ObunaFarazi DEF Tid, Oid
<1>9. y(o) \in ObunaTuri  BY <1>6, <1>8 DEF ObunaTuri, TolovTuri
<1>10. /\ y(o).holat = "active" /\ y(o).tarif = tolov[p].tarif /\ y(o).sinov = tolov[p].sinov
       /\ y(o).tugash = Tugash(tolov[p].sinov) /\ y(o).eslatma = {} /\ y(o).tolov = p
  OBVIOUS
<1>11. /\ tolov' = [tolov EXCEPT ![p] = x(o)] /\ x(o) \in TolovTuri
       /\ x(o).obuna = o /\ x(o).tarif = tolov[p].tarif /\ x(o).sinov = tolov[p].sinov
  <2>1. /\ x(o) \in TolovTuri
        /\ x(o).obuna = o /\ x(o).tarif = tolov[p].tarif /\ x(o).sinov = tolov[p].sinov
    BY <1>8 DEF TolovTuri
  <2>2. tolov' = [tolov EXCEPT ![p] = x(o)]  BY <1>1, <1>2
  <2>. QED  BY <2>1, <2>2
<1>. HIDE DEF y, x
<1>12. tolov' \in [Tid -> TolovTuri] /\ obuna' \in [Oid -> ObunaTuri]
  BY <1>1, <1>2, <1>9, <1>11
<1>13. /\ \A q \in Tid : tolov'[q] = IF q = p THEN x(o) ELSE tolov[q]
       /\ \A k \in Oid : obuna'[k] = IF k = o THEN y(o) ELSE obuna[k]
  BY <1>1, <1>2, <1>11
<1>14. TasdiqObunali'
  <2>. SUFFICES ASSUME NEW q \in Tid, tolov'[q].holat = "approved"
                PROVE  /\ tolov'[q].obuna \in Oid
                       /\ obuna'[tolov'[q].obuna].holat # "yoq"
                       /\ obuna'[tolov'[q].obuna].tolov = q
                       /\ obuna'[tolov'[q].obuna].tarif = tolov'[q].tarif
                       /\ obuna'[tolov'[q].obuna].sinov = tolov'[q].sinov
    BY DEF TasdiqObunali
  <2>1. CASE q = p  BY <2>1, <1>10, <1>11, <1>13
  <2>2. CASE q # p
    <3>1. tolov'[q] = tolov[q]  BY <2>2, <1>13
    <3>2. /\ tolov[q].obuna \in Oid /\ obuna[tolov[q].obuna].holat # "yoq"
          /\ obuna[tolov[q].obuna].tolov = q
          /\ obuna[tolov[q].obuna].tarif = tolov[q].tarif
          /\ obuna[tolov[q].obuna].sinov = tolov[q].sinov
      BY <3>1 DEF IInv, BazaInv, TasdiqObunali
    <3>3. obuna'[tolov[q].obuna] = obuna[tolov[q].obuna]  BY <3>2, <1>1, <1>13
    <3>. QED  BY <3>1, <3>2, <3>3
  <2>. QED  BY <2>1, <2>2
<1>15. MuddatInv'
  BY <1>6, <1>10, <1>13 DEF MuddatInv, IInv, BazaInv
<1>16. EslatmaInv'
  <2>1. /\ obuna[o].eslatma = {}
        /\ \A d \in Eslatmalar : keldi[o][d] <= 1 /\ ~(keldi[o][d] > 0) /\ <<o, d>> \notin vazifa
    BY <1>1 DEF IInv, BazaInv, EslatmaInv
  <2>. QED  BY <2>1, <1>10, <1>13 DEF EslatmaInv, IInv, BazaInv
<1>17. OtmaydiInv'
  <2>. SUFFICES ASSUME NEW k \in Oid, NEW d \in Eslatmalar, obuna'[k].holat = "active",
                       ~obuna'[k].sinov, ~Uzoq(d), d \notin obuna'[k].eslatma
                PROVE  yurdi + KUN * (d + 1) <= obuna'[k].tugash
    BY DEF OtmaydiInv, Uzoq
  <2>1. CASE k = o
    <3>1. obuna'[k].tugash = vaqt + KUN * Oylik  BY <2>1, <1>7, <1>10, <1>13
    <3>2. d + 1 \in Nat /\ Oylik \in Nat /\ d + 1 <= Oylik  BY ObunaFarazi
    <3>3. KUN * (d + 1) \in Nat /\ KUN * Oylik \in Nat /\ KUN * (d + 1) <= KUN * Oylik
      BY <3>2, KunL
    <3>. QED  BY <3>1, <3>3, <1>4
  <2>2. CASE k # o  BY <2>2, <1>13 DEF IInv, BazaInv, OtmaydiInv
  <2>. QED  BY <2>1, <2>2
<1>. QED  BY <1>12, <1>14, <1>15, <1>16, <1>17 DEF BazaInv

LEMMA SaytTasdiqL == IInv /\ SaytTasdiqlaydi => IInv'
<1>. SUFFICES ASSUME IInv, SaytTasdiqlaydi PROVE IInv'  OBVIOUS
<1>1. PICK p \in Tid : Tasdiqlash(p)  BY DEF SaytTasdiqlaydi
<1>2. UNCHANGED <<vaqt, shakl, chek, amal, vazifa, yurdi, keldi>>  BY DEF SaytTasdiqlaydi
<1>3. tolov' \in [Tid -> TolovTuri] /\ obuna' \in [Oid -> ObunaTuri] /\ BazaInv'
  BY <1>1, <1>2, TasdiqlashL
<1>4. TypeOK'  BY <1>2, <1>3 DEF IInv, TypeOK, TolovTuri, ObunaTuri
<1>. QED  BY <1>3, <1>4 DEF IInv

LEMMA TasdiqYozL == ASSUME IInv, NEW h \in Korganlar, TasdiqYozadi(h) PROVE IInv'
<1>1. /\ amal[h].ish = "tasdiq" /\ Tasdiqlash(amal[h].tolov)
      /\ amal' = [amal EXCEPT ![h] = BoshAmal]
      /\ UNCHANGED <<vaqt, shakl, chek, vazifa, yurdi, keldi>>
  BY DEF TasdiqYozadi
<1>2. PICK p \in Tid : p = amal[h].tolov  BY <1>1 DEF IInv, TypeOK
<1>3. tolov' \in [Tid -> TolovTuri] /\ obuna' \in [Oid -> ObunaTuri] /\ BazaInv'
  BY <1>1, <1>2, TasdiqlashL
<1>4. TypeOK'  BY <1>1, <1>3, AmalL, BoshAmalL DEF IInv, TypeOK, TolovTuri, ObunaTuri, AmalTuri
<1>. QED  BY <1>3, <1>4 DEF IInv

LEMMA QoidaL == IInv /\ Qoidabuzarlik => IInv'
<1>. SUFFICES ASSUME IInv, Qoidabuzarlik PROVE IInv'  OBVIOUS
<1>1. PICK o \in Oid : obuna[o].holat = "active" /\ obuna' = [obuna EXCEPT ![o].holat = "suspended"]
  BY DEF Qoidabuzarlik, Eng, Faol
<1>2. UNCHANGED <<vaqt, tolov, shakl, chek, amal, vazifa, yurdi, keldi>>  BY DEF Qoidabuzarlik
<1>3. obuna \in [Oid -> ObunaTuri]  BY DEF IInv, TypeOK, ObunaTuri
<1>4. [obuna[o] EXCEPT !.holat = "suspended"] \in ObunaTuri  BY <1>3 DEF ObunaTuri
<1>5. obuna' \in [Oid -> ObunaTuri]  BY <1>1, <1>3, <1>4
<1>6. TypeOK'  BY <1>2, <1>5 DEF IInv, TypeOK, ObunaTuri
<1>7. /\ \A k \in Oid : k # o => obuna'[k] = obuna[k]
      /\ obuna'[o] = [obuna[o] EXCEPT !.holat = "suspended"]
  BY <1>1, <1>3
<1>8. /\ obuna'[o].holat = "suspended" /\ obuna'[o].tarif = obuna[o].tarif
      /\ obuna'[o].sinov = obuna[o].sinov /\ obuna'[o].tolov = obuna[o].tolov
      /\ obuna'[o].eslatma = obuna[o].eslatma
  <2>1. obuna[o] \in ObunaTuri  BY <1>3
  <2>2. obuna'[o].holat = "suspended"  BY <2>1, <1>7 DEF ObunaTuri
  <2>3. obuna'[o].tarif = obuna[o].tarif /\ obuna'[o].sinov = obuna[o].sinov  BY <1>7
  <2>4. obuna'[o].tolov = obuna[o].tolov /\ obuna'[o].eslatma = obuna[o].eslatma  BY <1>7
  <2>. QED  BY <2>2, <2>3, <2>4
<1>9. TasdiqObunali'
  <2>1. \A k \in Oid : /\ obuna[k].holat # "yoq" => obuna'[k].holat # "yoq"
                       /\ obuna'[k].tarif = obuna[k].tarif /\ obuna'[k].sinov = obuna[k].sinov
                       /\ obuna'[k].tolov = obuna[k].tolov
    BY <1>7, <1>8
  <2>. SUFFICES ASSUME NEW p \in Tid, tolov[p].holat = "approved"
                PROVE  /\ tolov[p].obuna \in Oid
                       /\ obuna'[tolov[p].obuna].holat # "yoq"
                       /\ obuna'[tolov[p].obuna].tolov = p
                       /\ obuna'[tolov[p].obuna].tarif = tolov[p].tarif
                       /\ obuna'[tolov[p].obuna].sinov = tolov[p].sinov
    BY <1>2 DEF TasdiqObunali
  <2>2. /\ tolov[p].obuna \in Oid /\ obuna[tolov[p].obuna].holat # "yoq"
        /\ obuna[tolov[p].obuna].tolov = p
        /\ obuna[tolov[p].obuna].tarif = tolov[p].tarif
        /\ obuna[tolov[p].obuna].sinov = tolov[p].sinov
    BY DEF IInv, BazaInv, TasdiqObunali
  <2>. QED  BY <2>1, <2>2
<1>10. MuddatInv'  BY <1>2, <1>7, <1>8 DEF IInv, BazaInv, MuddatInv
<1>11. EslatmaInv'
  <2>1. \A k \in Oid : obuna'[k].eslatma = obuna[k].eslatma  BY <1>7, <1>8
  <2>2. \A k \in Oid : obuna'[k].holat = "yoq" => obuna[k].holat = "yoq"  BY <1>7, <1>8
  <2>. QED  BY <2>1, <2>2, <1>2 DEF IInv, BazaInv, EslatmaInv
<1>12. OtmaydiInv'  BY <1>2, <1>7, <1>8 DEF IInv, BazaInv, OtmaydiInv
<1>. QED  BY <1>6, <1>9, <1>10, <1>11, <1>12 DEF IInv, BazaInv

-----------------------------------------------------------------------------
(* Before the run an unmarked reminder had at least d days to go, because   *)
(* the run before was at most a day ago.                                    *)
LEMMA QolganL ==
  ASSUME IInv, NEW o \in Oid, NEW d \in Eslatmalar, obuna[o].holat = "active", ~obuna[o].sinov,
         ~Uzoq(d), d \notin obuna[o].eslatma
  PROVE  KUN * d <= Qolgan(o)
<1>1. yurdi + KUN * (d + 1) <= obuna[o].tugash  BY DEF IInv, BazaInv, OtmaydiInv
<1>2. vaqt \in Nat /\ yurdi \in Nat /\ vaqt <= yurdi + Oraliq /\ obuna[o].tugash \in Nat
  BY DEF IInv, TypeOK
<1>3. d \in Nat /\ KUN \in Nat /\ Oraliq \in Nat /\ Oraliq <= KUN  BY ObunaFarazi
<1>4. KUN * d \in Nat /\ KUN * (d + 1) = KUN * d + KUN  BY <1>3, KunL
<1>. QED  BY <1>1, <1>2, <1>3, <1>4 DEF Qolgan

LEMMA VazifaL == IInv /\ VazifaYuradi => IInv'
<1>. SUFFICES ASSUME IInv, VazifaYuradi PROVE IInv'  OBVIOUS
<1>. DEFINE Belgi(o) == {d \in Eslatmalar : Kerak(o, d)}
<1>1. /\ vazifa = {} /\ yurdi' = vaqt
      /\ obuna' = [o \in Oid |->
                    IF MuddatiOtgan(o) THEN [obuna[o] EXCEPT !.holat = "expired"]
                    ELSE [obuna[o] EXCEPT !.eslatma = obuna[o].eslatma \cup Belgi(o)]]
      /\ vazifa' = {e \in Oid \X Eslatmalar : Kerak(e[1], e[2])}
      /\ UNCHANGED <<vaqt, tolov, shakl, chek, amal, keldi>>
  BY DEF VazifaYuradi
<1>2. obuna \in [Oid -> ObunaTuri]  BY DEF IInv, TypeOK, ObunaTuri
<1>3. \A o \in Oid : Belgi(o) \subseteq Eslatmalar  OBVIOUS
<1>4. \A o \in Oid, d \in Eslatmalar : d \in Belgi(o) <=> Kerak(o, d)  OBVIOUS
<1>. HIDE DEF Belgi
<1>5. ASSUME NEW o \in Oid
      PROVE  /\ obuna'[o] \in ObunaTuri
             /\ obuna'[o].tarif = obuna[o].tarif /\ obuna'[o].sinov = obuna[o].sinov
             /\ obuna'[o].tolov = obuna[o].tolov /\ obuna'[o].tugash = obuna[o].tugash
             /\ MuddatiOtgan(o) => obuna'[o].holat = "expired" /\ obuna'[o].eslatma = obuna[o].eslatma
             /\ ~MuddatiOtgan(o) => /\ obuna'[o].holat = obuna[o].holat
                                    /\ obuna'[o].eslatma = obuna[o].eslatma \cup Belgi(o)
  <2>1. obuna[o] \in ObunaTuri /\ Belgi(o) \subseteq Eslatmalar  BY <1>2, <1>3
  <2>2. CASE MuddatiOtgan(o)
    <3>1. obuna'[o] = [obuna[o] EXCEPT !.holat = "expired"]  BY <1>1, <2>2
    <3>. QED  BY <3>1, <2>1, <2>2 DEF ObunaTuri
  <2>3. CASE ~MuddatiOtgan(o)
    <3>1. obuna'[o] = [obuna[o] EXCEPT !.eslatma = obuna[o].eslatma \cup Belgi(o)]  BY <1>1, <2>3
    <3>. QED  BY <3>1, <2>1, <2>3 DEF ObunaTuri
  <2>. QED  BY <2>2, <2>3
<1>6. obuna' \in [Oid -> ObunaTuri]
  <2>1. obuna' = [o \in Oid |-> obuna'[o]]  BY <1>1
  <2>. QED  BY <2>1, <1>5
<1>7. vazifa' \subseteq Oid \X Eslatmalar  BY <1>1
<1>8. TypeOK'
  <2>1. vaqt' \in Nat /\ yurdi' \in Nat /\ yurdi' <= vaqt' /\ vaqt' <= yurdi' + Oraliq
    BY <1>1, ObunaFarazi DEF IInv, TypeOK
  <2>. QED  BY <2>1, <1>1, <1>6, <1>7 DEF IInv, TypeOK, ObunaTuri
<1>9. \A o \in Oid : /\ obuna'[o].holat = "active" => obuna[o].holat = "active" /\ ~MuddatiOtgan(o)
                     /\ obuna'[o].holat = "yoq" <=> obuna[o].holat = "yoq"
                     /\ obuna[o].eslatma \subseteq obuna'[o].eslatma
  BY <1>5 DEF MuddatiOtgan
<1>10. TasdiqObunali'  BY <1>1, <1>5, <1>9 DEF IInv, BazaInv, TasdiqObunali
<1>11. MuddatInv'
  <2>. SUFFICES ASSUME NEW o \in Oid, obuna'[o].holat = "active" PROVE vaqt < obuna'[o].tugash
    BY <1>1 DEF MuddatInv
  <2>1. obuna[o].holat = "active" /\ ~(obuna[o].tugash <= vaqt)  BY <1>9 DEF MuddatiOtgan
  <2>2. obuna[o].tugash \in Nat /\ vaqt \in Nat  BY DEF IInv, TypeOK
  <2>. QED  BY <2>1, <2>2, <1>5
<1>12. ASSUME NEW o \in Oid, NEW d \in Eslatmalar, <<o, d>> \in vazifa'
       PROVE  d \in obuna'[o].eslatma /\ keldi[o][d] = 0
  <2>1. Kerak(o, d)  BY <1>1, <1>12
  <2>2. obuna[o].holat = "active" /\ ~MuddatiOtgan(o) /\ d \notin obuna[o].eslatma
    <3>1. obuna[o].tugash - vaqt > 0  BY <2>1 DEF Kerak, Yaqin, Qolgan
    <3>2. obuna[o].tugash \in Nat /\ vaqt \in Nat  BY DEF IInv, TypeOK
    <3>3. ~(obuna[o].tugash <= vaqt)  BY <3>1, <3>2
    <3>. QED  BY <2>1, <3>3 DEF Kerak, Yaqin, MuddatiOtgan
  <2>3. d \in obuna'[o].eslatma  BY <2>1, <2>2, <1>4, <1>5
  <2>4. ~(keldi[o][d] > 0)  BY <2>2 DEF IInv, BazaInv, EslatmaInv
  <2>5. keldi[o][d] \in Nat  BY DEF IInv, TypeOK
  <2>6. keldi[o][d] = 0  BY <2>4, <2>5
  <2>. QED  BY <2>3, <2>6
<1>13. EslatmaInv'
  <2>1. \A o \in Oid, d \in Eslatmalar :
          /\ keldi'[o][d] <= 1
          /\ keldi'[o][d] > 0 => d \in obuna'[o].eslatma
    BY <1>1, <1>9 DEF IInv, BazaInv, EslatmaInv
  <2>2. ASSUME NEW o \in Oid, obuna'[o].holat = "yoq" PROVE obuna'[o].eslatma = {}
    <3>1. obuna[o].holat = "yoq" /\ obuna[o].eslatma = {}
      BY <2>2, <1>9 DEF IInv, BazaInv, EslatmaInv
    <3>2. ~MuddatiOtgan(o) /\ \A d \in Eslatmalar : ~Kerak(o, d)
      BY <3>1 DEF MuddatiOtgan, Kerak, Yaqin
    <3>3. Belgi(o) = {}  BY <3>2, <1>3, <1>4
    <3>. QED  BY <3>1, <3>2, <3>3, <1>5
  <2>. QED  BY <2>1, <2>2, <1>1, <1>12 DEF EslatmaInv
<1>14. OtmaydiInv'
  <2>. SUFFICES ASSUME NEW o \in Oid, NEW d \in Eslatmalar, obuna'[o].holat = "active",
                       ~obuna'[o].sinov, ~Uzoq(d), d \notin obuna'[o].eslatma,
                       ~(vaqt + KUN * (d + 1) <= obuna'[o].tugash)
                PROVE  FALSE
    BY <1>1 DEF OtmaydiInv, Uzoq
  <2>1. /\ obuna[o].holat = "active" /\ ~MuddatiOtgan(o) /\ ~obuna[o].sinov
        /\ d \notin obuna[o].eslatma /\ ~Kerak(o, d)
    BY <1>4, <1>5, <1>9
  <2>2. vaqt \in Nat /\ obuna[o].tugash \in Nat /\ d \in Nat
    BY ObunaFarazi DEF IInv, TypeOK
  <2>3. KUN * (d + 1) \in Nat  BY <2>2, KunL
  <2>4. Qolgan(o) < KUN * (d + 1)  BY <2>2, <2>3, <1>5 DEF Qolgan
  <2>5. KunQoldi(o, d)  BY <2>1, <2>4, QolganL DEF KunQoldi
  <2>6. Qolgan(o) > 0 /\ Qolgan(o) \in Int  BY <2>1, <2>2 DEF MuddatiOtgan, Qolgan
  <2>7. PICK e \in Eslatmalar : ~(e <= d)  BY DEF Uzoq
  <2>8. e \in Nat /\ d + 1 \in Nat /\ d + 1 <= e  BY <2>2, <2>7, ObunaFarazi
  <2>9. KUN * (d + 1) <= KUN * e /\ KUN * e \in Nat  BY <2>8, KunL
  <2>10. Qolgan(o) <= KUN * e  BY <2>3, <2>4, <2>6, <2>9
  <2>. QED  BY <2>1, <2>5, <2>6, <2>10 DEF Kerak, Yaqin
<1>. QED  BY <1>8, <1>10, <1>11, <1>13, <1>14 DEF IInv, BazaInv

LEMMA YuborishL == IInv /\ EslatmaYuboriladi => IInv'
<1>. SUFFICES ASSUME IInv, EslatmaYuboriladi PROVE IInv'  OBVIOUS
<1>1. PICK e \in vazifa : vazifa' = vazifa \ {e}
                          /\ keldi' \in {keldi, [keldi EXCEPT ![e[1]][e[2]] = @ + 1]}
  BY DEF EslatmaYuboriladi
<1>2. UNCHANGED <<vaqt, tolov, obuna, shakl, chek, amal, yurdi>>  BY DEF EslatmaYuboriladi, baza
<1>3. PICK k \in Oid, c \in Eslatmalar : e = <<k, c>>  BY DEF IInv, TypeOK
<1>4. keldi \in [Oid -> [Eslatmalar -> Nat]]  BY DEF IInv, TypeOK
<1>5. c \in obuna[k].eslatma /\ keldi[k][c] = 0  BY <1>3 DEF IInv, BazaInv, EslatmaInv
<1>6. /\ keldi' \in [Oid -> [Eslatmalar -> Nat]]
      /\ keldi'[k][c] <= 1
      /\ \A o \in Oid, d \in Eslatmalar : (o # k \/ d # c) => keldi'[o][d] = keldi[o][d]
  <2>1. CASE keldi' = keldi  BY <2>1, <1>4, <1>5
  <2>2. CASE keldi' = [keldi EXCEPT ![e[1]][e[2]] = @ + 1]
    <3>. DEFINE f == [keldi[k] EXCEPT ![c] = @ + 1]
    <3>1. keldi' = [keldi EXCEPT ![k] = f]  BY <2>2, <1>3
    <3>2. keldi[k] \in [Eslatmalar -> Nat]  BY <1>4
    <3>3. f \in [Eslatmalar -> Nat] /\ f[c] = 1 /\ \A d \in Eslatmalar : d # c => f[d] = keldi[k][d]
      BY <3>2, <1>5
    <3>. HIDE DEF f
    <3>4. keldi' \in [Oid -> [Eslatmalar -> Nat]]  BY <3>1, <3>3, <1>4
    <3>5. \A o \in Oid : keldi'[o] = IF o = k THEN f ELSE keldi[o]  BY <3>1, <1>4
    <3>. QED  BY <3>3, <3>4, <3>5
  <2>. QED  BY <1>1, <2>1, <2>2
<1>7. TypeOK'  BY <1>1, <1>2, <1>6 DEF IInv, TypeOK
<1>8. EslatmaInv'
  <2>. SUFFICES ASSUME NEW o \in Oid, NEW d \in Eslatmalar
                PROVE  /\ keldi'[o][d] <= 1
                       /\ keldi'[o][d] > 0 => d \in obuna[o].eslatma
                       /\ <<o, d>> \in vazifa' => d \in obuna[o].eslatma /\ keldi'[o][d] = 0
    BY <1>2 DEF EslatmaInv, IInv, BazaInv
  <2>1. CASE o = k /\ d = c  BY <2>1, <1>1, <1>3, <1>5, <1>6
  <2>2. CASE o # k \/ d # c
    <3>1. keldi'[o][d] = keldi[o][d]  BY <2>2, <1>6
    <3>2. <<o, d>> \in vazifa' => <<o, d>> \in vazifa  BY <1>1
    <3>. QED  BY <3>1, <3>2 DEF IInv, BazaInv, EslatmaInv
  <2>. QED  BY <2>1, <2>2
<1>9. (TasdiqObunali /\ MuddatInv /\ OtmaydiInv)'
  BY <1>2 DEF IInv, BazaInv, TasdiqObunali, MuddatInv, OtmaydiInv
<1>. QED  BY <1>7, <1>8, <1>9 DEF IInv, BazaInv

-----------------------------------------------------------------------------
LEMMA QadamL == IInv /\ [Next]_vars => IInv'
<1>. SUFFICES ASSUME IInv, [Next]_vars PROVE IInv'  OBVIOUS
<1>1. CASE Soat  BY <1>1, SoatL
<1>2. CASE Foydalanuvchi  BY <1>2, FormaL, ChekL DEF Foydalanuvchi
<1>3. CASE Admin
  <2>1. CASE \E h \in Amallar : AmalOqiydi(h, "tasdiq")  BY <2>1, OqishL DEF Korganlar
  <2>2. ASSUME NEW h \in Korganlar, AmalOqiydi(h, "rad") PROVE IInv'  BY <2>2, OqishL
  <2>3. ASSUME NEW h \in Korganlar, RadYozadi(h) PROVE IInv'  BY <2>3, RadL
  <2>4. ASSUME NEW h \in Korganlar, TasdiqYozadi(h) PROVE IInv'  BY <2>4, TasdiqYozL
  <2>5. ASSUME NEW h \in Korganlar, AmalXatosi(h) PROVE IInv'  BY <2>5, OqishL
  <2>. QED  BY <1>3, <2>1, <2>2, <2>3, <2>4, <2>5, SaytTasdiqL, QoidaL DEF Admin
<1>4. CASE VazifaYuradi  BY <1>4, VazifaL
<1>5. CASE EslatmaYuboriladi  BY <1>5, YuborishL
<1>6. CASE Uzilish  BY <1>6, UzilishL
<1>7. CASE UNCHANGED vars
  <2>1. BazaInv'  BY <1>7, BazaL DEF IInv, vars
  <2>2. TypeOK'  BY <1>7 DEF IInv, TypeOK, vars
  <2>. QED  BY <2>1, <2>2 DEF IInv
<1>. QED  BY <1>1, <1>2, <1>3, <1>4, <1>5, <1>6, <1>7 DEF Next

(* Type correctness of the payments, the subscriptions and the task. *)
THEOREM TurTeoremasi == Spec => []TypeOK
<1>1. Init => IInv  BY BoshlanishL
<1>2. IInv /\ [Next]_vars => IInv'  BY QadamL
<1>3. IInv => TypeOK  BY DEF IInv
<1>. QED  BY <1>1, <1>2, <1>3, PTL DEF Spec

(* An approved payment has its subscription, whatever raced with the        *)
(* approval (approve_payment, tolovniTasdiqla).                             *)
THEOREM TasdiqTeoremasi == Spec => []TasdiqObunali
<1>1. Init => IInv  BY BoshlanishL
<1>2. IInv /\ [Next]_vars => IInv'  BY QadamL
<1>3. IInv => TasdiqObunali  BY DEF IInv, BazaInv
<1>. QED  BY <1>1, <1>2, <1>3, PTL DEF Spec

(* What has run out is closed by the task's next run (expire_overdue).      *)
THEOREM MuddatTeoremasi == Spec => []MuddatidaYopiladi
<1>1. Init => IInv  BY BoshlanishL
<1>2. IInv /\ [Next]_vars => IInv'  BY QadamL
<1>3. IInv => MuddatidaYopiladi
  <2>. SUFFICES ASSUME IInv, NEW o \in Oid, obuna[o].holat = "active"
                PROVE  vaqt <= obuna[o].tugash + Oraliq
    BY DEF MuddatidaYopiladi
  <2>1. yurdi < obuna[o].tugash  BY DEF IInv, BazaInv, MuddatInv
  <2>2. vaqt \in Nat /\ yurdi \in Nat /\ vaqt <= yurdi + Oraliq /\ obuna[o].tugash \in Nat
    BY DEF IInv, TypeOK
  <2>. QED  BY <2>1, <2>2, ObunaFarazi
<1>. QED  BY <1>1, <1>2, <1>3, PTL DEF Spec

(* No reminder is sent twice (mark_reminder_sent before send_message).      *)
THEOREM BirMartaTeoremasi == Spec => []EslatmaBirMarta
<1>1. Init => IInv  BY BoshlanishL
<1>2. IInv /\ [Next]_vars => IInv'  BY QadamL
<1>3. IInv => EslatmaBirMarta  BY DEF IInv, BazaInv, EslatmaInv, EslatmaBirMarta
<1>. QED  BY <1>1, <1>2, <1>3, PTL DEF Spec

(* A task that runs at least once a day misses no reminder but that of the  *)
(* longest day (expiring_soon, due_reminders).                              *)
THEOREM OtmaydiTeoremasi == Spec => []EslatmaOtmaydi
<1>1. Init => IInv  BY BoshlanishL
<1>2. IInv /\ [Next]_vars => IInv'  BY QadamL
<1>3. IInv => EslatmaOtmaydi
  <2>. SUFFICES ASSUME IInv, NEW o \in Oid, NEW d \in Eslatmalar, obuna[o].holat = "active",
                       ~obuna[o].sinov, ~Uzoq(d), Qolgan(o) < KUN * d, d \notin obuna[o].eslatma
                PROVE  FALSE
    BY DEF EslatmaOtmaydi
  <2>1. KUN * d <= Qolgan(o)  BY QolganL
  <2>2. KUN * d \in Nat /\ Qolgan(o) \in Int
    BY ObunaFarazi, KunL DEF IInv, TypeOK, Qolgan
  <2>. QED  BY <2>1, <2>2
<1>. QED  BY <1>1, <1>2, <1>3, PTL DEF Spec

(* A reminder comes once, and none but the longest day's is missed            *)
(* (core/services/subscription.py, _remind).                                   *)
THEOREM EslatmaTeoremasi == Spec => []EslatmaTogri
  BY BirMartaTeoremasi, OtmaydiTeoremasi, PTL DEF EslatmaTogri
=============================================================================
