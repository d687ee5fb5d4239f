--------------------------- MODULE TarqatishIsboti ---------------------------
(***************************************************************************)
(* Proofs about Tarqatish: nobody is skipped and no stranger is served,    *)
(* for every number of users, signals, presses and failures; and about     *)
(* Kartochka: what the cards show and the results say.                     *)
(***************************************************************************)
EXTENDS Tarqatish, Kartochka, FiniteSetTheorems, WellFoundedInduction, TLAPS

(* A handler that is sending has a row, its list holds everyone who must    *)
(* still get it, and nobody who never was a subscriber.                     *)
BotInv(h) ==
    bot[h].joy = "yuborish" =>
        /\ bot[h].id \in Id
        /\ qatorlar[bot[h].id] # "yoq"
        /\ doimiy[bot[h].id] \subseteq urindi[bot[h].id] \cup bot[h].qolgan
        /\ bot[h].qolgan \subseteq boldi[bot[h].id]

(* The same of the worker, for the row it is at and the rows after it.      *)
IshchiInv ==
    /\ ishchi.qolgan \subseteq ishchi.royxat
    /\ \A i \in ishchi.navbat :
          /\ qatorlar[i] # "yoq"
          /\ doimiy[i] \subseteq ishchi.royxat
          /\ ishchi.royxat \subseteq boldi[i]
          /\ Joriy(i) => doimiy[i] \subseteq urindi[i] \cup ishchi.qolgan

(* Who has been a subscriber since the row was made is one now; who is one  *)
(* now has been one since then.                                             *)
AzolikInv ==
    \A i \in Id :
        IF qatorlar[i] = "yoq" THEN urindi[i] = {} /\ doimiy[i] = {} /\ boldi[i] = {}
        ELSE doimiy[i] \subseteq obunachi /\ obunachi \subseteq boldi[i]

IInv ==
    /\ TarqTypeOK
    /\ AzolikInv
    /\ \A h \in Bosishlar : BotInv(h)
    /\ IshchiInv
    /\ BelgilanganUrindi
    /\ BegonaOlmaydi

LEMMA BoshlanishL == TarqInit => IInv
  BY TarqatishFarazi DEF TarqInit, IInv, TarqTypeOK, AzolikInv, BotInv, IshchiInv, BelgilanganUrindi,
     BegonaOlmaydi, BoshBot, BoshIshchi, Id, QatorHolati, Bor, OchiqQatorlar, kuzatuv, azolik

-----------------------------------------------------------------------------
(* What a new row does to the parts of the invariant that speak of rows. *)
LEMMA QatorL ==
  ASSUME IInv, NEW k \in Id, QatorYarat(k), UNCHANGED <<belgi, obunachi, ishchi, kuzatuv>>
  PROVE  /\ qatorlar' \in [Id -> QatorHolati]
         /\ doimiy' \in [Id -> SUBSET Odamlar]
         /\ boldi' \in [Id -> SUBSET Odamlar]
         /\ qatorlar'[k] = "pending" /\ doimiy'[k] = obunachi /\ boldi'[k] = obunachi
         /\ urindi[k] = {}
         /\ \A i \in Id : i # k => qatorlar'[i] = qatorlar[i] /\ doimiy'[i] = doimiy[i] /\ boldi'[i] = boldi[i]
         /\ k \notin belgi /\ k \notin ishchi.navbat
         /\ \A i \in belgi : qatorlar'[i] # "yoq"
         /\ AzolikInv' /\ IshchiInv' /\ BelgilanganUrindi' /\ BegonaOlmaydi'
<1>1. /\ qatorlar[k] = "yoq"
      /\ qatorlar' = [qatorlar EXCEPT ![k] = "pending"]
      /\ doimiy' = [doimiy EXCEPT ![k] = obunachi]
      /\ boldi' = [boldi EXCEPT ![k] = obunachi]
  BY DEF QatorYarat, YangiId
<1>2. /\ qatorlar' \in [Id -> QatorHolati]
      /\ doimiy' \in [Id -> SUBSET Odamlar]
      /\ boldi' \in [Id -> SUBSET Odamlar]
      /\ qatorlar'[k] = "pending" /\ doimiy'[k] = obunachi /\ boldi'[k] = obunachi
      /\ \A i \in Id : i # k => qatorlar'[i] = qatorlar[i] /\ doimiy'[i] = doimiy[i] /\ boldi'[i] = boldi[i]
  BY <1>1 DEF IInv, TarqTypeOK, QatorHolati, Bor, OchiqQatorlar
<1>3. k \notin belgi /\ k \notin ishchi.navbat /\ urindi[k] = {} /\ boldi[k] = {}
  BY <1>1 DEF IInv, TarqTypeOK, IshchiInv, AzolikInv
<1>4. belgi \subseteq Id /\ ishchi.navbat \subseteq Id
  BY DEF IInv, TarqTypeOK
<1>5. \A i \in belgi : qatorlar'[i] # "yoq"
  BY <1>2, <1>3, <1>4 DEF IInv, TarqTypeOK
<1>6. AzolikInv'
  BY <1>2 DEF IInv, AzolikInv, kuzatuv
<1>7. IshchiInv'
  BY <1>2, <1>3, <1>4 DEF IInv, IshchiInv, Joriy, kuzatuv
<1>8. BelgilanganUrindi'
  BY <1>2, <1>3, <1>4 DEF IInv, BelgilanganUrindi, kuzatuv
<1>9. BegonaOlmaydi'
  BY <1>1, <1>2, <1>3 DEF IInv, BegonaOlmaydi, kuzatuv
<1>. QED  BY <1>2, <1>3, <1>5, <1>6, <1>7, <1>8, <1>9

LEMMA SaytYaratadiL == IInv /\ SaytYaratadi => IInv'
<1>. SUFFICES ASSUME IInv, SaytYaratadi PROVE IInv'  OBVIOUS
<1>1. PICK k \in Id : QatorYarat(k)  BY DEF SaytYaratadi
<1>2. UNCHANGED <<belgi, obunachi, shakl, bot, ishchi, uzilish, keldi, urindi>>
  BY DEF SaytYaratadi, kuzatuv
<1>3. qatorlar[k] = "yoq"  BY <1>1 DEF QatorYarat, YangiId
<1>4. TarqTypeOK'  BY <1>1, <1>2, QatorL DEF IInv, TarqTypeOK, kuzatuv
<1>5. \A h \in Bosishlar : BotInv(h)'
  BY <1>1, <1>2, <1>3, QatorL DEF IInv, BotInv, kuzatuv
<1>. QED  BY <1>1, <1>2, <1>4, <1>5, QatorL DEF IInv, kuzatuv

LEMMA BotBoshlaydiL == ASSUME NEW h \in Bosishlar, IInv, BotBoshlaydi(h) PROVE IInv'
<1>1. PICK k \in Id : /\ QatorYarat(k)
                      /\ bot' = [bot EXCEPT ![h] = [joy |-> "yuborish", id |-> k, qolgan |-> obunachi]]
  BY DEF BotBoshlaydi
<1>2. UNCHANGED <<belgi, obunachi, shakl, ishchi, uzilish, keldi, urindi>>
  BY DEF BotBoshlaydi, kuzatuv
<1>3. qatorlar[k] = "yoq"  BY <1>1 DEF QatorYarat, YangiId
<1>4. TarqTypeOK'  BY <1>1, <1>2, QatorL DEF IInv, TarqTypeOK, kuzatuv
<1>5. ASSUME NEW g \in Bosishlar PROVE BotInv(g)'
  <2>1. CASE g = h
    <3>1. bot'[g] = [joy |-> "yuborish", id |-> k, qolgan |-> obunachi]
      BY <1>1, <2>1 DEF IInv, TarqTypeOK
    <3>. QED  BY <3>1, <1>1, <1>2, QatorL DEF BotInv, kuzatuv
  <2>2. CASE g # h
    <3>1. bot'[g] = bot[g]  BY <1>1, <2>2 DEF IInv, TarqTypeOK
    <3>. QED  BY <3>1, <1>1, <1>2, <1>3, QatorL DEF IInv, BotInv, kuzatuv
  <2>. QED  BY <2>1, <2>2
<1>. QED  BY <1>1, <1>2, <1>4, <1>5, QatorL DEF IInv, kuzatuv

-----------------------------------------------------------------------------
LEMMA HolatL ==
  ASSUME IInv, HolatOzgaradi \/ SaytOchiradi
  PROVE  IInv'
<1>1. PICK k \in Id, g \in {"active", "yopiq", "ochirilgan"} :
        qatorlar[k] # "yoq" /\ qatorlar' = [qatorlar EXCEPT ![k] = g]
  BY DEF HolatOzgaradi, SaytOchiradi, OchiqQatorlar, Bor
<1>2. UNCHANGED <<belgi, obunachi, doimiy, boldi, shakl, bot, ishchi, uzilish, keldi, urindi>>
  BY DEF HolatOzgaradi, SaytOchiradi, azolik, kuzatuv
<1>3. qatorlar' \in [Id -> QatorHolati] /\ \A i \in Id : (qatorlar'[i] = "yoq") <=> (qatorlar[i] = "yoq")
  BY <1>1 DEF IInv, TarqTypeOK, QatorHolati, Bor, OchiqQatorlar
<1>4. TarqTypeOK'  BY <1>2, <1>3 DEF IInv, TarqTypeOK
<1>5. ishchi.navbat \subseteq Id  BY DEF IInv, TarqTypeOK
<1>6. AzolikInv' /\ BelgilanganUrindi' /\ BegonaOlmaydi'
  BY <1>2, <1>3 DEF IInv, AzolikInv, BelgilanganUrindi, BegonaOlmaydi
<1>7. IshchiInv'  BY <1>2, <1>3, <1>5 DEF IInv, IshchiInv, Joriy
<1>8. \A h \in Bosishlar : BotInv(h)'  BY <1>2, <1>3 DEF IInv, BotInv
<1>. QED  BY <1>4, <1>6, <1>7, <1>8 DEF IInv

LEMMA ObunaOlindiL == ASSUME NEW u \in Odamlar, IInv, ObunaOlindi(u) PROVE IInv'
<1>1. /\ obunachi' = obunachi \cup {u}
      /\ boldi' = [i \in Id |-> IF qatorlar[i] = "yoq" THEN boldi[i] ELSE boldi[i] \cup {u}]
      /\ UNCHANGED <<qatorlar, belgi, doimiy, shakl, bot, ishchi, uzilish, keldi, urindi>>
  BY DEF ObunaOlindi, kuzatuv
<1>2. /\ boldi' \in [Id -> SUBSET Odamlar]
      /\ \A i \in Id : boldi[i] \subseteq boldi'[i]
      /\ \A i \in Id : qatorlar[i] = "yoq" => boldi'[i] = boldi[i]
  BY <1>1 DEF IInv, TarqTypeOK
<1>3. TarqTypeOK'  BY <1>1, <1>2 DEF IInv, TarqTypeOK
<1>4. ishchi.navbat \subseteq Id  BY DEF IInv, TarqTypeOK
<1>5. AzolikInv' /\ BelgilanganUrindi'  BY <1>1, <1>2 DEF IInv, AzolikInv, BelgilanganUrindi
<1>6. BegonaOlmaydi'  BY <1>1, <1>2 DEF IInv, BegonaOlmaydi
<1>7. IshchiInv'  BY <1>1, <1>2, <1>4 DEF IInv, IshchiInv, Joriy
<1>8. \A h \in Bosishlar : BotInv(h)'  BY <1>1, <1>2 DEF IInv, BotInv
<1>. QED  BY <1>3, <1>5, <1>6, <1>7, <1>8 DEF IInv

LEMMA ObunaTugadiL == ASSUME NEW u \in Odamlar, IInv, ObunaTugadi(u) PROVE IInv'
<1>1. /\ obunachi' = obunachi \ {u}
      /\ doimiy' = [i \in Id |-> doimiy[i] \ {u}]
      /\ UNCHANGED <<qatorlar, belgi, boldi, shakl, bot, ishchi, uzilish, keldi, urindi>>
  BY DEF ObunaTugadi, kuzatuv
<1>2. doimiy' \in [Id -> SUBSET Odamlar] /\ \A i \in Id : doimiy'[i] \subseteq doimiy[i]
  BY <1>1 DEF IInv, TarqTypeOK
<1>3. TarqTypeOK'  BY <1>1, <1>2 DEF IInv, TarqTypeOK
<1>4. ishchi.navbat \subseteq Id /\ belgi \subseteq Id  BY DEF IInv, TarqTypeOK
<1>5. AzolikInv' /\ BelgilanganUrindi' /\ BegonaOlmaydi'
  BY <1>1, <1>2, <1>4 DEF IInv, AzolikInv, BelgilanganUrindi, BegonaOlmaydi
<1>6. IshchiInv'  BY <1>1, <1>2, <1>4 DEF IInv, IshchiInv, Joriy
<1>7. \A h \in Bosishlar : BotInv(h)'  BY <1>1, <1>2 DEF IInv, BotInv
<1>. QED  BY <1>3, <1>5, <1>6, <1>7 DEF IInv

-----------------------------------------------------------------------------
(* A message adds the user to urindi and counts at most one arrival. *)
LEMMA YuborL ==
  ASSUME IInv, NEW k \in Id, NEW u \in Odamlar, Yubor(k, u), u \in boldi[k],
         UNCHANGED <<qatorlar, belgi, obunachi, doimiy, boldi>>
  PROVE  /\ urindi' \in [Id -> SUBSET Odamlar]
         /\ keldi' \in [Id -> [Odamlar -> Nat]]
         /\ urindi'[k] = urindi[k] \cup {u}
         /\ \A i \in Id : i # k => urindi'[i] = urindi[i]
         /\ BelgilanganUrindi' /\ BegonaOlmaydi'
<1>1. /\ urindi' = [urindi EXCEPT ![k] = @ \cup {u}]
      /\ keldi' \in {keldi, [keldi EXCEPT ![k][u] = @ + 1]}
  BY DEF Yubor
<1>2. /\ urindi' \in [Id -> SUBSET Odamlar]
      /\ urindi'[k] = urindi[k] \cup {u}
      /\ \A i \in Id : i # k => urindi'[i] = urindi[i]
  BY <1>1 DEF IInv, TarqTypeOK
<1>3. /\ keldi' \in [Id -> [Odamlar -> Nat]]
      /\ \A i \in Id, w \in Odamlar : (i # k \/ w # u) => keldi'[i][w] = keldi[i][w]
  <2>1. keldi \in [Id -> [Odamlar -> Nat]]  BY DEF IInv, TarqTypeOK
  <2>2. CASE keldi' = keldi  BY <2>1, <2>2
  <2>3. CASE keldi' = [keldi EXCEPT ![k][u] = @ + 1]
    <3>1. [keldi[k] EXCEPT ![u] = @ + 1] \in [Odamlar -> Nat]  BY <2>1
    <3>2. \A i \in Id : keldi'[i] = IF i = k THEN [keldi[k] EXCEPT ![u] = @ + 1] ELSE keldi[i]
      BY <2>1, <2>3
    <3>3. keldi' \in [Id -> [Odamlar -> Nat]]  BY <2>1, <2>3, <3>1
    <3>4. \A w \in Odamlar : w # u => [keldi[k] EXCEPT ![u] = @ + 1][w] = keldi[k][w]  BY <2>1
    <3>. QED  BY <3>2, <3>3, <3>4
  <2>. QED  BY <1>1, <2>2, <2>3
<1>4. BelgilanganUrindi'  BY <1>2 DEF IInv, TarqTypeOK, BelgilanganUrindi
<1>5. BegonaOlmaydi'  BY <1>3 DEF IInv, BegonaOlmaydi
<1>. QED  BY <1>2, <1>3, <1>4, <1>5

LEMMA BotYuboradiL == ASSUME NEW h \in Bosishlar, IInv, BotYuboradi(h) PROVE IInv'
<1>1. PICK u \in bot[h].qolgan : Yubor(bot[h].id, u) /\ bot' = [bot EXCEPT ![h].qolgan = @ \ {u}]
  BY DEF BotYuboradi
<1>2. /\ bot[h].joy = "yuborish"
      /\ UNCHANGED <<qatorlar, belgi, obunachi, doimiy, boldi, shakl, ishchi, uzilish>>
  BY DEF BotYuboradi, azolik
<1>. DEFINE k == bot[h].id
<1>3. k \in Id /\ qatorlar[k] # "yoq" /\ bot[h].qolgan \subseteq boldi[k]
  BY <1>2 DEF IInv, BotInv
<1>4. u \in Odamlar /\ u \in boldi[k]  BY <1>1, <1>3 DEF IInv, TarqTypeOK
<1>5. Yubor(k, u)  BY <1>1
<1>. HIDE DEF k
<1>6. /\ urindi' \in [Id -> SUBSET Odamlar]
      /\ keldi' \in [Id -> [Odamlar -> Nat]]
      /\ urindi'[k] = urindi[k] \cup {u}
      /\ \A i \in Id : i # k => urindi'[i] = urindi[i]
      /\ BelgilanganUrindi' /\ BegonaOlmaydi'
  BY <1>2, <1>3, <1>4, <1>5, YuborL
<1>7. bot' \in [Bosishlar -> [joy : {"bosh", "yuborish", "tamom"}, id : Id \cup {0}, qolgan : SUBSET Odamlar]]
  BY <1>1 DEF IInv, TarqTypeOK
<1>8. TarqTypeOK'  BY <1>2, <1>6, <1>7 DEF IInv, TarqTypeOK
<1>9. AzolikInv'  BY <1>2, <1>3, <1>6 DEF IInv, AzolikInv
<1>10. \A i \in Id : urindi[i] \subseteq urindi'[i]  BY <1>3, <1>6
<1>11. ishchi.navbat \subseteq Id  BY DEF IInv, TarqTypeOK
<1>12. IshchiInv'  BY <1>2, <1>10, <1>11 DEF IInv, IshchiInv, Joriy
<1>13. ASSUME NEW g \in Bosishlar PROVE BotInv(g)'
  <2>1. CASE g = h
    <3>1. bot'[g] = [bot[g] EXCEPT !.qolgan = @ \ {u}]  BY <1>1, <2>1 DEF IInv, TarqTypeOK
    <3>2. bot'[g].id = k /\ bot'[g].qolgan = bot[h].qolgan \ {u}
      BY <3>1, <2>1 DEF IInv, TarqTypeOK, k
    <3>3. doimiy[k] \subseteq urindi[k] \cup bot[h].qolgan  BY <1>2 DEF IInv, BotInv, k
    <3>. QED  BY <3>2, <3>3, <1>2, <1>3, <1>6 DEF BotInv
  <2>2. CASE g # h
    <3>1. bot'[g] = bot[g]  BY <1>1, <2>2 DEF IInv, TarqTypeOK
    <3>. QED  BY <3>1, <1>2, <1>10 DEF IInv, BotInv
  <2>. QED  BY <2>1, <2>2
<1>. QED  BY <1>6, <1>8, <1>9, <1>12, <1>13 DEF IInv

LEMMA IshchiYuboradiL == IInv /\ IshchiYuboradi => IInv'
<1>. SUFFICES ASSUME IInv, IshchiYuboradi PROVE IInv'  OBVIOUS
<1>1. PICK k \in Id, u \in ishchi.qolgan :
        Joriy(k) /\ Yubor(k, u) /\ ishchi' = [ishchi EXCEPT !.qolgan = @ \ {u}]
  BY DEF IshchiYuboradi
<1>2. UNCHANGED <<qatorlar, belgi, obunachi, doimiy, boldi, shakl, bot, uzilish>>
  BY DEF IshchiYuboradi, azolik
<1>3. k \in ishchi.navbat /\ qatorlar[k] # "yoq"  BY <1>1 DEF Joriy, IInv, IshchiInv
<1>4. u \in Odamlar /\ u \in boldi[k]  BY <1>1, <1>3 DEF IInv, TarqTypeOK, IshchiInv
<1>5. /\ urindi' \in [Id -> SUBSET Odamlar]
      /\ keldi' \in [Id -> [Odamlar -> Nat]]
      /\ urindi'[k] = urindi[k] \cup {u}
      /\ \A i \in Id : i # k => urindi'[i] = urindi[i]
      /\ BelgilanganUrindi' /\ BegonaOlmaydi'
  BY <1>1, <1>2, <1>4, YuborL
<1>6. /\ ishchi'.joy = ishchi.joy /\ ishchi'.navbat = ishchi.navbat
      /\ ishchi'.royxat = ishchi.royxat /\ ishchi'.qolgan = ishchi.qolgan \ {u}
      /\ ishchi' \in [joy : {"bosh", "yuborish"}, navbat : SUBSET Id,
                      royxat : SUBSET Odamlar, qolgan : SUBSET Odamlar]
  BY <1>1 DEF IInv, TarqTypeOK
<1>7. TarqTypeOK'  BY <1>2, <1>5, <1>6 DEF IInv, TarqTypeOK
<1>8. AzolikInv'  BY <1>2, <1>3, <1>5 DEF IInv, AzolikInv
<1>9. \A h \in Bosishlar : BotInv(h)'
  <2>1. \A i \in Id : urindi[i] \subseteq urindi'[i]  BY <1>5
  <2>. QED  BY <2>1, <1>2 DEF IInv, BotInv
<1>10. ishchi'.qolgan \subseteq ishchi'.royxat  BY <1>6 DEF IInv, IshchiInv
<1>11. ASSUME NEW i \in ishchi'.navbat
       PROVE  /\ qatorlar'[i] # "yoq"
              /\ doimiy'[i] \subseteq ishchi'.royxat
              /\ ishchi'.royxat \subseteq boldi'[i]
              /\ Joriy(i)' => doimiy'[i] \subseteq urindi'[i] \cup ishchi'.qolgan
  <2>1. i \in ishchi.navbat /\ i \in Id  BY <1>6 DEF IInv, TarqTypeOK
  <2>2. Joriy(i)' => i = k  BY <2>1, <1>1, <1>6 DEF Joriy, Id
  <2>3. doimiy[k] \subseteq urindi[k] \cup ishchi.qolgan  BY <1>1, <1>3 DEF IInv, IshchiInv
  <2>. QED  BY <2>1, <2>2, <2>3, <1>2, <1>5, <1>6 DEF IInv, IshchiInv
<1>12. IshchiInv'  BY <1>10, <1>11 DEF IshchiInv
<1>. QED  BY <1>5, <1>7, <1>8, <1>9, <1>12 DEF IInv

-----------------------------------------------------------------------------
LEMMA BelgiL ==
  ASSUME IInv, NEW k \in Id, Belgilanadi(k), doimiy[k] \subseteq urindi[k],
         UNCHANGED <<qatorlar, doimiy, urindi>>
  PROVE  /\ belgi' \subseteq Id
         /\ \A i \in belgi' : qatorlar'[i] # "yoq"
         /\ BelgilanganUrindi'
  BY DEF Belgilanadi, IInv, TarqTypeOK, BelgilanganUrindi, Bor, OchiqQatorlar

LEMMA BotBelgilaydiL == ASSUME NEW h \in Bosishlar, IInv, BotBelgilaydi(h) PROVE IInv'
<1>1. /\ bot[h].joy = "yuborish" /\ bot[h].qolgan = {}
      /\ Belgilanadi(bot[h].id)
      /\ bot' = [bot EXCEPT ![h].joy = "tamom"]
      /\ shakl' = FALSE
      /\ UNCHANGED <<qatorlar, obunachi, doimiy, boldi, ishchi, uzilish, keldi, urindi>>
  BY DEF BotBelgilaydi, azolik, kuzatuv
<1>2. bot[h].id \in Id /\ doimiy[bot[h].id] \subseteq urindi[bot[h].id]
  BY <1>1 DEF IInv, BotInv
<1>3. belgi' \subseteq Id /\ (\A i \in belgi' : qatorlar'[i] # "yoq") /\ BelgilanganUrindi'
  BY <1>1, <1>2, BelgiL
<1>. DEFINE BotTuri == [joy : {"bosh", "yuborish", "tamom"}, id : Id \cup {0}, qolgan : SUBSET Odamlar]
<1>a. bot \in [Bosishlar -> BotTuri]  BY DEF IInv, TarqTypeOK
<1>b. [bot[h] EXCEPT !.joy = "tamom"] \in BotTuri  BY <1>a
<1>. HIDE DEF BotTuri
<1>c. bot' \in [Bosishlar -> BotTuri]  BY <1>1, <1>a, <1>b
<1>d. shakl' \in BOOLEAN  BY <1>1
<1>4. TarqTypeOK'  BY <1>1, <1>3, <1>c, <1>d DEF IInv, TarqTypeOK, BotTuri
<1>5. \A g \in Bosishlar : bot'[g].joy = "yuborish" => bot'[g] = bot[g]
  BY <1>1 DEF IInv, TarqTypeOK
<1>6. \A g \in Bosishlar : BotInv(g)'  BY <1>1, <1>5 DEF IInv, BotInv
<1>7. AzolikInv' /\ IshchiInv' /\ BegonaOlmaydi'
  BY <1>1 DEF IInv, AzolikInv, IshchiInv, Joriy, BegonaOlmaydi
<1>. QED  BY <1>3, <1>4, <1>6, <1>7 DEF IInv

LEMMA BotXatosiL == ASSUME NEW h \in Bosishlar, IInv, BotXatosi(h) PROVE IInv'
<1>1. /\ bot' = [bot EXCEPT ![h].joy = "tamom"]
      /\ UNCHANGED <<qatorlar, belgi, obunachi, doimiy, boldi, shakl, ishchi, keldi, urindi>>
  BY DEF BotXatosi, azolik, kuzatuv
<1>. DEFINE BotTuri == [joy : {"bosh", "yuborish", "tamom"}, id : Id \cup {0}, qolgan : SUBSET Odamlar]
<1>a. bot \in [Bosishlar -> BotTuri]  BY DEF IInv, TarqTypeOK
<1>b. [bot[h] EXCEPT !.joy = "tamom"] \in BotTuri  BY <1>a
<1>. HIDE DEF BotTuri
<1>c. bot' \in [Bosishlar -> BotTuri]  BY <1>1, <1>a, <1>b
<1>d. uzilish \in 0..MaxUzilish  BY DEF IInv, TarqTypeOK
<1>e. uzilish < MaxUzilish /\ uzilish' = uzilish + 1  BY DEF BotXatosi
<1>2. uzilish' \in 0..MaxUzilish  BY <1>d, <1>e, TarqatishFarazi
<1>3. TarqTypeOK'  BY <1>1, <1>2, <1>c DEF IInv, TarqTypeOK, BotTuri
<1>4. \A g \in Bosishlar : bot'[g].joy = "yuborish" => bot'[g] = bot[g]
  BY <1>1 DEF IInv, TarqTypeOK
<1>5. \A g \in Bosishlar : BotInv(g)'  BY <1>1, <1>4 DEF IInv, BotInv
<1>6. AzolikInv' /\ IshchiInv' /\ BelgilanganUrindi' /\ BegonaOlmaydi'
  BY <1>1 DEF IInv, AzolikInv, IshchiInv, Joriy, BelgilanganUrindi, BegonaOlmaydi
<1>. QED  BY <1>3, <1>5, <1>6 DEF IInv

LEMMA IshchiOqiydiL == IInv /\ IshchiOqiydi => IInv'
<1>. SUFFICES ASSUME IInv, IshchiOqiydi PROVE IInv'  OBVIOUS
<1>1. /\ Navbat # {}
      /\ ishchi' = [joy |-> "yuborish", navbat |-> Navbat, royxat |-> obunachi, qolgan |-> obunachi]
      /\ UNCHANGED <<qatorlar, belgi, obunachi, doimiy, boldi, shakl, bot, uzilish, keldi, urindi>>
  BY DEF IshchiOqiydi, Royxat, azolik, kuzatuv
<1>2. Navbat \subseteq Id /\ \A i \in Navbat : qatorlar[i] # "yoq"
  BY DEF Navbat, Kutayotgan, OchiqQatorlar
<1>3. TarqTypeOK'  BY <1>1, <1>2 DEF IInv, TarqTypeOK
<1>4. \A i \in Id : qatorlar[i] # "yoq" => doimiy[i] \subseteq obunachi /\ obunachi \subseteq boldi[i]
  BY DEF IInv, AzolikInv
<1>5. IshchiInv'  BY <1>1, <1>2, <1>4 DEF IshchiInv
<1>6. AzolikInv' /\ BegonaOlmaydi' /\ BelgilanganUrindi' /\ \A h \in Bosishlar : BotInv(h)'
  BY <1>1 DEF IInv, AzolikInv, BegonaOlmaydi, BelgilanganUrindi, BotInv
<1>. QED  BY <1>3, <1>5, <1>6 DEF IInv

LEMMA IshchiBelgilaydiL == IInv /\ IshchiBelgilaydi => IInv'
<1>. SUFFICES ASSUME IInv, IshchiBelgilaydi PROVE IInv'  OBVIOUS
<1>1. PICK k \in Id :
        /\ Joriy(k)
        /\ Belgilanadi(k)
        /\ ishchi' = IF ishchi.navbat = {k} THEN BoshIshchi
                     ELSE [ishchi EXCEPT !.navbat = @ \ {k}, !.qolgan = ishchi.royxat]
  BY DEF IshchiBelgilaydi
<1>2. /\ ishchi.joy = "yuborish" /\ ishchi.qolgan = {}
      /\ UNCHANGED <<qatorlar, obunachi, doimiy, boldi, shakl, bot, uzilish, keldi, urindi>>
  BY DEF IshchiBelgilaydi, azolik, kuzatuv
<1>3. k \in ishchi.navbat  BY <1>1 DEF Joriy
<1>4. doimiy[k] \subseteq urindi[k]  BY <1>1, <1>2, <1>3 DEF IInv, IshchiInv
<1>5. belgi' \subseteq Id /\ (\A i \in belgi' : qatorlar'[i] # "yoq") /\ BelgilanganUrindi'
  BY <1>1, <1>2, <1>4, BelgiL
<1>6. AzolikInv' /\ BegonaOlmaydi' /\ \A h \in Bosishlar : BotInv(h)'
  BY <1>2 DEF IInv, AzolikInv, BegonaOlmaydi, BotInv
<1>7. CASE ishchi.navbat = {k}
  <2>1. ishchi' = BoshIshchi  BY <1>1, <1>7
  <2>2. TarqTypeOK'  BY <2>1, <1>2, <1>5 DEF IInv, TarqTypeOK, BoshIshchi
  <2>3. IshchiInv'  BY <2>1 DEF IshchiInv, BoshIshchi
  <2>. QED  BY <2>2, <2>3, <1>5, <1>6 DEF IInv
<1>8. CASE ishchi.navbat # {k}
  <2>1. ishchi' = [ishchi EXCEPT !.navbat = @ \ {k}, !.qolgan = ishchi.royxat]  BY <1>1, <1>8
  <2>2. /\ ishchi'.joy = "yuborish" /\ ishchi'.navbat = ishchi.navbat \ {k}
        /\ ishchi'.royxat = ishchi.royxat /\ ishchi'.qolgan = ishchi.royxat
        /\ ishchi' \in [joy : {"bosh", "yuborish"}, navbat : SUBSET Id,
                        royxat : SUBSET Odamlar, qolgan : SUBSET Odamlar]
    BY <2>1, <1>2 DEF IInv, TarqTypeOK
  <2>3. ishchi'.navbat # {}  BY <2>2, <1>3, <1>8
  <2>4. TarqTypeOK'  BY <2>2, <2>3, <1>2, <1>5 DEF IInv, TarqTypeOK
  <2>5. IshchiInv'  BY <2>2, <1>2 DEF IInv, IshchiInv
  <2>. QED  BY <2>4, <2>5, <1>5, <1>6 DEF IInv
<1>. QED  BY <1>7, <1>8

LEMMA IshchiXatosiL == IInv /\ IshchiXatosi => IInv'
<1>. SUFFICES ASSUME IInv, IshchiXatosi PROVE IInv'  OBVIOUS
<1>1. /\ uzilish < MaxUzilish /\ uzilish' = uzilish + 1
      /\ ishchi' = BoshIshchi
      /\ UNCHANGED <<qatorlar, belgi, obunachi, doimiy, boldi, shakl, bot, keldi, urindi>>
  BY DEF IshchiXatosi, azolik, kuzatuv
<1>2. uzilish' \in 0..MaxUzilish  BY <1>1, TarqatishFarazi DEF IInv, TarqTypeOK
<1>3. TarqTypeOK'  BY <1>1, <1>2 DEF IInv, TarqTypeOK, BoshIshchi
<1>4. IshchiInv'  BY <1>1 DEF IshchiInv, BoshIshchi
<1>5. AzolikInv' /\ BelgilanganUrindi' /\ BegonaOlmaydi' /\ \A h \in Bosishlar : BotInv(h)'
  BY <1>1 DEF IInv, AzolikInv, BelgilanganUrindi, BegonaOlmaydi, BotInv
<1>. QED  BY <1>3, <1>4, <1>5 DEF IInv

LEMMA RejaXatosiL == IInv /\ RejaXatosi => IInv'
<1>. SUFFICES ASSUME IInv, RejaXatosi PROVE IInv'  OBVIOUS
<1>1. /\ ishchi' = BoshIshchi
      /\ UNCHANGED <<qatorlar, belgi, obunachi, doimiy, boldi, shakl, bot, uzilish, keldi, urindi>>
  BY DEF RejaXatosi, azolik, kuzatuv
<1>2. TarqTypeOK'  BY <1>1 DEF IInv, TarqTypeOK, BoshIshchi
<1>3. IshchiInv'  BY <1>1 DEF IshchiInv, BoshIshchi
<1>4. AzolikInv' /\ BelgilanganUrindi' /\ BegonaOlmaydi' /\ \A h \in Bosishlar : BotInv(h)'
  BY <1>1 DEF IInv, AzolikInv, BelgilanganUrindi, BegonaOlmaydi, BotInv
<1>. QED  BY <1>2, <1>3, <1>4 DEF IInv

LEMMA UzilishL == IInv /\ BotUzildi => IInv'
<1>. SUFFICES ASSUME IInv, BotUzildi PROVE IInv'  OBVIOUS
<1>1. /\ uzilish < MaxUzilish /\ uzilish' = uzilish + 1
      /\ ishchi' = BoshIshchi
      /\ shakl' = FALSE
      /\ bot' = [h \in Bosishlar |-> IF bot[h].joy = "bosh" THEN BoshBot
                                     ELSE [bot[h] EXCEPT !.joy = "tamom", !.qolgan = {}]]
      /\ UNCHANGED <<qatorlar, belgi, obunachi, doimiy, boldi, keldi, urindi>>
  BY DEF BotUzildi, azolik, kuzatuv
<1>a. uzilish \in 0..MaxUzilish  BY DEF IInv, TarqTypeOK
<1>c. uzilish < MaxUzilish /\ uzilish' = uzilish + 1  BY DEF BotUzildi
<1>2. uzilish' \in 0..MaxUzilish  BY <1>a, <1>c, TarqatishFarazi
<1>b. ASSUME NEW h \in Bosishlar
      PROVE  /\ bot'[h] \in [joy : {"bosh", "yuborish", "tamom"}, id : Id \cup {0}, qolgan : SUBSET Odamlar]
             /\ bot'[h].joy # "yuborish"
  <2>1. bot[h] \in [joy : {"bosh", "yuborish", "tamom"}, id : Id \cup {0}, qolgan : SUBSET Odamlar]
    BY DEF IInv, TarqTypeOK
  <2>2. CASE bot[h].joy = "bosh"
    <3>1. bot'[h] = BoshBot  BY <1>1, <2>2
    <3>. QED  BY <3>1 DEF BoshBot
  <2>3. CASE bot[h].joy # "bosh"
    <3>1. bot'[h] = [bot[h] EXCEPT !.joy = "tamom", !.qolgan = {}]  BY <1>1, <2>3
    <3>. QED  BY <3>1, <2>1
  <2>. QED  BY <2>2, <2>3
<1>3. /\ bot' \in [Bosishlar -> [joy : {"bosh", "yuborish", "tamom"}, id : Id \cup {0}, qolgan : SUBSET Odamlar]]
      /\ \A h \in Bosishlar : bot'[h].joy # "yuborish"
  BY <1>1, <1>b
<1>4. TarqTypeOK'  BY <1>1, <1>2, <1>3 DEF IInv, TarqTypeOK, BoshIshchi
<1>5. IshchiInv'  BY <1>1 DEF IshchiInv, BoshIshchi
<1>6. \A h \in Bosishlar : BotInv(h)'  BY <1>3 DEF BotInv
<1>7. AzolikInv' /\ BelgilanganUrindi' /\ BegonaOlmaydi'
  BY <1>1 DEF IInv, AzolikInv, BelgilanganUrindi, BegonaOlmaydi
<1>. QED  BY <1>4, <1>5, <1>6, <1>7 DEF IInv

-----------------------------------------------------------------------------
LEMMA QadamL == IInv /\ [TarqNext]_tvars => IInv'
<1>. SUFFICES ASSUME IInv, [TarqNext]_tvars PROVE IInv'  OBVIOUS
<1>1. CASE SaytYaratadi  BY <1>1, SaytYaratadiL
<1>2. CASE HolatOzgaradi \/ SaytOchiradi  BY <1>2, HolatL
<1>3. CASE \E u \in Odamlar : ObunaOlindi(u) \/ ObunaTugadi(u)  BY <1>3, ObunaOlindiL, ObunaTugadiL
<1>4. CASE \E h \in Bosishlar : BotBoshlaydi(h) \/ BotYuboradi(h) \/ BotBelgilaydi(h) \/ BotXatosi(h)
  BY <1>4, BotBoshlaydiL, BotYuboradiL, BotBelgilaydiL, BotXatosiL
<1>5. CASE IshchiQadami  BY <1>5, IshchiOqiydiL, RejaXatosiL, IshchiYuboradiL, IshchiBelgilaydiL DEF IshchiQadami
<1>6. CASE IshchiXatosi  BY <1>6, IshchiXatosiL
<1>7. CASE BotUzildi  BY <1>7, UzilishL
<1>8. CASE UNCHANGED tvars
  BY <1>8 DEF tvars, kuzatuv, azolik, IInv, TarqTypeOK, AzolikInv, BotInv, IshchiInv, Joriy,
     BelgilanganUrindi, BegonaOlmaydi
<1>. QED  BY <1>1, <1>2, <1>3, <1>4, <1>5, <1>6, <1>7, <1>8 DEF TarqNext

LEMMA DoimL == TarqSpec => []IInv
<1>1. TarqInit => IInv  BY BoshlanishL
<1>2. IInv /\ [TarqNext]_tvars => IInv'  BY QadamL
<1>. QED  BY <1>1, <1>2, PTL DEF TarqSpec

(* The variables hold what the code can put there, and the worker sends     *)
(* exactly while its queue is not empty.                                    *)
THEOREM TurTeoremasi == TarqSpec => []TarqTypeOK
<1>1. IInv => TarqTypeOK  BY DEF IInv
<1>. QED  BY <1>1, DoimL, PTL

(* However many senders, crashes and subscribers there are: a marked signal *)
(* was sent to everyone who has been a subscriber since it was made.        *)
THEOREM UrinishTeoremasi == TarqSpec => []BelgilanganUrindi
<1>1. IInv => BelgilanganUrindi  BY DEF IInv
<1>. QED  BY <1>1, DoimL, PTL

(* Nobody receives a signal who was no subscriber at any time since it was  *)
(* made.                                                                    *)
THEOREM BegonaTeoremasi == TarqSpec => []BegonaOlmaydi
<1>1. IInv => BegonaOlmaydi  BY DEF IInv
<1>. QED  BY <1>1, DoimL, PTL

-----------------------------------------------------------------------------
(* The bound on repetitions.  What counts is not only what has arrived but  *)
(* also what a sender at work is still going to send.                       *)
Son(P) == IF P THEN 1 ELSE 0
Ishchida(i, u) == i \in ishchi.navbat /\ (Joriy(i) => u \in ishchi.qolgan)
Botda(i, u) == \E h \in Bosishlar : bot[h].joy = "yuborish" /\ bot[h].id = i /\ u \in bot[h].qolgan
Belgisiz(i) == qatorlar[i] \in Bor /\ i \notin belgi /\ i \notin ishchi.navbat

(* Every handler has a row of its own. *)
OzQatori ==
    /\ \A h \in Bosishlar : bot[h].joy = "bosh" => bot[h].id = 0
    /\ \A h \in Bosishlar : bot[h].id # 0 => qatorlar[bot[h].id] # "yoq"
    /\ \A h, g \in Bosishlar : bot[h].id # 0 /\ bot[h].id = bot[g].id => h = g

SanoqInv ==
    \A i \in Id, u \in Odamlar :
        /\ keldi[i][u] + Son(Ishchida(i, u)) + Son(Botda(i, u)) <= 1 + uzilish + Son(Qolda(i))
        /\ Belgisiz(i) => keldi[i][u] + Son(Botda(i, u)) <= uzilish + Son(Qolda(i))

(* While the task's plans are refused only a handler sends, and only it     *)
(* marks: to each user once.                                                *)
RejasizInv ==
    ~rejaMos =>
        /\ \A i \in Id, u \in Odamlar : keldi[i][u] + Son(Botda(i, u)) <= Son(Qolda(i))
        /\ \A i \in Id : i \in belgi \/ urindi[i] # {} => Qolda(i)

TInv == IInv /\ OzQatori /\ SanoqInv /\ RejasizInv

LEMMA BoshSanoqL == TarqInit => OzQatori /\ SanoqInv /\ RejasizInv
  BY TarqatishFarazi DEF TarqInit, OzQatori, SanoqInv, RejasizInv, Son, Ishchida, Botda, Belgisiz, Qolda, BoshBot, BoshIshchi, Id, Bor, OchiqQatorlar

(* The counts do not go up for a pair nobody sends to and no row is added. *)
LEMMA TinchL ==
  ASSUME TInv, UNCHANGED <<keldi, uzilish, bot, ishchi>>,
         \A i \in Id : qatorlar'[i] \in Bor /\ i \notin belgi' => qatorlar[i] \in Bor /\ i \notin belgi,
         \A i \in Id : qatorlar[i] # "yoq" => qatorlar'[i] # "yoq"
  PROVE  OzQatori' /\ SanoqInv'
<1>1. OzQatori'
  <2>1. \A h \in Bosishlar : bot[h].id # 0 => bot[h].id \in Id  BY DEF TInv, IInv, TarqTypeOK
  <2>. QED  BY <2>1 DEF TInv, OzQatori
<1>2. ASSUME NEW i \in Id, NEW u \in Odamlar
      PROVE  /\ Ishchida(i, u)' = Ishchida(i, u) /\ Botda(i, u)' = Botda(i, u)
             /\ Qolda(i)' = Qolda(i)
             /\ Belgisiz(i)' => Belgisiz(i)
  BY DEF Ishchida, Joriy, Botda, Qolda, Belgisiz
<1>3. SanoqInv'  BY <1>2 DEF TInv, SanoqInv, Son
<1>. QED  BY <1>1, <1>3

LEMMA YangiQatorL ==
  ASSUME TInv, NEW k \in Id, QatorYarat(k), UNCHANGED <<belgi, keldi, uzilish, ishchi>>
  PROVE  /\ qatorlar[k] = "yoq"
         /\ \A i \in Id : i # k => qatorlar'[i] = qatorlar[i]
         /\ \A u \in Odamlar : keldi[k][u] = 0
         /\ k \notin ishchi.navbat
         /\ \A h \in Bosishlar : bot[h].id # k
<1>1. qatorlar[k] = "yoq" /\ qatorlar' = [qatorlar EXCEPT ![k] = "pending"]  BY DEF QatorYarat, YangiId
<1>2. \A i \in Id : i # k => qatorlar'[i] = qatorlar[i]  BY <1>1 DEF TInv, IInv, TarqTypeOK
<1>3. \A u \in Odamlar : keldi[k][u] = 0
  <2>1. boldi[k] = {}  BY <1>1 DEF TInv, IInv, AzolikInv
  <2>2. \A u \in Odamlar : keldi[k][u] \in Nat  BY DEF TInv, IInv, TarqTypeOK
  <2>. QED  BY <2>1, <2>2 DEF TInv, IInv, BegonaOlmaydi
<1>4. k \notin ishchi.navbat  BY <1>1 DEF TInv, IInv, IshchiInv
<1>5. \A h \in Bosishlar : bot[h].id # k  BY <1>1 DEF TInv, OzQatori, Id
<1>. QED  BY <1>1, <1>2, <1>3, <1>4, <1>5

LEMMA SaytSanoqL == TInv /\ SaytYaratadi => OzQatori' /\ SanoqInv'
<1>. SUFFICES ASSUME TInv, SaytYaratadi PROVE OzQatori' /\ SanoqInv'  OBVIOUS
<1>1. PICK k \in Id : QatorYarat(k)  BY DEF SaytYaratadi
<1>2. UNCHANGED <<belgi, keldi, uzilish, ishchi, bot>>  BY DEF SaytYaratadi, kuzatuv
<1>3. /\ qatorlar[k] = "yoq"
      /\ \A i \in Id : i # k => qatorlar'[i] = qatorlar[i]
      /\ \A u \in Odamlar : keldi[k][u] = 0
      /\ k \notin ishchi.navbat
      /\ \A h \in Bosishlar : bot[h].id # k
  BY <1>1, <1>2, YangiQatorL
<1>4. OzQatori'
  <2>1. \A h \in Bosishlar : bot[h].id # 0 => bot[h].id \in Id  BY DEF TInv, IInv, TarqTypeOK
  <2>. QED  BY <1>2, <1>3, <2>1 DEF TInv, OzQatori
<1>5. ASSUME NEW i \in Id, NEW u \in Odamlar
      PROVE  /\ keldi'[i][u] + Son(Ishchida(i, u))' + Son(Botda(i, u))' <= 1 + uzilish' + Son(Qolda(i))'
             /\ Belgisiz(i)' => keldi'[i][u] + Son(Botda(i, u))' <= uzilish' + Son(Qolda(i))'
  <2>1. /\ Ishchida(i, u)' = Ishchida(i, u) /\ Botda(i, u)' = Botda(i, u) /\ Qolda(i)' = Qolda(i)
    BY <1>2 DEF Ishchida, Joriy, Botda, Qolda
  <2>2. uzilish \in Nat  BY TarqatishFarazi DEF TInv, IInv, TarqTypeOK
  <2>3. CASE i = k
    <3>1. ~Botda(i, u)  BY <1>3, <2>3 DEF Botda
    <3>2. keldi'[i][u] = 0  BY <1>2, <1>3, <2>3
    <3>3. ~Ishchida(i, u)  BY <1>3, <2>3 DEF Ishchida
    <3>. QED  BY <3>1, <3>2, <3>3, <2>1, <2>2, <1>2 DEF Son
  <2>4. CASE i # k
    <3>1. Belgisiz(i)' => Belgisiz(i)  BY <1>2, <1>3, <2>4 DEF Belgisiz
    <3>. QED  BY <3>1, <2>1, <1>2 DEF TInv, SanoqInv, Son
  <2>. QED  BY <2>3, <2>4
<1>. QED  BY <1>4, <1>5 DEF SanoqInv

LEMMA BotBoshSanoqL ==
  ASSUME NEW h \in Bosishlar, TInv, BotBoshlaydi(h)
  PROVE  OzQatori' /\ SanoqInv'
<1>1. PICK k \in Id : /\ QatorYarat(k)
                      /\ bot' = [bot EXCEPT ![h] = [joy |-> "yuborish", id |-> k, qolgan |-> obunachi]]
  BY DEF BotBoshlaydi
<1>2. bot[h].joy = "bosh" /\ UNCHANGED <<belgi, keldi, uzilish, ishchi>>  BY DEF BotBoshlaydi, kuzatuv
<1>3. /\ qatorlar[k] = "yoq"
      /\ \A i \in Id : i # k => qatorlar'[i] = qatorlar[i]
      /\ \A u \in Odamlar : keldi[k][u] = 0
      /\ k \notin ishchi.navbat
      /\ \A g \in Bosishlar : bot[g].id # k
  BY <1>1, <1>2, YangiQatorL
<1>4. /\ bot'[h] = [joy |-> "yuborish", id |-> k, qolgan |-> obunachi]
      /\ \A g \in Bosishlar : g # h => bot'[g] = bot[g]
      /\ bot[h].id = 0
  BY <1>1, <1>2 DEF TInv, IInv, TarqTypeOK, OzQatori
<1>5. OzQatori'
  <2>1. qatorlar'[k] = "pending"  BY <1>1 DEF QatorYarat, TInv, IInv, TarqTypeOK
  <2>2. \A g \in Bosishlar : bot[g].id # 0 => bot[g].id \in Id  BY DEF TInv, IInv, TarqTypeOK
  <2>3. \A g \in Bosishlar : bot'[g].joy = "bosh" => bot'[g].id = 0
    BY <1>4 DEF TInv, OzQatori
  <2>4. \A g \in Bosishlar : bot'[g].id # 0 => qatorlar'[bot'[g].id] # "yoq"
    BY <1>3, <1>4, <2>1, <2>2 DEF TInv, OzQatori
  <2>5. ASSUME NEW g \in Bosishlar, NEW f \in Bosishlar, bot'[g].id # 0, bot'[g].id = bot'[f].id PROVE g = f
    BY <1>3, <1>4, <2>5 DEF TInv, OzQatori
  <2>. QED  BY <2>3, <2>4, <2>5 DEF OzQatori
<1>6. ASSUME NEW i \in Id, NEW u \in Odamlar
      PROVE  /\ keldi'[i][u] + Son(Ishchida(i, u))' + Son(Botda(i, u))' <= 1 + uzilish' + Son(Qolda(i))'
             /\ Belgisiz(i)' => keldi'[i][u] + Son(Botda(i, u))' <= uzilish' + Son(Qolda(i))'
  <2>1. Ishchida(i, u)' = Ishchida(i, u)  BY <1>2 DEF Ishchida, Joriy
  <2>2. uzilish \in Nat  BY TarqatishFarazi DEF TInv, IInv, TarqTypeOK
  <2>3. CASE i = k
    <3>1. Qolda(i)'  BY <1>4, <2>3 DEF Qolda
    <3>2. keldi'[i][u] = 0  BY <1>2, <1>3, <2>3
    <3>3. ~Ishchida(i, u)  BY <1>3, <2>3 DEF Ishchida
    <3>. QED  BY <3>1, <3>2, <3>3, <2>1, <2>2, <1>2 DEF Son
  <2>4. CASE i # k
    <3>1. Belgisiz(i)' => Belgisiz(i)  BY <1>2, <1>3, <2>4 DEF Belgisiz
    <3>2. Botda(i, u)' = Botda(i, u)
      BY <1>2, <1>4, <2>4 DEF Botda
    <3>3. Qolda(i)' = Qolda(i)
      BY <1>4, <2>4 DEF Qolda, Id
    <3>. QED  BY <3>1, <3>2, <3>3, <2>1, <1>2 DEF TInv, SanoqInv, Son
  <2>. QED  BY <2>3, <2>4
<1>. QED  BY <1>5, <1>6 DEF SanoqInv

(* A message moves one unit from "going to send" to "arrived", or drops it. *)
LEMMA KeldiL ==
  ASSUME TInv, NEW k \in Id, NEW u \in Odamlar, Yubor(k, u)
  PROVE  \A i \in Id, w \in Odamlar :
            keldi'[i][w] \in Nat /\ keldi'[i][w] <= keldi[i][w] + Son(i = k /\ w = u)
  BY DEF Yubor, TInv, IInv, TarqTypeOK, Son

LEMMA BotYubSanoqL ==
  ASSUME NEW h \in Bosishlar, TInv, BotYuboradi(h)
  PROVE  OzQatori' /\ SanoqInv'
<1>1. PICK u \in bot[h].qolgan : Yubor(bot[h].id, u) /\ bot' = [bot EXCEPT ![h].qolgan = @ \ {u}]
  BY DEF BotYuboradi
<1>2. bot[h].joy = "yuborish" /\ UNCHANGED <<qatorlar, belgi, ishchi, uzilish>>  BY DEF BotYuboradi
<1>3. bot[h].id \in Id /\ u \in Odamlar  BY <1>1, <1>2 DEF TInv, IInv, BotInv, TarqTypeOK
<1>4. /\ bot'[h].joy = "yuborish" /\ bot'[h].id = bot[h].id /\ bot'[h].qolgan = bot[h].qolgan \ {u}
      /\ \A g \in Bosishlar : g # h => bot'[g] = bot[g]
      /\ \A g \in Bosishlar : bot'[g].id = bot[g].id /\ bot'[g].joy = bot[g].joy
  BY <1>1, <1>2 DEF TInv, IInv, TarqTypeOK
<1>5. OzQatori'  BY <1>2, <1>4 DEF TInv, OzQatori
<1>6. ASSUME NEW i \in Id, NEW w \in Odamlar
      PROVE  /\ keldi'[i][w] + Son(Ishchida(i, w))' + Son(Botda(i, w))' <= 1 + uzilish' + Son(Qolda(i))'
             /\ Belgisiz(i)' => keldi'[i][w] + Son(Botda(i, w))' <= uzilish' + Son(Qolda(i))'
  <2>1. Ishchida(i, w)' = Ishchida(i, w) /\ Belgisiz(i)' = Belgisiz(i)
    BY <1>2 DEF Ishchida, Joriy, Belgisiz
  <2>2. Qolda(i)' = Qolda(i)  BY <1>4 DEF Qolda
  <2>3. Botda(i, w)' => Botda(i, w)  BY <1>4 DEF Botda
  <2>4. keldi'[i][w] \in Nat /\ keldi'[i][w] <= keldi[i][w] + Son(i = bot[h].id /\ w = u)
    BY <1>1, <1>3, KeldiL
  <2>5. uzilish \in Nat /\ keldi[i][w] \in Nat  BY TarqatishFarazi DEF TInv, IInv, TarqTypeOK
  <2>6. CASE i = bot[h].id /\ w = u
    <3>1. Botda(i, w)  BY <1>1, <1>2, <2>6 DEF Botda
    <3>2. ~Botda(i, w)'
      <4>1. ASSUME NEW g \in Bosishlar, bot'[g].id = i, w \in bot'[g].qolgan PROVE FALSE
        <5>1. g = h  BY <4>1, <1>4, <2>6, <1>3 DEF TInv, OzQatori, Id
        <5>. QED  BY <5>1, <4>1, <1>4, <2>6
      <4>. QED  BY <4>1 DEF Botda
    <3>3. keldi'[i][w] <= keldi[i][w] + 1  BY <2>4, <2>6 DEF Son
    <3>. QED  BY <3>1, <3>2, <3>3, <2>1, <2>2, <2>4, <2>5, <1>2 DEF TInv, SanoqInv, Son
  <2>7. CASE ~(i = bot[h].id /\ w = u)
    <3>1. keldi'[i][w] <= keldi[i][w]  BY <2>4, <2>5, <2>7 DEF Son
    <3>. QED  BY <3>1, <2>1, <2>2, <2>3, <2>4, <2>5, <1>2 DEF TInv, SanoqInv, Son
  <2>. QED  BY <2>6, <2>7
<1>. QED  BY <1>5, <1>6 DEF SanoqInv

LEMMA IshchiYubSanoqL == TInv /\ IshchiYuboradi => OzQatori' /\ SanoqInv'
<1>. SUFFICES ASSUME TInv, IshchiYuboradi PROVE OzQatori' /\ SanoqInv'  OBVIOUS
<1>1. PICK k \in Id, u \in ishchi.qolgan :
        Joriy(k) /\ Yubor(k, u) /\ ishchi' = [ishchi EXCEPT !.qolgan = @ \ {u}]
  BY DEF IshchiYuboradi
<1>2. UNCHANGED <<qatorlar, belgi, bot, uzilish>>  BY DEF IshchiYuboradi
<1>3. /\ ishchi'.navbat = ishchi.navbat /\ ishchi'.qolgan = ishchi.qolgan \ {u}
      /\ u \in Odamlar /\ k \in ishchi.navbat
  BY <1>1 DEF TInv, IInv, TarqTypeOK, Joriy
<1>4. OzQatori'  BY <1>2 DEF TInv, OzQatori
<1>5. ASSUME NEW i \in Id, NEW w \in Odamlar
      PROVE  /\ keldi'[i][w] + Son(Ishchida(i, w))' + Son(Botda(i, w))' <= 1 + uzilish' + Son(Qolda(i))'
             /\ Belgisiz(i)' => keldi'[i][w] + Son(Botda(i, w))' <= uzilish' + Son(Qolda(i))'
  <2>1. Botda(i, w)' = Botda(i, w) /\ Belgisiz(i)' = Belgisiz(i) /\ Qolda(i)' = Qolda(i)
    BY <1>2, <1>3 DEF Botda, Belgisiz, Qolda
  <2>2. Joriy(i)' = Joriy(i)  BY <1>3 DEF Joriy
  <2>3. Ishchida(i, w)' => Ishchida(i, w)  BY <1>3, <2>2 DEF Ishchida
  <2>4. keldi'[i][w] \in Nat /\ keldi'[i][w] <= keldi[i][w] + Son(i = k /\ w = u)
    BY <1>1, <1>3, KeldiL
  <2>5. uzilish \in Nat /\ keldi[i][w] \in Nat  BY TarqatishFarazi DEF TInv, IInv, TarqTypeOK
  <2>6. CASE i = k /\ w = u
    <3>1. Ishchida(i, w)  BY <1>1, <1>3, <2>6 DEF Ishchida
    <3>2. ~Ishchida(i, w)'  BY <1>1, <1>3, <2>2, <2>6 DEF Ishchida
    <3>3. keldi'[i][w] <= keldi[i][w] + 1  BY <2>4, <2>6 DEF Son
    <3>4. ~Belgisiz(i)  BY <1>3, <2>6 DEF Belgisiz
    <3>. QED  BY <3>1, <3>2, <3>3, <3>4, <2>1, <2>4, <2>5, <1>2 DEF TInv, SanoqInv, Son
  <2>7. CASE ~(i = k /\ w = u)
    <3>1. keldi'[i][w] <= keldi[i][w]  BY <2>4, <2>5, <2>7 DEF Son
    <3>. QED  BY <3>1, <2>1, <2>3, <2>4, <2>5, <1>2 DEF TInv, SanoqInv, Son
  <2>. QED  BY <2>6, <2>7
<1>. QED  BY <1>4, <1>5 DEF SanoqInv

LEMMA IshchiOqSanoqL == TInv /\ IshchiOqiydi => OzQatori' /\ SanoqInv'
<1>. SUFFICES ASSUME TInv, IshchiOqiydi PROVE OzQatori' /\ SanoqInv'  OBVIOUS
<1>1. /\ ishchi.joy = "bosh" /\ ishchi'.navbat = Navbat
      /\ UNCHANGED <<qatorlar, belgi, bot, uzilish, keldi>>
  BY DEF IshchiOqiydi, kuzatuv
<1>2. OzQatori'  BY <1>1 DEF TInv, OzQatori
<1>3. ishchi.navbat = {}  BY <1>1 DEF TInv, IInv, TarqTypeOK
<1>4. ASSUME NEW i \in Id, NEW w \in Odamlar
      PROVE  /\ keldi'[i][w] + Son(Ishchida(i, w))' + Son(Botda(i, w))' <= 1 + uzilish' + Son(Qolda(i))'
             /\ Belgisiz(i)' => keldi'[i][w] + Son(Botda(i, w))' <= uzilish' + Son(Qolda(i))'
  <2>1. Botda(i, w)' = Botda(i, w) /\ Qolda(i)' = Qolda(i)  BY <1>1 DEF Botda, Qolda
  <2>2. Belgisiz(i)' => Belgisiz(i)  BY <1>1, <1>3 DEF Belgisiz
  <2>3. Ishchida(i, w)' => Belgisiz(i)
    BY <1>1, <1>3 DEF Ishchida, Belgisiz, Navbat, Kutayotgan, Bor
  <2>4. uzilish \in Nat /\ keldi[i][w] \in Nat  BY TarqatishFarazi DEF TInv, IInv, TarqTypeOK
  <2>. QED  BY <2>1, <2>2, <2>3, <2>4, <1>1 DEF TInv, SanoqInv, Son
<1>. QED  BY <1>2, <1>4 DEF SanoqInv

LEMMA IshchiBelSanoqL == TInv /\ IshchiBelgilaydi => OzQatori' /\ SanoqInv'
<1>. SUFFICES ASSUME TInv, IshchiBelgilaydi PROVE OzQatori' /\ SanoqInv'  OBVIOUS
<1>1. PICK k \in Id :
        /\ Joriy(k)
        /\ Belgilanadi(k)
        /\ ishchi' = IF ishchi.navbat = {k} THEN BoshIshchi
                     ELSE [ishchi EXCEPT !.navbat = @ \ {k}, !.qolgan = ishchi.royxat]
  BY DEF IshchiBelgilaydi
<1>2. UNCHANGED <<qatorlar, bot, uzilish, keldi>>  BY DEF IshchiBelgilaydi, kuzatuv
<1>3. k \in ishchi.navbat  BY <1>1 DEF Joriy
<1>4. ishchi'.navbat = ishchi.navbat \ {k}
  <2>1. CASE ishchi.navbat = {k}  BY <2>1, <1>1 DEF BoshIshchi
  <2>2. CASE ishchi.navbat # {k}
    <3>1. ishchi' = [ishchi EXCEPT !.navbat = @ \ {k}, !.qolgan = ishchi.royxat]  BY <1>1, <2>2
    <3>. QED  BY <3>1 DEF TInv, IInv, TarqTypeOK
  <2>. QED  BY <2>1, <2>2
<1>5. OzQatori'  BY <1>2 DEF TInv, OzQatori
<1>6. ASSUME NEW i \in Id, NEW w \in Odamlar
      PROVE  /\ keldi'[i][w] + Son(Ishchida(i, w))' + Son(Botda(i, w))' <= 1 + uzilish' + Son(Qolda(i))'
             /\ Belgisiz(i)' => keldi'[i][w] + Son(Botda(i, w))' <= uzilish' + Son(Qolda(i))'
  <2>1. Botda(i, w)' = Botda(i, w) /\ Qolda(i)' = Qolda(i)  BY <1>2 DEF Botda, Qolda
  <2>2. Belgisiz(i)' => Belgisiz(i)  BY <1>1, <1>2, <1>4 DEF Belgisiz, Belgilanadi
  <2>3. Ishchida(i, w)' => Ishchida(i, w)
    <3>1. CASE i = k  BY <3>1, <1>4 DEF Ishchida
    <3>2. CASE i # k
      <4>1. i \in ishchi.navbat /\ Joriy(i) => FALSE
        BY <1>1, <1>3, <3>2 DEF Joriy, Id
      <4>. QED  BY <4>1, <1>4 DEF Ishchida
    <3>. QED  BY <3>1, <3>2
  <2>4. uzilish \in Nat /\ keldi[i][w] \in Nat  BY TarqatishFarazi DEF TInv, IInv, TarqTypeOK
  <2>. QED  BY <2>1, <2>2, <2>3, <2>4, <1>2 DEF TInv, SanoqInv, Son
<1>. QED  BY <1>5, <1>6 DEF SanoqInv

(* The end of a handler, by its mark or by a restart. *)
LEMMA BotTamomL ==
  ASSUME TInv, UNCHANGED <<qatorlar, keldi, uzilish, ishchi>>,
         \A i \in Id : qatorlar[i] \in Bor /\ i \notin belgi' => i \notin belgi,
         \A g \in Bosishlar : /\ bot'[g].id = bot[g].id
                              /\ bot'[g].joy = "bosh" => bot[g].joy = "bosh"
                              /\ bot'[g].joy = "yuborish" => bot'[g] = bot[g]
  PROVE  OzQatori' /\ SanoqInv'
<1>1. OzQatori'  BY DEF TInv, OzQatori
<1>2. ASSUME NEW i \in Id, NEW w \in Odamlar
      PROVE  /\ keldi'[i][w] + Son(Ishchida(i, w))' + Son(Botda(i, w))' <= 1 + uzilish' + Son(Qolda(i))'
             /\ Belgisiz(i)' => keldi'[i][w] + Son(Botda(i, w))' <= uzilish' + Son(Qolda(i))'
  <2>1. Qolda(i)' = Qolda(i)  BY DEF Qolda
  <2>2. Botda(i, w)' => Botda(i, w)  BY DEF Botda
  <2>3. Belgisiz(i)' => Belgisiz(i)  BY DEF Belgisiz
  <2>4. Ishchida(i, w)' = Ishchida(i, w)  BY DEF Ishchida, Joriy
  <2>5. uzilish \in Nat /\ keldi[i][w] \in Nat  BY TarqatishFarazi DEF TInv, IInv, TarqTypeOK
  <2>. QED  BY <2>1, <2>2, <2>3, <2>4, <2>5 DEF TInv, SanoqInv, Son
<1>. QED  BY <1>1, <1>2 DEF SanoqInv

(* A failure costs one more repetition. *)
LEMMA YiqilishL ==
  ASSUME TInv, UNCHANGED <<qatorlar, belgi, keldi>>, uzilish' = uzilish + 1,
         ishchi'.navbat = {} \/ ishchi' = ishchi,
         \A g \in Bosishlar : /\ bot'[g].id = bot[g].id
                              /\ bot'[g].joy = "bosh" => bot[g].joy = "bosh"
                              /\ bot'[g].joy = "yuborish" => bot'[g] = bot[g]
  PROVE  OzQatori' /\ SanoqInv'
<1>1. OzQatori'  BY DEF TInv, OzQatori
<1>2. ASSUME NEW i \in Id, NEW w \in Odamlar
      PROVE  /\ keldi'[i][w] + Son(Ishchida(i, w))' + Son(Botda(i, w))' <= 1 + uzilish' + Son(Qolda(i))'
             /\ Belgisiz(i)' => keldi'[i][w] + Son(Botda(i, w))' <= uzilish' + Son(Qolda(i))'
  <2>1. Qolda(i)' = Qolda(i)  BY DEF Qolda
  <2>2. Botda(i, w)' => Botda(i, w)  BY DEF Botda
  <2>3. Ishchida(i, w)' => Ishchida(i, w)  BY DEF Ishchida, Joriy
  <2>5. uzilish \in Nat /\ keldi[i][w] \in Nat  BY TarqatishFarazi DEF TInv, IInv, TarqTypeOK
  <2>. QED  BY <2>1, <2>2, <2>3, <2>5 DEF TInv, SanoqInv, Son
<1>. QED  BY <1>1, <1>2 DEF SanoqInv

(* A run that ends because its plan was refused costs no repetition: it has *)
(* not sent anything, and neither has any run before it.                    *)
LEMMA RejaSanoqL == TInv /\ RejaXatosi => OzQatori' /\ SanoqInv'
<1>. SUFFICES ASSUME TInv, RejaXatosi PROVE OzQatori' /\ SanoqInv'  OBVIOUS
<1>1. /\ ~rejaMos /\ ishchi'.navbat = {}
      /\ UNCHANGED <<qatorlar, belgi, bot, uzilish, keldi>>
  BY DEF RejaXatosi, BoshIshchi, kuzatuv
<1>2. OzQatori'  BY <1>1 DEF TInv, OzQatori
<1>3. ASSUME NEW i \in Id, NEW w \in Odamlar
      PROVE  /\ keldi'[i][w] + Son(Ishchida(i, w))' + Son(Botda(i, w))' <= 1 + uzilish' + Son(Qolda(i))'
             /\ Belgisiz(i)' => keldi'[i][w] + Son(Botda(i, w))' <= uzilish' + Son(Qolda(i))'
  <2>1. Qolda(i)' = Qolda(i) /\ Botda(i, w)' = Botda(i, w)  BY <1>1 DEF Qolda, Botda
  <2>2. ~Ishchida(i, w)'  BY <1>1 DEF Ishchida
  <2>3. uzilish \in Nat /\ keldi[i][w] \in Nat  BY TarqatishFarazi DEF TInv, IInv, TarqTypeOK
  <2>4. keldi[i][w] + Son(Botda(i, w)) <= Son(Qolda(i))  BY <1>1 DEF TInv, RejasizInv
  <2>. QED  BY <1>1, <2>1, <2>2, <2>3, <2>4 DEF Son
<1>. QED  BY <1>2, <1>3 DEF SanoqInv

(* No other step sends or marks anything but a handler's own row. *)
LEMMA RejasizTinchL ==
  ASSUME TInv, UNCHANGED <<rejaMos, keldi, urindi>>,
         \A i \in belgi' : i \in belgi \/ Qolda(i),
         \A h \in Bosishlar : /\ bot'[h].id = bot[h].id
                              /\ bot'[h].joy = "yuborish" => bot'[h] = bot[h]
  PROVE  RejasizInv'
<1>1. ASSUME NEW i \in Id, NEW u \in Odamlar
      PROVE  Qolda(i)' = Qolda(i) /\ (Botda(i, u)' => Botda(i, u)) /\ keldi[i][u] \in Nat
  <2>1. Qolda(i)' = Qolda(i)  BY DEF Qolda
  <2>2. Botda(i, u)' => Botda(i, u)  BY DEF Botda
  <2>3. keldi[i][u] \in Nat  BY DEF TInv, IInv, TarqTypeOK
  <2>. QED  BY <2>1, <2>2, <2>3
<1>2. \A i \in Id : Qolda(i)' = Qolda(i)  BY DEF Qolda
<1>3. ~rejaMos => \A i \in Id, u \in Odamlar : keldi'[i][u] + Son(Botda(i, u))' <= Son(Qolda(i))'
  BY <1>1 DEF TInv, RejasizInv, Son
<1>4. ~rejaMos => \A i \in Id : i \in belgi' \/ urindi'[i] # {} => Qolda(i)'
  BY <1>2 DEF TInv, RejasizInv
<1>. QED  BY <1>3, <1>4 DEF RejasizInv

LEMMA RejasizBoshL ==
  ASSUME NEW h \in Bosishlar, TInv, BotBoshlaydi(h), UNCHANGED rejaMos
  PROVE  RejasizInv'
<1>1. PICK k \in Id : /\ QatorYarat(k)
                      /\ bot' = [bot EXCEPT ![h] = [joy |-> "yuborish", id |-> k, qolgan |-> obunachi]]
  BY DEF BotBoshlaydi
<1>2. bot[h].joy = "bosh" /\ UNCHANGED <<belgi, keldi, urindi, uzilish, ishchi>>
  BY DEF BotBoshlaydi, kuzatuv
<1>3. (\A u \in Odamlar : keldi[k][u] = 0) /\ \A g \in Bosishlar : bot[g].id # k
  BY <1>1, <1>2, YangiQatorL
<1>4. /\ bot'[h] = [joy |-> "yuborish", id |-> k, qolgan |-> obunachi]
      /\ \A g \in Bosishlar : g # h => bot'[g] = bot[g]
      /\ bot[h].id = 0
  BY <1>1, <1>2 DEF TInv, IInv, TarqTypeOK, OzQatori
<1>5. Qolda(k)'  BY <1>4 DEF Qolda
<1>6. ASSUME NEW i \in Id, NEW u \in Odamlar, i # k
      PROVE  (Qolda(i)' <=> Qolda(i)) /\ (Botda(i, u)' <=> Botda(i, u))
  <2>1. bot'[h].id # i /\ bot[h].id # i  BY <1>4, <1>6 DEF Id
  <2>. QED  BY <1>4, <2>1 DEF Qolda, Botda
<1>7. ASSUME NEW i \in Id, i # k PROVE Qolda(i)' <=> Qolda(i)
  <2>1. bot'[h].id # i /\ bot[h].id # i  BY <1>4, <1>7 DEF Id
  <2>. QED  BY <1>4, <2>1 DEF Qolda
<1>8. ASSUME ~rejaMos, NEW i \in Id, NEW u \in Odamlar
      PROVE  keldi'[i][u] + Son(Botda(i, u))' <= Son(Qolda(i))'
  <2>1. CASE i = k  BY <1>2, <1>3, <1>5, <2>1 DEF Son
  <2>2. CASE i # k  BY <1>2, <1>6, <1>8, <2>2 DEF TInv, RejasizInv, Son
  <2>. QED  BY <2>1, <2>2
<1>9. ASSUME ~rejaMos, NEW i \in Id, i \in belgi' \/ urindi'[i] # {} PROVE Qolda(i)'
  BY <1>2, <1>5, <1>7, <1>9 DEF TInv, RejasizInv
<1>. QED  BY <1>8, <1>9 DEF RejasizInv

LEMMA RejasizYubL ==
  ASSUME NEW h \in Bosishlar, TInv, BotYuboradi(h), UNCHANGED rejaMos
  PROVE  RejasizInv'
<1>1. PICK u \in bot[h].qolgan : /\ Yubor(bot[h].id, u)
                                 /\ bot' = [bot EXCEPT ![h].qolgan = @ \ {u}]
  BY DEF BotYuboradi
<1>2. bot[h].joy = "yuborish" /\ UNCHANGED belgi  BY DEF BotYuboradi
<1>3. PICK k : k = bot[h].id  OBVIOUS
<1>4. k \in Id /\ u \in Odamlar
  BY <1>1, <1>2, <1>3 DEF TInv, IInv, TarqTypeOK, BotInv
<1>5. /\ \A g \in Bosishlar : bot'[g].id = bot[g].id /\ bot'[g].joy = bot[g].joy
      /\ \A g \in Bosishlar : g # h => bot'[g] = bot[g]
      /\ bot'[h].qolgan = bot[h].qolgan \ {u}
  BY <1>1 DEF TInv, IInv, TarqTypeOK
<1>6. /\ \A i \in Id : i # k => urindi'[i] = urindi[i]
      /\ \A i \in Id, w \in Odamlar : keldi'[i][w] = keldi[i][w] \/ (i = k /\ w = u /\ keldi'[i][w] = keldi[i][w] + 1)
  BY <1>1, <1>3, <1>4 DEF Yubor, TInv, IInv, TarqTypeOK
<1>7. \A i \in Id : Qolda(i)' <=> Qolda(i)  BY <1>5 DEF Qolda
<1>8. Qolda(k)  BY <1>3 DEF Qolda
<1>9. Botda(k, u) /\ ~Botda(k, u)'
  <2>1. \A g \in Bosishlar : bot[g].id = k => g = h
    <3>1. bot[h].id # 0  BY <1>3, <1>4 DEF Id
    <3>. QED  BY <1>3, <3>1 DEF TInv, OzQatori
  <2>2. Botda(k, u)  BY <1>1, <1>2, <1>3 DEF Botda
  <2>. QED  BY <1>5, <2>1, <2>2 DEF Botda
<1>10. \A i \in Id, w \in Odamlar : Botda(i, w)' => Botda(i, w)  BY <1>5 DEF Botda
<1>11. ASSUME ~rejaMos, NEW i \in Id, NEW w \in Odamlar
       PROVE  keldi'[i][w] + Son(Botda(i, w))' <= Son(Qolda(i))'
  <2>1. keldi[i][w] \in Nat /\ keldi[i][w] + Son(Botda(i, w)) <= Son(Qolda(i))
    BY <1>11 DEF TInv, IInv, TarqTypeOK, RejasizInv
  <2>2. CASE i = k /\ w = u  BY <1>6, <1>7, <1>9, <2>1, <2>2 DEF Son
  <2>3. CASE ~(i = k /\ w = u)  BY <1>6, <1>7, <1>10, <2>1, <2>3 DEF Son
  <2>. QED  BY <2>2, <2>3
<1>12. ASSUME ~rejaMos, NEW i \in Id, i \in belgi' \/ urindi'[i] # {} PROVE Qolda(i)'
  BY <1>2, <1>6, <1>7, <1>8, <1>12 DEF TInv, RejasizInv
<1>. QED  BY <1>11, <1>12 DEF RejasizInv

LEMMA RejasizQadamL == TInv /\ [TarqNext]_tvars => RejasizInv'
<1>. SUFFICES ASSUME TInv, [TarqNext]_tvars PROVE RejasizInv'  OBVIOUS
<1>1. UNCHANGED rejaMos  BY DEF TarqNext, tvars
<1>2. CASE \/ SaytYaratadi \/ HolatOzgaradi \/ SaytOchiradi
           \/ \E u \in Odamlar : ObunaOlindi(u) \/ ObunaTugadi(u)
           \/ IshchiOqiydi \/ RejaXatosi \/ IshchiXatosi \/ UNCHANGED tvars
  <2>1. UNCHANGED <<belgi, bot, keldi, urindi>>
    BY <1>2 DEF SaytYaratadi, HolatOzgaradi, SaytOchiradi, ObunaOlindi, ObunaTugadi, IshchiOqiydi,
       RejaXatosi, IshchiXatosi, tvars, kuzatuv
  <2>. QED  BY <1>1, <2>1, RejasizTinchL
<1>3. ASSUME NEW h \in Bosishlar, BotBelgilaydi(h) PROVE RejasizInv'
  <2>1. /\ Belgilanadi(bot[h].id)
        /\ bot' = [bot EXCEPT ![h].joy = "tamom"]
        /\ UNCHANGED <<keldi, urindi>>
    BY <1>3 DEF BotBelgilaydi, kuzatuv
  <2>2. \A i \in belgi' : i \in belgi \/ Qolda(i)  BY <2>1 DEF Belgilanadi, Qolda
  <2>3. \A g \in Bosishlar : bot'[g].id = bot[g].id /\ (bot'[g].joy = "yuborish" => bot'[g] = bot[g])
    BY <2>1 DEF TInv, IInv, TarqTypeOK
  <2>. QED  BY <1>1, <2>1, <2>2, <2>3, RejasizTinchL
<1>4. ASSUME NEW h \in Bosishlar, BotXatosi(h) PROVE RejasizInv'
  <2>1. bot' = [bot EXCEPT ![h].joy = "tamom"] /\ UNCHANGED <<belgi, keldi, urindi>>
    BY <1>4 DEF BotXatosi, kuzatuv
  <2>2. \A g \in Bosishlar : bot'[g].id = bot[g].id /\ (bot'[g].joy = "yuborish" => bot'[g] = bot[g])
    BY <2>1 DEF TInv, IInv, TarqTypeOK
  <2>. QED  BY <1>1, <2>1, <2>2, RejasizTinchL
<1>5. CASE BotUzildi
  <2>1. UNCHANGED <<belgi, keldi, urindi>>  BY <1>5 DEF BotUzildi, kuzatuv
  <2>2. ASSUME NEW g \in Bosishlar
        PROVE  bot'[g].id = bot[g].id /\ (bot'[g].joy = "yuborish" => bot'[g] = bot[g])
    <3>1. CASE bot[g].joy = "bosh"
      <4>1. bot'[g] = BoshBot  BY <1>5, <3>1 DEF BotUzildi
      <4>. QED  BY <4>1, <3>1 DEF TInv, OzQatori, BoshBot
    <3>2. CASE bot[g].joy # "bosh"
      <4>1. bot'[g] = [bot[g] EXCEPT !.joy = "tamom", !.qolgan = {}]  BY <1>5, <3>2 DEF BotUzildi
      <4>. QED  BY <4>1 DEF TInv, IInv, TarqTypeOK
    <3>. QED  BY <3>1, <3>2
  <2>. QED  BY <1>1, <2>1, <2>2, RejasizTinchL
<1>6. CASE IshchiYuboradi \/ IshchiBelgilaydi
  BY <1>1, <1>6 DEF IshchiYuboradi, IshchiBelgilaydi, RejasizInv
<1>7. CASE \E h \in Bosishlar : BotBoshlaydi(h) \/ BotYuboradi(h)
  BY <1>1, <1>7, RejasizBoshL, RejasizYubL
<1>. QED  BY <1>2, <1>3, <1>4, <1>5, <1>6, <1>7 DEF TarqNext, IshchiQadami

LEMMA TQadamL == TInv /\ [TarqNext]_tvars => TInv'
<1>. SUFFICES ASSUME TInv, [TarqNext]_tvars PROVE OzQatori' /\ SanoqInv'
  BY QadamL, RejasizQadamL DEF TInv
<1>1. CASE SaytYaratadi  BY <1>1, SaytSanoqL
<1>2. CASE HolatOzgaradi \/ SaytOchiradi
  <2>1. PICK k \in Id, g \in {"active", "yopiq", "ochirilgan"} :
          qatorlar[k] \in Bor /\ qatorlar' = [qatorlar EXCEPT ![k] = g]
    BY <1>2 DEF HolatOzgaradi, SaytOchiradi
  <2>2. UNCHANGED <<belgi, bot, ishchi, uzilish, keldi>>  BY <1>2 DEF HolatOzgaradi, SaytOchiradi, kuzatuv
  <2>3. \A i \in Id : (i # k => qatorlar'[i] = qatorlar[i]) /\ qatorlar'[k] = g
    BY <2>1 DEF TInv, IInv, TarqTypeOK
  <2>. QED  BY <2>1, <2>2, <2>3, TinchL
<1>3. CASE \E u \in Odamlar : ObunaOlindi(u) \/ ObunaTugadi(u)
  <2>1. UNCHANGED <<qatorlar, belgi, bot, ishchi, uzilish, keldi>>
    BY <1>3 DEF ObunaOlindi, ObunaTugadi, kuzatuv
  <2>. QED  BY <2>1, TinchL
<1>4. ASSUME NEW h \in Bosishlar, BotBelgilaydi(h) PROVE OzQatori' /\ SanoqInv'
  <2>1. /\ Belgilanadi(bot[h].id)
        /\ bot' = [bot EXCEPT ![h].joy = "tamom"]
        /\ UNCHANGED <<qatorlar, ishchi, uzilish, keldi>>
    BY <1>4 DEF BotBelgilaydi, kuzatuv
  <2>2. \A g \in Bosishlar : /\ bot'[g].id = bot[g].id
                             /\ bot'[g].joy = "bosh" => bot[g].joy = "bosh"
                             /\ bot'[g].joy = "yuborish" => bot'[g] = bot[g]
    BY <2>1 DEF TInv, IInv, TarqTypeOK
  <2>3. \A i \in Id : i \notin belgi' => i \notin belgi  BY <2>1 DEF Belgilanadi
  <2>. QED  BY <2>1, <2>2, <2>3, BotTamomL
<1>a. ASSUME NEW h \in Bosishlar, BotXatosi(h) PROVE OzQatori' /\ SanoqInv'
  <2>1. /\ bot' = [bot EXCEPT ![h].joy = "tamom"] /\ uzilish' = uzilish + 1
        /\ UNCHANGED <<qatorlar, belgi, ishchi, keldi>>
    BY <1>a DEF BotXatosi, kuzatuv
  <2>2. \A g \in Bosishlar : /\ bot'[g].id = bot[g].id
                             /\ bot'[g].joy = "bosh" => bot[g].joy = "bosh"
                             /\ bot'[g].joy = "yuborish" => bot'[g] = bot[g]
    BY <2>1 DEF TInv, IInv, TarqTypeOK
  <2>. QED  BY <2>1, <2>2, YiqilishL
<1>5. CASE \E h \in Bosishlar : BotBoshlaydi(h) \/ BotYuboradi(h) \/ BotBelgilaydi(h) \/ BotXatosi(h)
  BY <1>5, <1>4, <1>a, BotBoshSanoqL, BotYubSanoqL
<1>6. CASE IshchiQadami  BY <1>6, IshchiOqSanoqL, RejaSanoqL, IshchiYubSanoqL, IshchiBelSanoqL DEF IshchiQadami
<1>7. CASE IshchiXatosi
  <2>1. /\ uzilish' = uzilish + 1 /\ ishchi'.navbat = {}
        /\ UNCHANGED <<qatorlar, belgi, bot, keldi>>
    BY <1>7 DEF IshchiXatosi, BoshIshchi, kuzatuv
  <2>. QED  BY <2>1, YiqilishL
<1>8. CASE BotUzildi
  <2>1. /\ uzilish' = uzilish + 1 /\ ishchi'.navbat = {}
        /\ UNCHANGED <<qatorlar, belgi, keldi>>
    BY <1>8 DEF BotUzildi, BoshIshchi, kuzatuv
  <2>2. ASSUME NEW g \in Bosishlar
        PROVE  /\ bot'[g].id = bot[g].id
               /\ bot'[g].joy = "bosh" => bot[g].joy = "bosh"
               /\ bot'[g].joy = "yuborish" => bot'[g] = bot[g]
    <3>1. CASE bot[g].joy = "bosh"
      <4>1. bot'[g] = BoshBot  BY <1>8, <3>1 DEF BotUzildi
      <4>. QED  BY <4>1, <3>1 DEF TInv, OzQatori, BoshBot
    <3>2. CASE bot[g].joy # "bosh"
      <4>1. bot'[g] = [bot[g] EXCEPT !.joy = "tamom", !.qolgan = {}]  BY <1>8, <3>2 DEF BotUzildi
      <4>. QED  BY <4>1 DEF TInv, IInv, TarqTypeOK
    <3>. QED  BY <3>1, <3>2
  <2>. QED  BY <2>1, <2>2, YiqilishL
<1>9. CASE UNCHANGED tvars
  <2>1. UNCHANGED <<qatorlar, belgi, bot, ishchi, uzilish, keldi>>  BY <1>9 DEF tvars
  <2>. QED  BY <2>1, TinchL
<1>. QED  BY <1>1, <1>2, <1>3, <1>5, <1>6, <1>7, <1>8, <1>9 DEF TarqNext

LEMMA TDoimL == TarqSpec => []TInv
<1>1. TarqInit => TInv  BY BoshlanishL, BoshSanoqL DEF TInv
<1>2. TInv /\ [TarqNext]_tvars => TInv'  BY TQadamL
<1>. QED  BY <1>1, <1>2, PTL DEF TarqSpec

(* A subscriber gets a signal once, once more for every failure, and once   *)
(* more when the admin's handler sends it too: for every number of users,   *)
(* signals and presses.                                                     *)
THEOREM TakrorTeoremasi == TarqSpec => []TakrorChegarasi
<1>1. TInv => TakrorChegarasi
  <2>. SUFFICES ASSUME TInv, NEW i \in Id, NEW u \in Odamlar
                PROVE  keldi[i][u] <= 1 + uzilish + (IF Qolda(i) THEN 1 ELSE 0)
    BY DEF TakrorChegarasi
  <2>1. uzilish \in Nat /\ keldi[i][u] \in Nat  BY TarqatishFarazi DEF TInv, IInv, TarqTypeOK
  <2>. QED  BY <2>1 DEF TInv, SanoqInv, Son
<1>. QED  BY <1>1, TDoimL, PTL

(* With the EntryPlan call as the code has it, a row that no handler of the *)
(* admin made is neither sent to anybody nor marked: whatever the site and  *)
(* the cycle write stays where it is.                                       *)
THEOREM RejasizTeoremasi == TarqSpec => []FaqatQolda
<1>1. TInv => FaqatQolda  BY DEF TInv, RejasizInv, FaqatQolda
<1>. QED  BY <1>1, TDoimL, PTL

(****************************** Cards and results ******************************)

\* What a button, a card or a question was drawn for is still there, or its id was
\* deleted at least once.
KEski(s, q, id, son) == id \in q \/ (s[id] # KYoq /\ s[id].son = son)

KartaSoz(h, s, q, k) ==
    k.son \in DOMAIN h /\ k.daraja = h[k.son] /\ KEski(s, q, k.id, k.son)

QatorSoz(h, r) ==
    /\ r.son \in DOMAIN h /\ r.daraja = h[r.son]
    /\ ~r.begona => NatijaTogri(r)

\* What a run has read of a row: it was open, and of the signal the row still is,
\* unless it was deleted; if the row is that signal, its TP1 has not moved, for the
\* run alone moves it.
NusxaSoz(h, s, q, id, n) ==
    /\ n.holat \in Ochiqlar /\ n.son \in DOMAIN h /\ n.daraja = h[n.son]
    /\ KEski(s, q, id, n.son)
    /\ s[id] # KYoq /\ s[id].son = n.son => s[id].tp1 = n.tp1

NusxalarSoz ==
    \A id \in KIdlar : knusxa[id] # KYoq => NusxaSoz(ktarix, kqatorlar, kqaytgan, id, knusxa[id])

QatorlarSoz == \A id \in KIdlar : kqatorlar[id] # KYoq => QatorSoz(ktarix, kqatorlar[id])

EkranlarSoz ==
    /\ \A k \in Kartalar : KartaSoz(ktarix, kqatorlar, kqaytgan, k)
    /\ \A k \in ksorov : is_enterable(k.harakat)
    /\ kekran.tur = "karta" => is_enterable(kekran.harakat)
    /\ kekran.tur = "royxat" => kekran.kirish \cap kekran.kech = {}
    /\ kadmin.tur = "tasdiq" => KEski(kqatorlar, kqaytgan, kadmin.id, kadmin.son)

KInv == KTypeOK /\ QatorlarSoz /\ NusxalarSoz /\ EkranlarSoz /\ OziniOzgartiradi

LEMMA KopaytmaL ==
  ASSUME NEW x \in Int, NEW y \in Int, x >= 0, y >= 0
  PROVE  x * y \in Int /\ x * y >= 0 /\ (x > 0 /\ y > 0 => x * y > 0)
  OBVIOUS

\* A weighted mean of two numbers lies between what both lie between.
LEMMA OrtachaL ==
  ASSUME NEW a \in Int, NEW b \in Int, NEW lo \in Int, NEW hi \in Int, NEW u \in 0..100,
         lo <= a, a <= hi, lo <= b, b <= hi
  PROVE  lo * 100 <= a * u + b * (100 - u) /\ a * u + b * (100 - u) <= hi * 100
<1>1. (a - lo) * u >= 0 /\ (b - lo) * (100 - u) >= 0  BY KopaytmaL
<1>2. (hi - a) * u >= 0 /\ (hi - b) * (100 - u) >= 0  BY KopaytmaL
<1>3. (a - lo) * u = a * u - lo * u /\ (hi - a) * u = hi * u - a * u  OBVIOUS
<1>4. /\ (b - lo) * (100 - u) = b * (100 - u) - lo * 100 + lo * u
      /\ (hi - b) * (100 - u) = hi * 100 - hi * u - b * (100 - u)
  OBVIOUS
<1>5. a * u \in Int /\ lo * u \in Int /\ hi * u \in Int /\ b * (100 - u) \in Int  OBVIOUS
<1>. QED  BY <1>1, <1>2, <1>3, <1>4, <1>5

LEMMA DarajaL ==
  ASSUME NEW d \in Terilgan, signal_levels(d)
  PROVE  /\ d.entry \in Int /\ d.stop \in Int /\ d.tp[1] \in Int /\ final_tp(d) \in Int
         /\ 0 < d.stop /\ d.stop < d.entry /\ d.entry < d.tp[1] /\ d.tp[1] <= final_tp(d)
<1>1. d \in [entry : Int, stop : Int, tp : Seq(Int)]  BY KartaFarazi
<1>2. d.tp \in Seq(Int) /\ d.entry \in Int /\ d.stop \in Int  BY <1>1
<1>3. Len(d.tp) \in 1..3 /\ SignalLevels(d)  BY DEF signal_levels
<1>4. 1 \in DOMAIN d.tp /\ Len(d.tp) \in DOMAIN d.tp  BY <1>2, <1>3
<1>5. d.tp[1] \in Int /\ d.tp[Len(d.tp)] \in Int  BY <1>2, <1>4
<1>6. 1 < Len(d.tp) => d.tp[1] < d.tp[Len(d.tp)]  BY <1>3, <1>4 DEF SignalLevels
<1>7. Len(d.tp) = 1 \/ 1 < Len(d.tp)
  <2>1. \A n \in 1..3 : n = 1 \/ 1 < n  OBVIOUS
  <2>. QED  BY <1>3, <2>1
<1>. QED  BY <1>2, <1>3, <1>5, <1>6, <1>7 DEF SignalLevels, final_tp

\* What is weighed when a trade closes at price p.
LEMMA BlendedL ==
  ASSUME NEW d \in Terilgan, signal_levels(d), NEW p \in Int, NEW t \in BOOLEAN,
         d.stop <= p, p <= final_tp(d)
  PROVE  LET n == blended_result_pct(d, p, t)
         IN  /\ n \in Int
             /\ (d.stop - d.entry) * 100 <= n /\ n <= (final_tp(d) - d.entry) * 100
             /\ p > d.entry => n > 0
             /\ t /\ p = d.entry /\ TP1_ULUSH > 0 => n > 0
             /\ ~t /\ p <= d.entry => n <= 0
<1>. DEFINE a == d.tp[1] - d.entry
            b == p - d.entry
            lo == d.stop - d.entry
            hi == final_tp(d) - d.entry
            n == blended_result_pct(d, p, t)
<1>1. /\ d.entry \in Int /\ d.stop \in Int /\ d.tp[1] \in Int /\ final_tp(d) \in Int
      /\ d.stop < d.entry /\ d.entry < d.tp[1] /\ d.tp[1] <= final_tp(d)
  BY DarajaL
<1>2. TP1_ULUSH \in 0..100  BY KartaFarazi
<1>3. a \in Int /\ b \in Int /\ lo \in Int /\ hi \in Int /\ 0 < a /\ lo <= a /\ a <= hi /\ lo <= b /\ b <= hi
  BY <1>1
<1>4. CASE t
  <2>1. n = a * TP1_ULUSH + b * (100 - TP1_ULUSH)  BY <1>4 DEF blended_result_pct
  <2>. HIDE DEF a, b, lo, hi, n
  <2>2. lo * 100 <= n /\ n <= hi * 100  BY <1>2, <1>3, <2>1, OrtachaL
  <2>3. n \in Int  BY <1>2, <1>3, <2>1
  <2>4. b > 0 => n > 0
    <3>. SUFFICES ASSUME b > 0 PROVE n > 0  OBVIOUS
    <3>1. /\ a * TP1_ULUSH \in Int /\ a * TP1_ULUSH >= 0 /\ (TP1_ULUSH > 0 => a * TP1_ULUSH > 0)
      BY <1>2, <1>3, KopaytmaL
    <3>2. /\ b * (100 - TP1_ULUSH) \in Int /\ b * (100 - TP1_ULUSH) >= 0
          /\ (100 - TP1_ULUSH > 0 => b * (100 - TP1_ULUSH) > 0)
      BY <1>2, <1>3, KopaytmaL
    <3>. QED  BY <1>2, <2>1, <3>1, <3>2
  <2>5. b = 0 /\ TP1_ULUSH > 0 => n > 0
    <3>. SUFFICES ASSUME b = 0, TP1_ULUSH > 0 PROVE n > 0  OBVIOUS
    <3>1. a * TP1_ULUSH \in Int /\ a * TP1_ULUSH > 0  BY <1>2, <1>3, KopaytmaL
    <3>2. b * (100 - TP1_ULUSH) = 0  BY <1>2
    <3>. QED  BY <2>1, <3>1, <3>2
  <2>6. (p > d.entry => b > 0) /\ (p = d.entry => b = 0)  BY <1>1 DEF b
  <2>. QED  BY <1>4, <2>2, <2>3, <2>4, <2>5, <2>6 DEF lo, hi, n
<1>5. CASE ~t
  <2>1. n = b * 100  BY <1>5 DEF blended_result_pct
  <2>. QED  BY <1>1, <1>3, <1>5, <2>1
<1>. QED  BY <1>4, <1>5

LEMMA HodisaL ==
  ASSUME NEW r \in KQator, signal_levels(r.daraja), r.holat \in Ochiqlar, NEW e \in Hodisalar(r)
  PROVE  /\ e[1] \in Ochiqlar \cup Yopiqlar
         /\ e[1] \in Yopiqlar => /\ e[2] \in Int /\ r.daraja.stop <= e[2]
                                 /\ e[2] <= final_tp(r.daraja)
         /\ e[1] = "tp2_hit" => e[2] > r.daraja.entry
         /\ e[1] = "timed_out" /\ r.tp1 => e[2] > r.daraja.entry
         /\ e[1] = "stopped" /\ r.tp1 => e[2] = r.daraja.entry
         /\ e[1] = "stopped" => e[2] <= r.daraja.entry
<1>1. /\ r.daraja.entry \in Int /\ r.daraja.stop \in Int /\ r.daraja.tp[1] \in Int
      /\ final_tp(r.daraja) \in Int
      /\ r.daraja.stop < r.daraja.entry /\ r.daraja.entry < r.daraja.tp[1]
      /\ r.daraja.tp[1] <= final_tp(r.daraja)
  BY DarajaL DEF KQator
<1>2. KNarxlar \subseteq Int  BY KartaFarazi
<1>3. CASE e = <<"active", r.daraja.entry>> \/ e = <<"tp1_hit", r.daraja.tp[1]>>
           \/ e = <<"cancelled", r.daraja.tp[1]>> \/ e = <<"tp2_hit", final_tp(r.daraja)>>
  BY <1>1, <1>3 DEF Ochiqlar, Yopiqlar
<1>4. CASE e \in {"stopped"} \X StopNarxlari(r)
  BY <1>1, <1>4 DEF Ochiqlar, Yopiqlar, StopNarxlari
<1>5. CASE e \in {"timed_out"} \X {p \in KNarxlar :
             /\ (IF r.tp1 THEN r.daraja.entry ELSE r.daraja.stop) < p
             /\ p < final_tp(r.daraja)}
  <2>1. e[1] = "timed_out" /\ e[2] \in Int /\ e[2] < final_tp(r.daraja)
        /\ (IF r.tp1 THEN r.daraja.entry ELSE r.daraja.stop) < e[2]
    BY <1>2, <1>5
  <2>. QED  BY <1>1, <2>1 DEF Yopiqlar
<1>. QED  BY <1>3, <1>4, <1>5 DEF Hodisalar

\* The columns apply_event writes, and the answer to the question.
Yozilgan(r, h, t, n, m) == [[r EXCEPT !.holat = h, !.tp1 = t, !.natija = n] EXCEPT !.tasdiq = m]

LEMMA YozilganL ==
  ASSUME NEW r \in KQator, NEW h \in Ochiqlar \cup Yopiqlar, NEW t \in BOOLEAN, NEW n \in Int,
         NEW m \in Nat
  PROVE  LET q == Yozilgan(r, h, t, n, m)
         IN  /\ q \in KQator /\ q.son = r.son /\ q.daraja = r.daraja /\ q.tasdiq = m
             /\ q.holat = h /\ q.natija = n
  BY DEF KQator, Yozilgan

\* Whatever a run reports of the row m it read, written to the row r there is by
\* then: if both are of one signal, the row's result is true.
LEMMA ApplyL ==
  ASSUME NEW r \in KQator, signal_levels(r.daraja), NEW m \in KQator, signal_levels(m.daraja),
         m.holat \in Ochiqlar, NEW e \in Hodisalar(m)
  PROVE  LET q == apply_event(r, e[1], e[2], TRUE)
         IN  /\ q \in KQator /\ q.son = r.son /\ q.daraja = r.daraja /\ q.tasdiq = r.tasdiq
             /\ m.daraja = r.daraja /\ m.tp1 = r.tp1 => NatijaTogri(q)
<1>. DEFINE d == r.daraja
            t == r.tp1 \/ e[1] = "tp1_hit"
            n == IF e[1] \in Yopiqlar THEN blended_result_pct(d, e[2], t) ELSE r.natija
            q == apply_event(r, e[1], e[2], TRUE)
            bir == m.daraja = r.daraja /\ m.tp1 = r.tp1
<1>1. q = [r EXCEPT !.holat = e[1], !.tp1 = t, !.natija = n]  BY DEF apply_event
<1>2. r.daraja \in Terilgan /\ r.tp1 \in BOOLEAN /\ r.natija \in Int  BY DEF KQator
<1>3. /\ e[1] \in Ochiqlar \cup Yopiqlar
      /\ e[1] \in Yopiqlar => e[2] \in Int
      /\ bir => /\ e[1] \in Yopiqlar => d.stop <= e[2] /\ e[2] <= final_tp(d)
                /\ e[1] = "tp2_hit" => e[2] > d.entry
                /\ e[1] = "timed_out" /\ r.tp1 => e[2] > d.entry
                /\ e[1] = "stopped" /\ r.tp1 => e[2] = d.entry
                /\ e[1] = "stopped" => e[2] <= d.entry
  BY HodisaL
<1>4. t \in BOOLEAN /\ (e[1] \in Yopiqlar => (t <=> r.tp1))  BY <1>2 DEF Yopiqlar
<1>5. bir /\ e[1] \in Yopiqlar =>
        /\ (d.stop - d.entry) * 100 <= n /\ n <= (final_tp(d) - d.entry) * 100
        /\ e[2] > d.entry => n > 0
        /\ t /\ e[2] = d.entry /\ TP1_ULUSH > 0 => n > 0
        /\ ~t /\ e[2] <= d.entry => n <= 0
  <2>. HIDE DEF t, bir
  <2>. QED  BY <1>2, <1>3, <1>4, BlendedL
<1>6. n \in Int
  <2>1. d.entry \in Int /\ d.tp[1] \in Int  BY <1>2, DarajaL
  <2>2. TP1_ULUSH \in Int  BY KartaFarazi
  <2>. QED  BY <1>2, <1>3, <2>1, <2>2 DEF blended_result_pct
<1>7. /\ q.holat = e[1] /\ q.tp1 = t /\ q.natija = n
      /\ q.son = r.son /\ q.daraja = d /\ q.tasdiq = r.tasdiq /\ q \in KQator
  <2>. HIDE DEF t, n, q
  <2>. QED  BY <1>1, <1>3, <1>4, <1>6 DEF KQator, d
<1>8. bir => NatijaTogri(q)
  <2>. HIDE DEF t, n, q, d, bir
  <2>1. q.holat \in Yopiqlar => (q.tp1 <=> r.tp1)  BY <1>4, <1>7
  <2>2. /\ "tp2_hit" \in Yopiqlar /\ "timed_out" \in Yopiqlar /\ "stopped" \in Yopiqlar  BY DEF Yopiqlar
  <2>. QED  BY <1>3, <1>4, <1>5, <1>7, <2>1, <2>2 DEF NatijaTogri
<1>. QED  BY <1>7, <1>8

\* Whose levels were written to a row says nothing of its other columns.
LEMMA BegonaL ==
  ASSUME NEW y \in KQator, NEW b \in BOOLEAN
  PROVE  LET q == [y EXCEPT !.begona = b]
         IN  /\ q \in KQator /\ q.son = y.son /\ q.daraja = y.daraja /\ q.tasdiq = y.tasdiq
             /\ q.begona <=> b
             /\ NatijaTogri(y) => NatijaTogri(q)
<1>. DEFINE q == [y EXCEPT !.begona = b]
<1>1. /\ q \in KQator /\ q.son = y.son /\ q.daraja = y.daraja /\ q.tasdiq = y.tasdiq
      /\ q.begona = b /\ q.holat = y.holat /\ q.tp1 = y.tp1 /\ q.natija = y.natija
  BY DEF KQator
<1>. HIDE DEF q
<1>2. NatijaTogri(y) => NatijaTogri(q)  BY <1>1 DEF NatijaTogri
<1>. QED  BY <1>1, <1>2 DEF q

\* The highest of some ids, and so the id of a new row, which has none yet.
LEMMA KYangiL ==
  ASSUME KYangiId \in KIdlar
  PROVE  ~KBor(KYangiId)
<1>. DEFINE S == {0} \cup {id \in KIdlar : KBor(id)}
<1>1. PICK N \in Nat : KIdlar = 1..N
  <2>1. Cardinality(KIdlar) \in Nat  BY KartaFarazi, FS_CardinalityType
  <2>. QED  BY <2>1, KartaFarazi
<1>2. S \subseteq 0..N /\ 0 \in S  BY <1>1
<1>3. \E x \in S : \A y \in S : x >= y
  <2>. HIDE DEF S
  <2>. DEFINE T == {z \in 0..N : N - z \in S}
  <2>1. T \subseteq Nat  OBVIOUS
  <2>2. T # {}
    <3>1. N \in T  BY <1>2
    <3>. QED  BY <3>1
  <2>3. PICK z \in T : \A w \in T : ~(<<w, z>> \in OpToRel(<, Nat))
    <3>. HIDE DEF T
    <3>. QED  BY <2>1, <2>2, NatLessThanWellFounded, WFMin
  <2>4. z \in 0..N /\ N - z \in S  BY <2>3
  <2>5. ASSUME NEW y \in S PROVE N - z >= y
    <3>1. y \in 0..N  BY <1>2
    <3>2. N - y \in T  BY <3>1
    <3>3. ~(N - y < z)  BY <2>1, <2>3, <3>2 DEF OpToRel
    <3>. QED  BY <2>4, <3>1, <3>3
  <2>. QED  BY <2>4, <2>5
<1>4. \A y \in S : Max(S) >= y  BY <1>3 DEF Max
<1>5. KYangiId = 1 + Max(S)  BY DEF KYangiId
<1>6. Max(S) \in S  BY <1>3 DEF Max
<1>7. KBor(KYangiId) => KYangiId \in S  OBVIOUS
<1>8. Max(S) \in Int  BY <1>2, <1>6
<1>. HIDE DEF S
<1>. QED  BY <1>4, <1>5, <1>7, <1>8

LEMMA KBoshL == KInit => KInv
<1>. SUFFICES ASSUME KInit PROVE KInv  OBVIOUS
<1>1. KTypeOK  BY DEF KInit, KTypeOK, Menyu
<1>2. \A id \in KIdlar : kqatorlar[id] = KYoq  BY DEF KInit
<1>3. Kartalar = {} /\ ksorov = {}  BY DEF KInit, Kartalar, Menyu
<1>4. kekran.tur = "menyu" /\ kadmin.tur = "menyu"  BY DEF KInit, Menyu
<1>5. \A id \in KIdlar : knusxa[id] = KYoq  BY DEF KInit
<1>. QED  BY <1>1, <1>2, <1>3, <1>4, <1>5
          DEF KInv, QatorlarSoz, NusxalarSoz, EkranlarSoz, OziniOzgartiradi, KBor

\* Rows and deletions have moved; everything drawn stays true of them.
KSaqlanadi ==
    /\ \A k \in Kartalar : KartaSoz(ktarix, kqatorlar, kqaytgan, k)
                            => KartaSoz(ktarix', kqatorlar', kqaytgan', k)
    /\ \A id \in KIdlar, son \in Nat : KEski(kqatorlar, kqaytgan, id, son)
                                        => KEski(kqatorlar', kqaytgan', id, son)

LEMMA EkranQoladiL ==
  ASSUME KTypeOK, EkranlarSoz, KSaqlanadi, UNCHANGED <<kxabarlar, kekran, ksorov, kadmin>>
  PROVE  EkranlarSoz'
<1>1. Kartalar' = Kartalar  BY DEF Kartalar
<1>2. \A k \in Kartalar' : KartaSoz(ktarix', kqatorlar', kqaytgan', k)
  BY <1>1 DEF EkranlarSoz, KSaqlanadi
<1>3. kadmin.tur = "tasdiq" => kadmin.id \in KIdlar /\ kadmin.son \in Nat  BY DEF KTypeOK, Menyu
<1>4. kadmin'.tur = "tasdiq" => KEski(kqatorlar', kqaytgan', kadmin'.id, kadmin'.son)
  BY <1>3 DEF EkranlarSoz, KSaqlanadi
<1>. QED  BY <1>2, <1>4 DEF EkranlarSoz

LEMMA KartaIdL ==
  ASSUME KTypeOK, NEW k \in Kartalar
  PROVE  k \in KKarta /\ k.id \in KIdlar /\ k.son \in Nat
<1>1. k \in KKarta  BY DEF KTypeOK, Kartalar, Menyu
<1>. QED  BY <1>1 DEF KKarta

\* One row moves and stays of the same signal; a run that read it forgets it, or its
\* TP1 stays.
LEMMA QatorSiljirL ==
  ASSUME KInv, NEW id \in KIdlar, kqatorlar[id] # KYoq, NEW q \in KQator,
         QatorSoz(ktarix, q), q.son = kqatorlar[id].son,
         (q.tasdiq \in {0, q.son} /\ ~q.begona) \/ id \in kqaytgan,
         \/ (knusxa' = knusxa /\ q.tp1 = kqatorlar[id].tp1)
         \/ knusxa' = [knusxa EXCEPT ![id] = KYoq],
         kqatorlar' = [kqatorlar EXCEPT ![id] = q], UNCHANGED <<ktarix, kqaytgan>>
  PROVE  /\ kqatorlar' \in [KIdlar -> KQator \cup {KYoq}] /\ QatorlarSoz' /\ OziniOzgartiradi'
         /\ KSaqlanadi /\ NusxalarSoz' /\ knusxa' \in [KIdlar -> KQator \cup {KYoq}]
<1>1. kqatorlar \in [KIdlar -> KQator \cup {KYoq}] /\ knusxa \in [KIdlar -> KQator \cup {KYoq}]
  BY DEF KInv, KTypeOK
<1>2. kqatorlar'[id] = q /\ q # KYoq  BY <1>1, KYoqFarazi
<1>3. \A i \in KIdlar : i # id => kqatorlar'[i] = kqatorlar[i]  BY <1>1
<1>4. kqatorlar' \in [KIdlar -> KQator \cup {KYoq}]  BY <1>1
<1>5. \A i \in KIdlar : (kqatorlar'[i] # KYoq) <=> (kqatorlar[i] # KYoq)  BY <1>2, <1>3
<1>6. ktarix' = ktarix /\ kqaytgan' = kqaytgan  OBVIOUS
<1>7. QatorlarSoz'
  <2>. SUFFICES ASSUME NEW i \in KIdlar, kqatorlar'[i] # KYoq PROVE QatorSoz(ktarix', kqatorlar'[i])
    BY DEF QatorlarSoz
  <2>. QED  BY <1>2, <1>3, <1>6 DEF KInv, QatorlarSoz
<1>8. OziniOzgartiradi'
  <2>. SUFFICES ASSUME NEW i \in KIdlar \ kqaytgan, kqatorlar'[i] # KYoq
                PROVE  kqatorlar'[i].tasdiq \in {0, kqatorlar'[i].son} /\ ~kqatorlar'[i].begona
    BY <1>6 DEF OziniOzgartiradi, KBor
  <2>. QED  BY <1>2, <1>3 DEF KInv, OziniOzgartiradi, KBor
<1>9. \A i \in KIdlar : kqatorlar'[i] # KYoq => kqatorlar'[i].son = kqatorlar[i].son  BY <1>2, <1>3
<1>10. \A i \in KIdlar, son \in Nat : KEski(kqatorlar, kqaytgan, i, son)
                                        => KEski(kqatorlar', kqaytgan', i, son)
  BY <1>5, <1>6, <1>9 DEF KEski
<1>11. \A k \in Kartalar : k.id \in KIdlar /\ k.son \in Nat  BY KartaIdL DEF KInv
<1>12. NusxalarSoz'
  <2>. SUFFICES ASSUME NEW i \in KIdlar, knusxa'[i] # KYoq
                PROVE  NusxaSoz(ktarix', kqatorlar', kqaytgan', i, knusxa'[i])
    BY DEF NusxalarSoz
  <2>1. knusxa'[i] = knusxa[i] /\ (i = id => q.tp1 = kqatorlar[id].tp1)  BY <1>1
  <2>2. NusxaSoz(ktarix, kqatorlar, kqaytgan, i, knusxa[i])  BY <2>1 DEF KInv, NusxalarSoz
  <2>3. knusxa[i].son \in Nat  BY <1>1, <2>1 DEF KQator
  <2>4. kqatorlar'[i] # KYoq => kqatorlar'[i].tp1 = kqatorlar[i].tp1  BY <1>2, <1>3, <2>1
  <2>. QED  BY <1>5, <1>6, <1>9, <1>10, <2>1, <2>2, <2>3, <2>4 DEF NusxaSoz
<1>13. knusxa' \in [KIdlar -> KQator \cup {KYoq}]  BY <1>1
<1>. QED  BY <1>4, <1>6, <1>7, <1>8, <1>10, <1>11, <1>12, <1>13 DEF KSaqlanadi, KartaSoz

\* A row of a signal the type allows has levels in order.
LEMMA QatorDarajaL ==
  ASSUME KInv, NEW id \in KIdlar, kqatorlar[id] # KYoq
  PROVE  /\ kqatorlar[id] \in KQator /\ QatorSoz(ktarix, kqatorlar[id])
         /\ signal_levels(kqatorlar[id].daraja)
<1>1. kqatorlar[id] \in KQator  BY DEF KInv, KTypeOK
<1>2. QatorSoz(ktarix, kqatorlar[id])  BY DEF KInv, QatorlarSoz
<1>3. \A i \in DOMAIN ktarix : signal_levels(ktarix[i])
  <2>1. ktarix \in Seq({d \in Terilgan : signal_levels(d)})  BY DEF KInv, KTypeOK
  <2>2. \A i \in DOMAIN ktarix : ktarix[i] \in {d \in Terilgan : signal_levels(d)}  BY <2>1
  <2>. QED  BY <2>2
<1>. QED  BY <1>1, <1>2, <1>3 DEF QatorSoz

\* Rows and the history stay; a run forgets some of what it read.
LEMMA NusxaUnutilarL ==
  ASSUME KInv, UNCHANGED <<kqatorlar, ktarix, kxabarlar, kekran, kadmin, kqaytgan>>,
         ksorov' \subseteq ksorov, knusxa' \in [KIdlar -> KQator \cup {KYoq}],
         \A id \in KIdlar : knusxa'[id] # KYoq => knusxa'[id] = knusxa[id]
  PROVE  KInv'
<1>1. NusxalarSoz'  BY DEF KInv, NusxalarSoz
<1>2. QatorlarSoz' /\ OziniOzgartiradi'  BY DEF KInv, QatorlarSoz, OziniOzgartiradi, KBor
<1>3. Kartalar' \subseteq Kartalar  BY DEF Kartalar
<1>4. EkranlarSoz'  BY <1>3 DEF KInv, EkranlarSoz
<1>5. KTypeOK'  BY DEF KInv, KTypeOK
<1>. QED  BY <1>1, <1>2, <1>4, <1>5 DEF KInv

LEMMA KuzatuvchiL ==
  ASSUME KInv, NEW id \in KIdlar, KuzatuvchiYozadi(id)
  PROVE  KInv'
<1>1. PICK m : m = knusxa[id]  OBVIOUS
<1>2. m # KYoq /\ m \in KQator  BY <1>1 DEF KuzatuvchiYozadi, KInv, KTypeOK
<1>3. /\ knusxa' = [knusxa EXCEPT ![id] = KYoq]
      /\ UNCHANGED <<ktarix, kxabarlar, kekran, ksorov, kadmin, kqaytgan>>
  BY DEF KuzatuvchiYozadi
<1>4. NusxaSoz(ktarix, kqatorlar, kqaytgan, id, m)  BY <1>1, <1>2 DEF KInv, NusxalarSoz
<1>5. CASE ~KBor(id)
  <2>1. kqatorlar' = kqatorlar  BY <1>5 DEF KuzatuvchiYozadi
  <2>2. /\ knusxa' \in [KIdlar -> KQator \cup {KYoq}]
        /\ \A i \in KIdlar : knusxa'[i] # KYoq => knusxa'[i] = knusxa[i]
    BY <1>3 DEF KInv, KTypeOK
  <2>. QED  BY <1>3, <2>1, <2>2, NusxaUnutilarL
<1>6. CASE KBor(id)
  <2>1. PICK r : r = kqatorlar[id]  OBVIOUS
  <2>2. r # KYoq  BY <1>6, <2>1 DEF KBor
  <2>3. r \in KQator /\ QatorSoz(ktarix, r) /\ signal_levels(r.daraja)  BY <2>1, <2>2, QatorDarajaL
  <2>4. PICK b \in BOOLEAN : b = (r.begona \/ m.son # r.son)  OBVIOUS
  <2>5. PICK e \in Hodisalar(m) :
          kqatorlar' = [kqatorlar EXCEPT ![id] =
              [apply_event(r, e[1], e[2], TRUE) EXCEPT !.begona = r.begona \/ BoshqaSignal(id)]]
    BY <1>1, <1>6, <2>1 DEF KuzatuvchiYozadi
  <2>6. PICK y : y = apply_event(r, e[1], e[2], TRUE)  OBVIOUS
  <2>7. PICK q : q = [y EXCEPT !.begona = b]  OBVIOUS
  <2>8. kqatorlar' = [kqatorlar EXCEPT ![id] = q]
    <3>1. BoshqaSignal(id) <=> m.son # r.son  BY <1>1, <2>1 DEF BoshqaSignal
    <3>2. (r.begona \/ BoshqaSignal(id)) = b  BY <2>4, <3>1
    <3>. QED  BY <2>5, <2>6, <2>7, <3>2
  <2>9. \A i \in DOMAIN ktarix : signal_levels(ktarix[i])
    <3>1. ktarix \in Seq({d \in Terilgan : signal_levels(d)})  BY DEF KInv, KTypeOK
    <3>2. \A i \in DOMAIN ktarix : ktarix[i] \in {d \in Terilgan : signal_levels(d)}  BY <3>1
    <3>. QED  BY <3>2
  <2>10. m.holat \in Ochiqlar /\ signal_levels(m.daraja)  BY <1>4, <2>9 DEF NusxaSoz
  <2>11. ~b => m.daraja = r.daraja /\ m.tp1 = r.tp1
    BY <1>4, <2>1, <2>2, <2>3, <2>4 DEF NusxaSoz, QatorSoz
  <2>12. /\ q \in KQator /\ q.son = r.son /\ q.daraja = r.daraja /\ q.tasdiq = r.tasdiq
         /\ (q.begona <=> b) /\ (~b => NatijaTogri(q))
    <3>1. /\ y \in KQator /\ y.son = r.son /\ y.daraja = r.daraja /\ y.tasdiq = r.tasdiq
          /\ m.daraja = r.daraja /\ m.tp1 = r.tp1 => NatijaTogri(y)
      BY <1>2, <2>3, <2>6, <2>10, ApplyL
    <3>2. /\ q \in KQator /\ q.son = y.son /\ q.daraja = y.daraja /\ q.tasdiq = y.tasdiq
          /\ (q.begona <=> b) /\ (NatijaTogri(y) => NatijaTogri(q))
      BY <2>7, <3>1, BegonaL
    <3>. QED  BY <2>11, <3>1, <3>2
  <2>13. QatorSoz(ktarix, q)  BY <2>3, <2>12 DEF QatorSoz
  <2>14. (q.tasdiq \in {0, q.son} /\ ~q.begona) \/ id \in kqaytgan
    <3>. SUFFICES ASSUME id \notin kqaytgan PROVE q.tasdiq \in {0, q.son} /\ ~q.begona  OBVIOUS
    <3>1. r.tasdiq \in {0, r.son} /\ ~r.begona  BY <1>6, <2>1 DEF KInv, OziniOzgartiradi
    <3>2. m.son = r.son  BY <1>4, <2>1 DEF NusxaSoz, KEski
    <3>. QED  BY <2>4, <2>12, <3>1, <3>2
  <2>15. /\ kqatorlar' \in [KIdlar -> KQator \cup {KYoq}] /\ QatorlarSoz' /\ OziniOzgartiradi'
         /\ KSaqlanadi /\ NusxalarSoz' /\ knusxa' \in [KIdlar -> KQator \cup {KYoq}]
    BY <1>3, <2>1, <2>2, <2>8, <2>12, <2>13, <2>14, QatorSiljirL
  <2>16. EkranlarSoz'  BY <1>3, <2>15, EkranQoladiL DEF KInv
  <2>17. KTypeOK'  BY <1>3, <2>15 DEF KInv, KTypeOK
  <2>. QED  BY <2>15, <2>16, <2>17 DEF KInv
<1>. QED  BY <1>5, <1>6

\* A run reads the open rows as they are, or drops one it has read.
LEMMA OqiydiL ==
  ASSUME KInv, KuzatuvchiOqiydi \/ \E id \in KIdlar : KuzatuvchiTashlaydi(id)
  PROVE  KInv'
<1>1. CASE KuzatuvchiOqiydi
  <2>1. /\ knusxa' = [id \in KIdlar |-> IF KOchiq(id) THEN kqatorlar[id] ELSE KYoq]
        /\ UNCHANGED <<kqatorlar, ktarix, kxabarlar, kekran, ksorov, kadmin, kqaytgan>>
    BY <1>1 DEF KuzatuvchiOqiydi
  <2>2. knusxa' \in [KIdlar -> KQator \cup {KYoq}]  BY <2>1 DEF KInv, KTypeOK
  <2>3. NusxalarSoz'
    <3>. SUFFICES ASSUME NEW id \in KIdlar, knusxa'[id] # KYoq
                  PROVE  NusxaSoz(ktarix, kqatorlar, kqaytgan, id, knusxa'[id])
      BY <2>1 DEF NusxalarSoz
    <3>1. knusxa'[id] = kqatorlar[id] /\ kqatorlar[id] # KYoq /\ kqatorlar[id].holat \in Ochiqlar
      BY <2>1 DEF KOchiq, KBor
    <3>2. QatorSoz(ktarix, kqatorlar[id])  BY <3>1 DEF KInv, QatorlarSoz
    <3>. QED  BY <3>1, <3>2 DEF NusxaSoz, QatorSoz, KEski
  <2>4. QatorlarSoz' /\ OziniOzgartiradi'  BY <2>1 DEF KInv, QatorlarSoz, OziniOzgartiradi, KBor
  <2>5. Kartalar' = Kartalar  BY <2>1 DEF Kartalar
  <2>6. EkranlarSoz'  BY <2>1, <2>5 DEF KInv, EkranlarSoz
  <2>7. KTypeOK'  BY <2>1, <2>2 DEF KInv, KTypeOK
  <2>. QED  BY <2>3, <2>4, <2>6, <2>7 DEF KInv
<1>2. ASSUME NEW id \in KIdlar, KuzatuvchiTashlaydi(id) PROVE KInv'
  <2>1. /\ knusxa' = [knusxa EXCEPT ![id] = KYoq]
        /\ UNCHANGED <<kqatorlar, ktarix, kxabarlar, kekran, ksorov, kadmin, kqaytgan>>
    BY <1>2 DEF KuzatuvchiTashlaydi
  <2>2. /\ knusxa' \in [KIdlar -> KQator \cup {KYoq}]
        /\ \A i \in KIdlar : knusxa'[i] # KYoq => knusxa'[i] = knusxa[i]
    BY <2>1 DEF KInv, KTypeOK
  <2>. QED  BY <2>1, <2>2, NusxaUnutilarL
<1>. QED  BY <1>1, <1>2

LEMMA BekorL ==
  ASSUME KInv, NEW id \in KIdlar, cancel_open_signal(id)
  PROVE  KInv'
<1>. DEFINE r == kqatorlar[id]
<1>1. r # KYoq /\ r.holat \in Ochiqlar  BY DEF cancel_open_signal, KOchiq, KBor
<1>2. kadmin.tur = "tasdiq" /\ kadmin.id = id /\ kadmin.son \in Nat \ {0}
  <2>1. <<"cancel", id>> \in Tugmalar(kadmin)  BY DEF cancel_open_signal
  <2>2. kadmin.tur = "ochiqlar" => <<"cancel", id>> \notin Tugmalar(kadmin)
    BY DEF Tugmalar, open_signal_list
  <2>3. kadmin.tur = "menyu" => <<"cancel", id>> \notin Tugmalar(kadmin)
    BY DEF Tugmalar
  <2>4. kadmin.tur = "tasdiq" => /\ Tugmalar(kadmin) = cancel_confirm(kadmin.id)
                                 /\ kadmin.son \in Nat \ {0}
    BY DEF Tugmalar, KInv, KTypeOK, Menyu
  <2>5. kadmin.tur \in {"menyu", "ochiqlar", "tasdiq"}  BY DEF KInv, KTypeOK, Menyu
  <2>. QED  BY <2>1, <2>2, <2>3, <2>4, <2>5 DEF cancel_confirm
<1>3. /\ UNCHANGED <<ktarix, kxabarlar, kekran, ksorov, knusxa, kqaytgan>>
      /\ kadmin' = Menyu
  BY DEF cancel_open_signal
<1>4. PICK q : q = [apply_event(r, "cancelled", r.daraja.entry, FALSE) EXCEPT !.tasdiq = kadmin.son]
  OBVIOUS
<1>5. kqatorlar' = [kqatorlar EXCEPT ![id] = q]  BY <1>4 DEF cancel_open_signal
<1>6. r \in KQator /\ QatorSoz(ktarix, r) /\ signal_levels(r.daraja)  BY <1>1, QatorDarajaL
<1>7. kadmin.son = r.son \/ id \in kqaytgan
  BY <1>2 DEF KInv, EkranlarSoz, KEski
<1>. HIDE DEF r
<1>8. /\ q \in KQator /\ q.son = r.son /\ q.daraja = r.daraja /\ q.tasdiq = kadmin.son
      /\ q.holat = "cancelled" /\ q.natija = 0 /\ q.tp1 = r.tp1 /\ q.begona = r.begona
  <2>1. r.daraja.entry \in Int /\ r.daraja \in Terilgan  BY <1>6, DarajaL DEF KQator
  <2>2. blended_result_pct(r.daraja, r.daraja.entry, FALSE) = 0  BY <2>1 DEF blended_result_pct
  <2>3. apply_event(r, "cancelled", r.daraja.entry, FALSE)
          = [r EXCEPT !.holat = "cancelled", !.tp1 = r.tp1 \/ FALSE, !.natija = 0]
    BY <2>2 DEF apply_event, Yopiqlar
  <2>4. PICK t \in BOOLEAN : t = (r.tp1 \/ FALSE) /\ t = r.tp1
    <3>1. r.tp1 \in BOOLEAN  BY <1>6 DEF KQator
    <3>. QED  BY <3>1
  <2>5. q = Yozilgan(r, "cancelled", t, 0, kadmin.son)  BY <1>4, <2>3, <2>4 DEF Yozilgan
  <2>6. "cancelled" \in Ochiqlar \cup Yopiqlar /\ kadmin.son \in Nat  BY <1>2 DEF Yopiqlar
  <2>7. q.tp1 = r.tp1 /\ q.begona = r.begona  BY <1>6, <2>4, <2>5 DEF Yozilgan, KQator
  <2>. QED  BY <1>6, <2>5, <2>6, <2>7, YozilganL
<1>9. NatijaTogri(q)
  <2>1. /\ r.daraja.entry \in Int /\ r.daraja.stop \in Int /\ final_tp(r.daraja) \in Int
        /\ r.daraja.stop < r.daraja.entry /\ r.daraja.entry < final_tp(r.daraja)
    <3>1. r.daraja \in Terilgan  BY <1>6 DEF KQator
    <3>. QED  BY <1>6, <3>1, DarajaL
  <2>. QED  BY <1>8, <2>1 DEF NatijaTogri
<1>10. QatorSoz(ktarix, q)  BY <1>6, <1>8, <1>9 DEF QatorSoz
<1>11. id \notin kqaytgan => ~r.begona  BY <1>1 DEF KInv, OziniOzgartiradi, KBor, r
<1>14. /\ kqatorlar' \in [KIdlar -> KQator \cup {KYoq}] /\ QatorlarSoz' /\ OziniOzgartiradi'
       /\ KSaqlanadi /\ NusxalarSoz' /\ knusxa' \in [KIdlar -> KQator \cup {KYoq}]
  BY <1>1, <1>3, <1>5, <1>7, <1>8, <1>10, <1>11, QatorSiljirL DEF r
<1>12. EkranlarSoz'
  <2>1. Kartalar' = Kartalar  BY <1>3 DEF Kartalar
  <2>2. \A k \in Kartalar' : KartaSoz(ktarix', kqatorlar', kqaytgan', k)
    BY <1>14, <2>1 DEF KInv, EkranlarSoz, KSaqlanadi
  <2>. QED  BY <1>3, <2>2 DEF KInv, EkranlarSoz, Menyu
<1>13. KTypeOK'  BY <1>3, <1>14 DEF KInv, KTypeOK
<1>. QED  BY <1>12, <1>13, <1>14 DEF KInv

\* A row is made where there is none, for the next signal of the history.
LEMMA YaratiladiL ==
  ASSUME KInv, NEW d \in Terilgan, NEW p \in Int, Yaratiladi(d, p)
  PROVE  /\ kqatorlar' \in [KIdlar -> KQator \cup {KYoq}]
         /\ ktarix' \in Seq({x \in Terilgan : signal_levels(x)})
         /\ QatorlarSoz' /\ OziniOzgartiradi' /\ NusxalarSoz' /\ KSaqlanadi
         /\ KYangiId \in KIdlar /\ kqatorlar'[KYangiId].son \in Nat \ {0}
         /\ kqatorlar'[KYangiId].daraja = d
         /\ \A h, x : KartaSoz(ktarix', kqatorlar', kqaytgan',
                      render_signal_card(KYangiId, kqatorlar'[KYangiId], h, x))
<1>1. PICK n : n = KYangiId  OBVIOUS
<1>2. n \in KIdlar /\ kqatorlar[n] = KYoq  BY <1>1, KYangiL DEF Yaratiladi, KBor
<1>3. PICK r : r = [son |-> Len(ktarix) + 1, daraja |-> d, holat |-> "pending", tp1 |-> FALSE,
                    narx |-> p, natija |-> 0, tasdiq |-> 0, begona |-> FALSE]
  OBVIOUS
<1>4. kqatorlar' = [kqatorlar EXCEPT ![n] = r] /\ ktarix' = Append(ktarix, d)
      /\ kqaytgan' = kqaytgan /\ signal_levels(d)
  BY <1>1, <1>3 DEF Yaratiladi
<1>5. kqatorlar \in [KIdlar -> KQator \cup {KYoq}] /\ ktarix \in Seq({x \in Terilgan : signal_levels(x)})
  BY DEF KInv, KTypeOK
<1>6. Len(ktarix) \in Nat /\ DOMAIN ktarix = 1..Len(ktarix)  BY <1>5
<1>7. /\ ktarix' \in Seq({x \in Terilgan : signal_levels(x)}) /\ DOMAIN ktarix' = 1..Len(ktarix) + 1
      /\ ktarix'[Len(ktarix) + 1] = d /\ \A i \in DOMAIN ktarix : ktarix'[i] = ktarix[i]
  BY <1>4, <1>5
<1>8. \A i \in DOMAIN ktarix : i \in DOMAIN ktarix' /\ ktarix'[i] = ktarix[i]  BY <1>6, <1>7
<1>9. r \in KQator  BY <1>3, <1>6 DEF KQator, Ochiqlar
<1>10. /\ kqatorlar'[n] = r /\ \A i \in KIdlar : i # n => kqatorlar'[i] = kqatorlar[i]
       /\ kqatorlar' \in [KIdlar -> KQator \cup {KYoq}]
  BY <1>2, <1>4, <1>5, <1>9
<1>11. /\ r.son = Len(ktarix) + 1 /\ r.daraja = d /\ r.holat = "pending"
       /\ r.tasdiq = 0 /\ r.begona = FALSE
  BY <1>3
<1>12. r.son \in DOMAIN ktarix' /\ ktarix'[r.son] = d /\ r.son \in Nat \ {0}  BY <1>6, <1>7, <1>11
<1>13. QatorSoz(ktarix', r)  BY <1>11, <1>12 DEF QatorSoz, NatijaTogri, Yopiqlar
<1>14. \A x : QatorSoz(ktarix, x) => QatorSoz(ktarix', x)  BY <1>8 DEF QatorSoz
<1>15. QatorlarSoz'
  <2>. SUFFICES ASSUME NEW i \in KIdlar, kqatorlar'[i] # KYoq PROVE QatorSoz(ktarix', kqatorlar'[i])
    BY DEF QatorlarSoz
  <2>. QED  BY <1>10, <1>13, <1>14 DEF KInv, QatorlarSoz
<1>16. OziniOzgartiradi'
  <2>. SUFFICES ASSUME NEW i \in KIdlar \ kqaytgan, kqatorlar'[i] # KYoq
                PROVE  kqatorlar'[i].tasdiq \in {0, kqatorlar'[i].son} /\ ~kqatorlar'[i].begona
    BY <1>4 DEF OziniOzgartiradi, KBor
  <2>. QED  BY <1>10, <1>11 DEF KInv, OziniOzgartiradi, KBor
<1>17. \A i \in KIdlar, son \in Nat : KEski(kqatorlar, kqaytgan, i, son)
                                        => KEski(kqatorlar', kqaytgan', i, son)
  BY <1>2, <1>4, <1>10 DEF KEski
<1>18. \A k \in Kartalar : KartaSoz(ktarix, kqatorlar, kqaytgan, k)
                            => KartaSoz(ktarix', kqatorlar', kqaytgan', k)
  <2>1. \A k \in Kartalar : k.id \in KIdlar /\ k.son \in Nat  BY KartaIdL DEF KInv
  <2>. QED  BY <1>8, <1>17, <2>1 DEF KartaSoz
<1>19. r # KYoq  BY <1>9, KYoqFarazi
<1>20. \A h, x : KartaSoz(ktarix', kqatorlar', kqaytgan', render_signal_card(n, r, h, x))
  BY <1>10, <1>11, <1>12, <1>19 DEF KartaSoz, KEski, render_signal_card
<1>21. KSaqlanadi  BY <1>17, <1>18 DEF KSaqlanadi
<1>22. NusxalarSoz'
  <2>. SUFFICES ASSUME NEW i \in KIdlar, knusxa[i] # KYoq
                PROVE  NusxaSoz(ktarix', kqatorlar', kqaytgan', i, knusxa[i])
    BY DEF NusxalarSoz, Yaratiladi
  <2>1. knusxa[i] \in KQator /\ NusxaSoz(ktarix, kqatorlar, kqaytgan, i, knusxa[i])
    BY DEF KInv, KTypeOK, NusxalarSoz
  <2>2. knusxa[i].son \in 1..Len(ktarix) /\ knusxa[i].son \in Nat  BY <1>6, <2>1 DEF NusxaSoz
  <2>3. KEski(kqatorlar', kqaytgan', i, knusxa[i].son)  BY <1>17, <2>1, <2>2 DEF NusxaSoz
  <2>4. ktarix'[knusxa[i].son] = knusxa[i].daraja /\ knusxa[i].son \in DOMAIN ktarix'
    BY <1>8, <2>1 DEF NusxaSoz
  <2>5. kqatorlar'[i] # KYoq /\ kqatorlar'[i].son = knusxa[i].son => i # n
    BY <1>6, <1>10, <1>11, <2>2
  <2>. QED  BY <1>10, <2>1, <2>3, <2>4, <2>5 DEF NusxaSoz
<1>. QED  BY <1>1, <1>2, <1>7, <1>10, <1>11, <1>12, <1>15, <1>16, <1>20, <1>21, <1>22

LEMMA SignalYaratL ==
  ASSUME KInv, NEW d \in Terilgan, signalYarat(d)
  PROVE  KInv'
<1>1. Yaratiladi(d, d.entry) /\ kxabarlar' = kxabarlar  BY DEF signalYarat
<1>2. d.entry \in Int
  <2>1. d \in [entry : Int, stop : Int, tp : Seq(Int)]  BY KartaFarazi
  <2>. QED  BY <2>1
<1>3. /\ kqatorlar' \in [KIdlar -> KQator \cup {KYoq}]
      /\ ktarix' \in Seq({x \in Terilgan : signal_levels(x)})
      /\ QatorlarSoz' /\ OziniOzgartiradi' /\ NusxalarSoz' /\ KSaqlanadi
  BY <1>1, <1>2, YaratiladiL
<1>4. UNCHANGED <<kxabarlar, kekran, ksorov, knusxa, kadmin, kqaytgan>>  BY <1>1 DEF Yaratiladi
<1>5. EkranlarSoz'  BY <1>3, <1>4, EkranQoladiL DEF KInv
<1>6. KTypeOK'  BY <1>3, <1>4 DEF KInv, KTypeOK
<1>. QED  BY <1>3, <1>5, <1>6 DEF KInv

LEMMA SignalSendL ==
  ASSUME KInv, NEW d \in Terilgan, NEW p, signal_send(d, p)
  PROVE  KInv'
<1>1. d.entry \in Int
  <2>1. d \in [entry : Int, stop : Int, tp : Seq(Int)]  BY KartaFarazi
  <2>. QED  BY <2>1
<1>2. p \in Int  BY <1>1, KartaFarazi DEF signal_send, joriy_narx
<1>3. Yaratiladi(d, p)  BY DEF signal_send
<1>4. PICK k : k = render_signal_card(KYangiId, kqatorlar'[KYangiId], decide_entry_plan(p, d), p)
  OBVIOUS
<1>5. kxabarlar' = kxabarlar \cup {k}  BY <1>4 DEF signal_send
<1>6. /\ kqatorlar' \in [KIdlar -> KQator \cup {KYoq}]
      /\ ktarix' \in Seq({x \in Terilgan : signal_levels(x)})
      /\ QatorlarSoz' /\ OziniOzgartiradi' /\ NusxalarSoz' /\ KSaqlanadi
  BY <1>2, <1>3, YaratiladiL
<1>7. KartaSoz(ktarix', kqatorlar', kqaytgan', k)  BY <1>2, <1>3, <1>4, YaratiladiL
<1>8. k \in KKarta
  <2>1. decide_entry_plan(p, d) \in {"market", "limit"}  BY DEF decide_entry_plan
  <2>2. /\ KYangiId \in KIdlar /\ kqatorlar'[KYangiId].son \in Nat \ {0}
        /\ kqatorlar'[KYangiId].daraja = d
    BY <1>2, <1>3, YaratiladiL
  <2>. QED  BY <1>2, <1>4, <2>1, <2>2 DEF KKarta, render_signal_card
<1>9. UNCHANGED <<kekran, ksorov, knusxa, kadmin, kqaytgan>>  BY <1>3 DEF Yaratiladi
<1>10. EkranlarSoz'
  <2>1. Kartalar' = Kartalar \cup {k}  BY <1>5, <1>9 DEF Kartalar
  <2>2. \A x \in Kartalar' : KartaSoz(ktarix', kqatorlar', kqaytgan', x)
    BY <1>6, <1>7, <2>1 DEF KInv, EkranlarSoz, KSaqlanadi
  <2>3. kadmin.tur = "tasdiq" => kadmin.id \in KIdlar /\ kadmin.son \in Nat
    BY DEF KInv, KTypeOK, Menyu
  <2>4. kadmin'.tur = "tasdiq" => KEski(kqatorlar', kqaytgan', kadmin'.id, kadmin'.son)
    BY <1>6, <1>9, <2>3 DEF KInv, EkranlarSoz, KSaqlanadi
  <2>. QED  BY <1>9, <2>2, <2>4 DEF KInv, EkranlarSoz
<1>11. KTypeOK'  BY <1>5, <1>6, <1>8, <1>9 DEF KInv, KTypeOK
<1>. QED  BY <1>6, <1>10, <1>11 DEF KInv

LEMMA OchiriladiL ==
  ASSUME KInv, NEW id \in KIdlar, SaytdaOchiriladi(id)
  PROVE  KInv'
<1>1. /\ kqatorlar' = [kqatorlar EXCEPT ![id] = KYoq] /\ kqaytgan' = kqaytgan \cup {id}
      /\ UNCHANGED <<ktarix, kxabarlar, kekran, ksorov, knusxa, kadmin>>
  BY DEF SaytdaOchiriladi
<1>2. kqatorlar \in [KIdlar -> KQator \cup {KYoq}]  BY DEF KInv, KTypeOK
<1>3. /\ kqatorlar' \in [KIdlar -> KQator \cup {KYoq}] /\ kqatorlar'[id] = KYoq
      /\ \A i \in KIdlar : i # id => kqatorlar'[i] = kqatorlar[i]
  BY <1>1, <1>2
<1>4. QatorlarSoz'  BY <1>1, <1>3 DEF KInv, QatorlarSoz
<1>5. OziniOzgartiradi'  BY <1>1, <1>3 DEF KInv, OziniOzgartiradi, KBor
<1>6. \A i \in KIdlar, son \in Nat : KEski(kqatorlar, kqaytgan, i, son)
                                        => KEski(kqatorlar', kqaytgan', i, son)
  BY <1>1, <1>3 DEF KEski
<1>7. KSaqlanadi
  <2>1. \A k \in Kartalar : k.id \in KIdlar /\ k.son \in Nat  BY KartaIdL DEF KInv
  <2>. QED  BY <1>1, <1>6, <2>1 DEF KSaqlanadi, KartaSoz
<1>8. EkranlarSoz'  BY <1>1, <1>7, EkranQoladiL DEF KInv
<1>9. KTypeOK'  BY <1>1, <1>3 DEF KInv, KTypeOK
<1>10. NusxalarSoz'
  <2>. SUFFICES ASSUME NEW i \in KIdlar, knusxa[i] # KYoq
                PROVE  NusxaSoz(ktarix', kqatorlar', kqaytgan', i, knusxa[i])
    BY <1>1 DEF NusxalarSoz
  <2>1. knusxa[i] \in KQator /\ NusxaSoz(ktarix, kqatorlar, kqaytgan, i, knusxa[i])
    BY DEF KInv, KTypeOK, NusxalarSoz
  <2>2. knusxa[i].son \in Nat  BY <2>1 DEF KQator
  <2>. QED  BY <1>1, <1>3, <1>6, <2>1, <2>2 DEF NusxaSoz
<1>. QED  BY <1>4, <1>5, <1>8, <1>9, <1>10 DEF KInv

\* The rows are left alone: the screens are all that is left to show.
LEMMA QatorlarQoladiL ==
  ASSUME KInv, UNCHANGED <<kqatorlar, ktarix, knusxa, kqaytgan>>
  PROVE  QatorlarSoz' /\ OziniOzgartiradi' /\ NusxalarSoz'
  BY DEF KInv, QatorlarSoz, OziniOzgartiradi, NusxalarSoz, KBor

\* A card drawn from a row as it is.
LEMMA KartaChizilL ==
  ASSUME KInv, NEW id \in KIdlar, kqatorlar[id] # KYoq, is_enterable(kqatorlar[id].holat), NEW p \in Int
  PROVE  LET k == render_signal_card(id, kqatorlar[id], kqatorlar[id].holat, p)
         IN  k \in KKarta /\ KartaSoz(ktarix, kqatorlar, kqaytgan, k) /\ is_enterable(k.harakat)
<1>1. PICK r : r = kqatorlar[id]  OBVIOUS
<1>2. PICK k : k = render_signal_card(id, r, r.holat, p)  OBVIOUS
<1>3. r \in KQator /\ r.son \in DOMAIN ktarix /\ r.daraja = ktarix[r.son]
  BY <1>1, QatorDarajaL DEF QatorSoz
<1>4. r.son \in Nat \ {0}
  <2>1. ktarix \in Seq({d \in Terilgan : signal_levels(d)})  BY DEF KInv, KTypeOK
  <2>2. DOMAIN ktarix = 1..Len(ktarix) /\ Len(ktarix) \in Nat  BY <2>1
  <2>. QED  BY <1>3, <2>2
<1>5. r.daraja \in Terilgan  BY <1>3 DEF KQator
<1>6. /\ k.id = id /\ k.son = r.son /\ k.daraja = r.daraja /\ k.harakat = r.holat
      /\ k = [tur |-> "karta", id |-> id, son |-> r.son, harakat |-> r.holat,
              daraja |-> r.daraja, narx |-> p]
  BY <1>2 DEF render_signal_card
<1>7. r.holat \in {"pending", "active"}  BY <1>1 DEF is_enterable
<1>8. k \in KKarta  BY <1>4, <1>5, <1>6, <1>7 DEF KKarta
<1>9. KartaSoz(ktarix, kqatorlar, kqaytgan, k)  BY <1>1, <1>3, <1>6 DEF KartaSoz, KEski
<1>. QED  BY <1>1, <1>2, <1>6, <1>8, <1>9

LEMMA ShowL ==
  ASSUME KInv, NEW id \in KIdlar, show_signal(id)
  PROVE  KInv'
<1>1. kqatorlar[id] # KYoq /\ is_enterable(kqatorlar[id].holat)  BY DEF show_signal, KBor
<1>2. PICK k : k = render_signal_card(id, kqatorlar[id], kqatorlar[id].holat, kqatorlar[id].narx)
  OBVIOUS
<1>3. ksorov' = ksorov \cup {k} /\ UNCHANGED <<kqatorlar, ktarix, kxabarlar, kekran, knusxa, kadmin, kqaytgan>>
  BY <1>2 DEF show_signal
<1>4. kqatorlar[id].narx \in Int  BY <1>1, QatorDarajaL DEF KQator
<1>5. k \in KKarta /\ KartaSoz(ktarix, kqatorlar, kqaytgan, k) /\ is_enterable(k.harakat)
  BY <1>1, <1>2, <1>4, KartaChizilL
<1>6. QatorlarSoz' /\ OziniOzgartiradi' /\ NusxalarSoz'  BY <1>3, QatorlarQoladiL
<1>7. Kartalar' = Kartalar \cup {k}  BY <1>3 DEF Kartalar
<1>8. EkranlarSoz'  BY <1>3, <1>5, <1>7 DEF KInv, EkranlarSoz
<1>9. KTypeOK'  BY <1>3, <1>5 DEF KInv, KTypeOK
<1>. QED  BY <1>6, <1>8, <1>9 DEF KInv

LEMMA ChiqadiL ==
  ASSUME KInv, NEW k \in ksorov, NEW p \in joriy_narx(k.narx), KartaChiqadi(k, p)
  PROVE  KInv'
<1>1. k \in KKarta /\ k \in Kartalar  BY DEF KInv, KTypeOK, Kartalar
<1>2. p \in Int
  <2>1. k.narx \in Int  BY <1>1 DEF KKarta
  <2>. QED  BY <2>1, KartaFarazi DEF joriy_narx
<1>3. PICK e : e = render_signal_card(k.id, k, k.harakat, p)  OBVIOUS
<1>4. kekran' = e /\ ksorov' = ksorov \ {k} /\ UNCHANGED <<kqatorlar, ktarix, kxabarlar, knusxa, kadmin, kqaytgan>>
  BY <1>3 DEF KartaChiqadi
<1>5. e \in KKarta /\ e.id = k.id /\ e.son = k.son /\ e.daraja = k.daraja /\ e.harakat = k.harakat
      /\ e.tur = "karta"
  BY <1>1, <1>2, <1>3 DEF KKarta, render_signal_card
<1>6. KartaSoz(ktarix, kqatorlar, kqaytgan, k) /\ is_enterable(k.harakat)
  BY <1>1 DEF KInv, EkranlarSoz
<1>7. KartaSoz(ktarix, kqatorlar, kqaytgan, e) /\ is_enterable(e.harakat)
  BY <1>5, <1>6 DEF KartaSoz
<1>8. Kartalar' \subseteq Kartalar \cup {e}  BY <1>4 DEF Kartalar
<1>9. EkranlarSoz'
  <2>1. \A x \in Kartalar' : KartaSoz(ktarix', kqatorlar', kqaytgan', x)
    BY <1>4, <1>7, <1>8 DEF KInv, EkranlarSoz
  <2>. QED  BY <1>4, <1>5, <1>7, <2>1 DEF KInv, EkranlarSoz
<1>10. KTypeOK'  BY <1>4, <1>5 DEF KInv, KTypeOK
<1>11. QatorlarSoz' /\ OziniOzgartiradi' /\ NusxalarSoz'  BY <1>4, QatorlarQoladiL
<1>. QED  BY <1>9, <1>10, <1>11 DEF KInv

\* A screen without a card in it takes the place of the subscriber's or the admin's.
LEMMA RoyxatL ==
  ASSUME KInv, list_signals \/ open_signals_list
  PROVE  KInv'
<1>1. UNCHANGED <<kqatorlar, ktarix, kxabarlar, knusxa, kqaytgan>>
  BY DEF list_signals, open_signals_list
<1>2. QatorlarSoz' /\ OziniOzgartiradi' /\ NusxalarSoz'  BY <1>1, QatorlarQoladiL
<1>3. CASE list_signals
  <2>. DEFINE ochiqlar == {id \in KIdlar : KOchiq(id)}
              kirish == {id \in ochiqlar : is_enterable(kqatorlar[id].holat)}
  <2>1. ksorov' = ksorov /\ kadmin' = kadmin  BY <1>3 DEF list_signals
  <2>2. \/ kekran' = Menyu
        \/ kekran' = [tur |-> "royxat", kirish |-> kirish, kech |-> ochiqlar \ kirish]
    BY <1>3 DEF list_signals
  <2>3. kirish \subseteq KIdlar /\ ochiqlar \ kirish \subseteq KIdlar /\ kirish \cap (ochiqlar \ kirish) = {}
    OBVIOUS
  <2>. HIDE DEF ochiqlar, kirish
  <2>4. kekran'.tur # "karta" /\ (kekran'.tur = "royxat" => kekran'.kirish \cap kekran'.kech = {})
    BY <2>2, <2>3 DEF Menyu
  <2>5. kekran' \in {Menyu} \cup [tur : {"royxat"}, kirish : SUBSET KIdlar, kech : SUBSET KIdlar]
    BY <2>2, <2>3
  <2>6. Kartalar' \subseteq Kartalar  BY <1>1, <2>1, <2>4 DEF Kartalar
  <2>7. EkranlarSoz'  BY <1>1, <2>1, <2>4, <2>6 DEF KInv, EkranlarSoz
  <2>8. KTypeOK'  BY <1>1, <2>1, <2>5 DEF KInv, KTypeOK
  <2>. QED  BY <1>2, <2>7, <2>8 DEF KInv
<1>5. CASE open_signals_list
  <2>1. ksorov' = ksorov /\ kekran' = kekran  BY <1>5 DEF open_signals_list
  <2>2. kadmin' = Menyu \/ kadmin' = [tur |-> "ochiqlar", idlar |-> {id \in KIdlar : KOchiq(id)}]
    BY <1>5 DEF open_signals_list
  <2>3. kadmin'.tur # "tasdiq"  BY <2>2 DEF Menyu
  <2>4. kadmin' \in {Menyu} \cup [tur : {"ochiqlar"}, idlar : SUBSET KIdlar]  BY <2>2
  <2>5. Kartalar' = Kartalar  BY <1>1, <2>1 DEF Kartalar
  <2>6. EkranlarSoz'  BY <1>1, <2>1, <2>3, <2>5 DEF KInv, EkranlarSoz
  <2>7. KTypeOK'  BY <1>1, <2>1, <2>4 DEF KInv, KTypeOK
  <2>. QED  BY <1>2, <2>6, <2>7 DEF KInv
<1>. QED  BY <1>3, <1>5

\* A restart forgets the presses and the run.
LEMMA QaytaYurdiL ==
  ASSUME KInv, BotQaytaYurdi
  PROVE  KInv'
<1>1. /\ UNCHANGED <<kqatorlar, ktarix, kxabarlar, kekran, kadmin, kqaytgan>>
      /\ ksorov' \subseteq ksorov /\ knusxa' \in [KIdlar -> KQator \cup {KYoq}]
      /\ \A id \in KIdlar : knusxa'[id] # KYoq => knusxa'[id] = knusxa[id]
  BY DEF BotQaytaYurdi
<1>. QED  BY <1>1, NusxaUnutilarL

LEMMA TasdiqL ==
  ASSUME KInv, NEW id \in KIdlar, confirm_cancel(id)
  PROVE  KInv'
<1>1. kqatorlar[id] # KYoq  BY DEF confirm_cancel, KOchiq, KBor
<1>2. PICK son : son = kqatorlar[id].son  OBVIOUS
<1>3. /\ kadmin' = [tur |-> "tasdiq", id |-> id, son |-> son]
      /\ UNCHANGED <<kqatorlar, ktarix, kxabarlar, kekran, ksorov, knusxa, kqaytgan>>
  BY <1>2 DEF confirm_cancel
<1>4. son \in Nat \ {0}
  <2>1. son \in DOMAIN ktarix  BY <1>1, <1>2, QatorDarajaL DEF QatorSoz
  <2>2. ktarix \in Seq({d \in Terilgan : signal_levels(d)})  BY DEF KInv, KTypeOK
  <2>3. DOMAIN ktarix = 1..Len(ktarix) /\ Len(ktarix) \in Nat  BY <2>2
  <2>. QED  BY <2>1, <2>3
<1>5. QatorlarSoz' /\ OziniOzgartiradi' /\ NusxalarSoz'  BY <1>3, QatorlarQoladiL
<1>6. KEski(kqatorlar', kqaytgan', kadmin'.id, kadmin'.son)  BY <1>1, <1>2, <1>3 DEF KEski
<1>7. Kartalar' = Kartalar  BY <1>3 DEF Kartalar
<1>8. EkranlarSoz'  BY <1>3, <1>6, <1>7 DEF KInv, EkranlarSoz
<1>9. KTypeOK'  BY <1>3, <1>4 DEF KInv, KTypeOK
<1>. QED  BY <1>5, <1>8, <1>9 DEF KInv

LEMMA KQadamL == KInv /\ [KNext]_kvars => KInv'
<1>. SUFFICES ASSUME KInv, [KNext]_kvars PROVE KInv'  OBVIOUS
<1>1. CASE \E d \in Terilgan, p \in KNarxlar \cup {e.entry : e \in Terilgan} : signal_send(d, p)
  BY <1>1, SignalSendL
<1>2. CASE \E d \in Terilgan : signalYarat(d)  BY <1>2, SignalYaratL
<1>3. CASE \E id \in KIdlar : KuzatuvchiYozadi(id) \/ SaytdaOchiriladi(id)
  BY <1>3, KuzatuvchiL, OchiriladiL
<1>4. CASE \E id \in KIdlar : show_signal(id)  BY <1>4, ShowL
<1>5. CASE \E k \in ksorov : \E p \in joriy_narx(k.narx) : KartaChiqadi(k, p)  BY <1>5, ChiqadiL
<1>6. CASE list_signals \/ open_signals_list  BY <1>6, RoyxatL
<1>9. CASE KuzatuvchiOqiydi \/ \E id \in KIdlar : KuzatuvchiTashlaydi(id)  BY <1>9, OqiydiL
<1>10. CASE BotQaytaYurdi  BY <1>10, QaytaYurdiL
<1>7. CASE \E id \in KIdlar : confirm_cancel(id) \/ cancel_open_signal(id)  BY <1>7, TasdiqL, BekorL
<1>8. CASE UNCHANGED kvars
  <2>1. UNCHANGED <<kqatorlar, ktarix, kxabarlar, kekran, ksorov, knusxa, kadmin, kqaytgan>>
    BY <1>8 DEF kvars
  <2>2. Kartalar' = Kartalar  BY <2>1 DEF Kartalar
  <2>3. EkranlarSoz'  BY <2>1, <2>2 DEF KInv, EkranlarSoz
  <2>4. KTypeOK'  BY <2>1 DEF KInv, KTypeOK
  <2>. QED  BY <2>1, <2>3, <2>4, QatorlarQoladiL DEF KInv
<1>. QED  BY <1>1, <1>2, <1>3, <1>4, <1>5, <1>6, <1>7, <1>8, <1>9, <1>10 DEF KNext

LEMMA KartochkaL == KInv => KartochkaRost
<1>. SUFFICES ASSUME KInv PROVE KartochkaRost  OBVIOUS
<1>1. KartaButun
  <2>1. \A k \in Kartalar : /\ k.son \in DOMAIN ktarix /\ k.daraja = ktarix[k.son]
                            /\ Oshami(k.id, k.son)
    BY DEF KInv, EkranlarSoz, KartaSoz, KEski, Oshami, KBor
  <2>2. \A k \in Kartalar \ kxabarlar : is_enterable(k.harakat)
    BY DEF KInv, EkranlarSoz, Kartalar
  <2>. QED  BY <2>1, <2>2 DEF KInv, EkranlarSoz, KartaButun
<1>2. NatijaOraligi  BY DEF KInv, QatorlarSoz, QatorSoz, NatijaOraligi, KBor
<1>. QED  BY <1>1, <1>2 DEF KInv, KartochkaRost

(* What people are shown is of one signal and true, however stale the list  *)
(* or the question they press on, whatever the rows, the deletions and the  *)
(* ids given again do between reading a row and the exchange's answer; the  *)
(* admin cancels what the question named, and a run of the watcher, which   *)
(* writes long after it has read, moves what it read, unless the id was     *)
(* given again; and no result written by a close lies outside what the      *)
(* signal's levels and the part sold at TP1 allow, even where the close     *)
(* overwrote a cancellation, for every list of levels, price, share and     *)
(* number of ids and presses.                                               *)
THEOREM KartochkaTeoremasi == KSpec => []KartochkaRost
<1>1. KInit => KInv  BY KBoshL
<1>2. KInv /\ [KNext]_kvars => KInv'  BY KQadamL
<1>3. KInv => KartochkaRost  BY KartochkaL
<1>. QED  BY <1>1, <1>2, <1>3, PTL DEF KSpec
=============================================================================
