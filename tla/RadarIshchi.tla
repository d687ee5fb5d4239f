------------------------------ MODULE RadarIshchi -----------------------------
(* The explosion radar's worker (core/portlash_radari/ishchi.py, sessiya.py,  *)
(* repository.py, baholash.py): one process, its own supervisor, one endless   *)
(* loop.  A pass (qadam) takes the admin's request, fills the volume cache if  *)
(* it is empty, runs the sessions that are due, then the requested one, the    *)
(* daily refresh and the hourly grading.  The session's row is committed       *)
(* before the session runs and its results with its end, so a crash, an error  *)
(* or a failed write may come between.  The site only sets the request flag.   *)
EXTENDS RadarTartib

CONSTANTS
    Coinlar,          \* futures symbols
    HajmQayta,        \* HAJM_QAYTA_URINISH
    HajmSoati,        \* radar.hajm_yangilash_soat/daqiqa: time of the daily refresh
    BahoOraligi,      \* BAHOLASH_ORALIGI
    BahoKutish,       \* age at which a result is graded (24 hours, 7 days)
    VozKechish,       \* Davr.voz_kechish
    BahoLimit,        \* baholanadiganlar(limit)
    MaxSoat,          \* bound: last instant
    MaxUzilish,       \* bound: crashes
    MaxXato,          \* bound: failed writes
    MaxSorov          \* bound: presses of "check now"

ASSUME IshchiFarazi ==
    /\ HajmQayta \in Nat \ {0} /\ BahoOraligi \in Nat \ {0} /\ HajmSoati \in 0..(KunDavri - 1)
    /\ BahoKutish \in Nat /\ VozKechish \in Nat /\ BahoLimit \in Nat \ {0}
    /\ BahoKutish <= VozKechish
    /\ {MaxSoat, MaxUzilish, MaxXato, MaxSorov} \subseteq Nat

VARIABLES
    soat,        \* the clock
    sessiyalar,  \* table radar_sessiyalar with its radar_natijalar, by id
    sorov,       \* radar_holati.sorov
    hajm,        \* radar_holati.hajm_yangilandi
    delist,      \* the exchange: coins whose candles it no longer has
    ish,         \* the process's memory (see Toza)
    bosildi,     \* history: presses of "check now"
    uzilish,     \* history: crashes
    xato,        \* history: failed writes
    yozilmagan,  \* history: rows whose closing write failed
    urinish      \* history: the last refresh tried in this life of the process

vars == <<soat, sessiyalar, sorov, hajm, delist, ish, bosildi, uzilish, xato,
          yozilmagan, urinish>>
tarix == <<bosildi, uzilish, xato, yozilmagan, urinish>>

Yoq == -1        \* None
YURMOQDA == "yurmoqda"
TUGADI == "tugadi"
XATO == "xato"

\* A process that has just started.  pc: where the loop stands; reja: due
\* sessions not looked at yet, of the timetable read at korildi; joriy: the row
\* it is running (0: none).
Toza == [pc |-> "boshlash", sorov |-> FALSE, hajmOldi |-> Yoq, hajmQilindi |-> FALSE,
         reja |-> <<>>, korildi |-> Yoq, joriy |-> 0,
         hajmUrinish |-> Yoq, bahoVaqti |-> Yoq]

Ochiq(h) == h = YURMOQDA
Natijasiz == [c \in Coinlar |-> [qator |-> "yoq", nomzod |-> FALSE, holat |-> "yoq",
                                 ketma |-> 0, orinli |-> FALSE, baho |-> "yoq"]]

Slotda(i, r) == sessiyalar[i].turi = r.turi /\ sessiyalar[i].sham = r.sham

-----------------------------------------------------------------------------
\* What the repository answers

\* Mutant: only a finished session counts, a failed one is tried again.
RasmiyTugagan(r) == \E i \in DOMAIN sessiyalar : Slotda(i, r) /\ sessiyalar[i].holat = TUGADI

rasmiy_bormi(r) == \E i \in DOMAIN sessiyalar : Slotda(i, r)

\* The id of the finished session of a slot, 0 when there is none.
tugagan_sessiya(r) ==
    LET bor == {i \in DOMAIN sessiyalar : Slotda(i, r) /\ sessiyalar[i].holat = TUGADI}
    IN IF bor = {} THEN 0 ELSE CHOOSE i \in bor : \A k \in bor : k <= i

\* The last finished B session before a candle, 0 when there is none.
oldingi_tasdiq(sham) ==
    LET bor == {i \in DOMAIN sessiyalar : /\ sessiyalar[i].turi = TASDIQ
                                          /\ sessiyalar[i].sham < sham
                                          /\ sessiyalar[i].holat = TUGADI}
    IN IF bor = {} THEN 0
       ELSE CHOOSE i \in bor : \A k \in bor : \/ sessiyalar[k].sham < sessiyalar[i].sham
                                              \/ sessiyalar[k].sham = sessiyalar[i].sham /\ k <= i

\* sessiya_boshla: the new row.  The start is read of B sessions only (grading).
YangiSessiya(r) == [turi |-> r.turi, sham |-> r.sham, holat |-> YURMOQDA,
                    boshlandi |-> IF r.turi = TASDIQ THEN soat ELSE Yoq, natija |-> Natijasiz]

\* sessiya_yakunla of a failed session.
Yopilgan(i) == [sessiyalar EXCEPT ![i].holat = XATO]

yurmoqda_qolganlarni_yop ==
    [i \in DOMAIN sessiyalar |->
        IF Ochiq(sessiyalar[i].holat) THEN [sessiyalar[i] EXCEPT !.holat = XATO] ELSE sessiyalar[i]]
-----------------------------------------------------------------------------
\* What a session writes of a coin

\* The coins that hold a place in row i.
Orinlilar(i) == IF i = 0 THEN {} ELSE {c \in Coinlar : sessiyalar[i].natija[c].orinli}

\* Was c a candidate of the A session of r's candle?
ANomzod(r, c) ==
    LET a == tugagan_sessiya(Rejadagi(KASHFIYOT, r.sham)) IN
    IF r.turi # TASDIQ \/ a = 0 THEN "none"
    ELSE IF sessiyalar[a].natija[c].nomzod /\ sessiyalar[a].natija[c].qator = "elak" THEN "ha"
    ELSE "yoq"

\* The streak the coin brings from the neighbouring session of the same kind.
OldingiKetma(r, c) ==
    IF r.turi \notin RASMIY_TURLAR THEN 0
    ELSE LET q == tugagan_sessiya(oldingi_rasmiy_slot(r)) IN
         IF q # 0 /\ sessiyalar[q].natija[c].nomzod THEN sessiyalar[q].natija[c].ketma ELSE 0

\* What the market, the settings and the hidden list leave of the coins: the
\* sieve's pool, the sample drawn outside it (never a candidate of A, which goes
\* back to the pool, nor a coin that held a place), the candidates, the hidden.
Bozor(r) ==
    {b \in [elak : SUBSET Coinlar, namuna : SUBSET Coinlar,
            nomzod : SUBSET Coinlar, yashirin : SUBSET Coinlar] :
        /\ b.elak \cap b.namuna = {} /\ b.nomzod \subseteq b.elak \cup b.namuna
        /\ b.yashirin \subseteq b.elak
        /\ \A c \in b.namuna : /\ ANomzod(r, c) # "ha"
                               /\ r.turi = TASDIQ => c \notin Orinlilar(oldingi_tasdiq(r.sham))}

\* The rows of one session.  Those of a requested session no other session reads,
\* they are left out, as are the places of an A session.  A coin that held a place and is in neither pool nor
\* sample gets a row of its own ("chiqdi"), with its price only.
Natija(r, b) ==
    IF r.turi = QOLDA THEN Natijasiz ELSE
    [c \in Coinlar |->
        IF c \in b.elak \cup b.namuna
        THEN [qator |-> IF c \in b.elak THEN "elak" ELSE "namuna",
              nomzod |-> c \in b.nomzod,
              holat |-> holat(r.turi, c \in b.nomzod, ANomzod(r, c)),
              ketma |-> IF c \in b.elak
                        THEN ketma_ket(r.turi, c \in b.nomzod, OldingiKetma(r, c)) ELSE 0,
              orinli |-> r.turi = TASDIQ /\ c \in b.elak \ b.yashirin,
              baho |-> "yoq"]
        ELSE [Natijasiz[c] EXCEPT
                !.qator = IF r.turi = TASDIQ /\ c \in Orinlilar(oldingi_tasdiq(r.sham))
                          THEN "chiqdi" ELSE "yoq"]]
-----------------------------------------------------------------------------
\* The process

Init ==
    /\ soat = 0 /\ sessiyalar = <<>> /\ sorov = FALSE /\ hajm \in {Yoq, 0} /\ delist = {}
    /\ ish = Toza
    /\ bosildi = 0 /\ uzilish = 0 /\ xato = 0
    /\ yozilmagan = {} /\ urinish = Yoq

\* yur: what a life that died left running is closed before the loop begins.
Boshlanadi ==
    /\ ish.pc = "boshlash"
    /\ sessiyalar' = yurmoqda_qolganlarni_yop
    /\ ish' = [ish EXCEPT !.pc = "uyqu"]
    /\ UNCHANGED <<soat, sorov, hajm, delist, tarix>>

\* sorovni_ol: what stays of the flag once it is read.
SorovdanKeyin(bayroq) == FALSE

\* Mutant: the flag is looked at in the first pass of a life only.
QadamBoshiBirinchi ==
    /\ ish.pc = "uyqu"
    /\ ish' = [ish EXCEPT !.pc = "hajm", !.sorov = sorov /\ ish.bahoVaqti = Yoq,
                          !.hajmOldi = hajm, !.hajmQilindi = FALSE]
    /\ sorov' = (sorov /\ ish.bahoVaqti # Yoq)
    /\ UNCHANGED <<soat, sessiyalar, hajm, delist, tarix>>

\* qadam, first session: the flag is taken, the mark of the cache is read.
QadamBoshi ==
    /\ ish.pc = "uyqu"
    /\ ish' = [ish EXCEPT !.pc = "hajm", !.sorov = sorov, !.hajmOldi = hajm,
                          !.hajmQilindi = FALSE]
    /\ sorov' = SorovdanKeyin(sorov)
    /\ UNCHANGED <<soat, sessiyalar, hajm, delist, tarix>>

\* Mutant: after a failure the refresh is tried again at once.
HajmDarhol(u) == TRUE

HajmVaqtiKeldimi(u) == u = Yoq \/ soat - u >= HajmQayta

\* qadam: is a refresh due here (before the sessions: no cache; after: the day's)?
HajmKerak ==
    /\ HajmVaqtiKeldimi(ish.hajmUrinish)
    /\ \/ ish.pc = "hajm" /\ ish.hajmOldi = Yoq
       \/ /\ ish.pc = "hajm2" /\ ~ish.hajmQilindi /\ ish.hajmOldi # Yoq
          /\ ish.hajmOldi < kunlik_yangilash_vaqti(soat, HajmSoati)

\* The loop's error path: the pass ends, what it had in hand is lost.
Yiqilgan == [ish EXCEPT !.pc = "uxladi", !.sorov = FALSE, !.reja = <<>>, !.joriy = 0]

\* Past the refresh m: the timetable is read, or the grading is next.
Davomi(m) ==
    IF m.pc = "hajm" THEN [m EXCEPT !.pc = "slot", !.reja = bajariladiganlar(soat), !.korildi = soat]
    ELSE [m EXCEPT !.pc = "baho"]

\* hajmni_yangila: enough coins answered and the mark is set, or too few did
\* (none, or a part that is written all the same) and it is not.
HajmYangilanadi ==
    /\ HajmKerak
    /\ hajm' \in {hajm, soat}
    /\ ish' = Davomi([ish EXCEPT !.hajmUrinish = soat, !.hajmQilindi = TRUE])
    /\ urinish' = soat
    /\ UNCHANGED <<soat, sessiyalar, sorov, delist, bosildi, uzilish, xato, yozilmagan>>

\* The write of the cache fails: the attempt is remembered, the pass ends.
HajmYiqiladi ==
    /\ HajmKerak /\ xato < MaxXato
    /\ xato' = xato + 1
    /\ ish' = [Yiqilgan EXCEPT !.hajmUrinish = soat]
    /\ urinish' = soat
    /\ UNCHANGED <<soat, sessiyalar, sorov, hajm, delist, bosildi, uzilish, yozilmagan>>

HajmKerakEmas ==
    /\ ish.pc \in {"hajm", "hajm2"} /\ ~HajmKerak
    /\ ish' = Davomi(ish)
    /\ UNCHANGED <<soat, sessiyalar, sorov, hajm, delist, tarix>>

\* A slot that has a row is passed over, whatever became of it.
SlotBor ==
    /\ ish.pc = "slot" /\ ish.reja # <<>> /\ rasmiy_bormi(Head(ish.reja))
    /\ ish' = [ish EXCEPT !.reja = Tail(@)]
    /\ UNCHANGED <<soat, sessiyalar, sorov, hajm, delist, tarix>>

\* RadarSessiyasi.yur: the row is committed, then the session runs.
SessiyaBoshlanadi ==
    /\ ish.pc = "slot" /\ ish.reja # <<>> /\ ~rasmiy_bormi(Head(ish.reja))
    /\ sessiyalar' = Append(sessiyalar, YangiSessiya(Head(ish.reja)))
    /\ ish' = [ish EXCEPT !.pc = "sessiya", !.reja = Tail(@), !.joriy = Len(sessiyalar) + 1]
    /\ UNCHANGED <<soat, sorov, hajm, delist, tarix>>

\* The list is done: the admin's session, if one was asked for.
QoldaBoshlanadi ==
    /\ ish.pc = "slot" /\ ish.reja = <<>> /\ ish.sorov
    /\ sessiyalar' = Append(sessiyalar, YangiSessiya(Rejadagi(QOLDA, keyingi_sham(soat))))
    /\ ish' = [ish EXCEPT !.pc = "sessiya", !.sorov = FALSE, !.joriy = Len(sessiyalar) + 1]
    /\ UNCHANGED <<soat, sorov, hajm, delist, tarix>>

QoldaYoq ==
    /\ ish.pc = "slot" /\ ish.reja = <<>> /\ ~ish.sorov
    /\ ish' = [ish EXCEPT !.pc = "hajm2"]
    /\ UNCHANGED <<soat, sessiyalar, sorov, hajm, delist, tarix>>

\* The session's first write fails: no row, the pass ends.
SlotYiqiladi ==
    /\ ish.pc = "slot" /\ (ish.sorov \/ ish.reja # <<>>) /\ xato < MaxXato
    /\ xato' = xato + 1
    /\ ish' = Yiqilgan
    /\ UNCHANGED <<soat, sessiyalar, sorov, hajm, delist, bosildi, uzilish, yozilmagan, urinish>>

\* _hisobla: results and end in one transaction.  What it reads of earlier
\* sessions nobody else writes, so reading and writing are one step here.
SessiyaTugaydi ==
    /\ ish.pc = "sessiya"
    /\ LET r == Rejadagi(sessiyalar[ish.joriy].turi, sessiyalar[ish.joriy].sham) IN
       \E b \in Bozor(r) :
          sessiyalar' = [sessiyalar EXCEPT ![ish.joriy].natija = Natija(r, b),
                                           ![ish.joriy].holat = TUGADI]
    /\ ish' = [ish EXCEPT !.pc = "slot", !.joriy = 0]
    /\ UNCHANGED <<soat, sorov, hajm, delist, tarix>>

\* Mutant: a failed session is tried again at once, without end.
SessiyaQaytadan ==
    /\ ish.pc = "sessiya"
    /\ ish' = [ish EXCEPT !.hajmQilindi = ~@]
    /\ UNCHANGED <<soat, sessiyalar, sorov, hajm, delist, tarix>>

\* A source or the last write fails: the row is closed as failed, the pass goes on.
SessiyaYiqiladi ==
    /\ ish.pc = "sessiya"
    /\ sessiyalar' = Yopilgan(ish.joriy)
    /\ ish' = [ish EXCEPT !.pc = "slot", !.joriy = 0]
    /\ UNCHANGED <<soat, sorov, hajm, delist, tarix>>

\* The write that closes it fails as well: the exception ends the pass, the row
\* stays "yurmoqda" until the process starts again.
SessiyaYopilmaydi ==
    /\ ish.pc = "sessiya" /\ xato < MaxXato
    /\ xato' = xato + 1
    /\ yozilmagan' = yozilmagan \cup {ish.joriy}
    /\ ish' = Yiqilgan
    /\ UNCHANGED <<soat, sessiyalar, sorov, hajm, delist, bosildi, uzilish, urinish>>
-----------------------------------------------------------------------------
\* Grading (baholash.py)

\* The ungraded results of finished B sessions that are old enough.
Yetilgan ==
    {x \in (DOMAIN sessiyalar) \X Coinlar :
        LET s == sessiyalar[x[1]] IN
        /\ s.turi = TASDIQ /\ s.holat = TUGADI
        /\ s.natija[x[2]].qator \in {"elak", "namuna"} /\ s.natija[x[2]].baho = "yoq"
        /\ s.boshlandi <= soat - BahoKutish}

\* baholanadiganlar: the oldest ones, at most BahoLimit.
Navbatlar ==
    {N \in SUBSET Yetilgan :
        /\ Cardinality(N) = IF Cardinality(Yetilgan) < BahoLimit THEN Cardinality(Yetilgan)
                            ELSE BahoLimit
        /\ \A x \in N, y \in Yetilgan \ N : sessiyalar[x[1]].boshlandi <= sessiyalar[y[1]].boshlandi}

\* What the exchange answers for a coin: the request fails, candles come, or the
\* coin is gone and the list is empty.
Javoblar(c) == {"yiqildi"} \cup (IF c \in delist THEN {"bosh"} ELSE {"shamlar"})

\* Mutant: a failed request counts as an empty list.
BittaYiqilganBosh(i, javob) ==
    CASE javob = "shamlar" -> "bor"
      [] javob # "shamlar" /\ soat - sessiyalar[i].boshlandi > VozKechish -> "bosh"
      [] OTHER -> "yoq"

\* _bitta: graded, closed empty after VozKechish, or left for the next hour.
Bitta(i, javob) ==
    CASE javob = "shamlar" -> "bor"
      [] javob = "bosh" /\ soat - sessiyalar[i].boshlandi > VozKechish -> "bosh"
      [] OTHER -> "yoq"

BahoVaqti == ish.bahoVaqti = Yoq \/ soat - ish.bahoVaqti >= BahoOraligi

\* The results of row i once the queue N was answered with j.
Baholangan(i, N, j) ==
    [c \in Coinlar |->
        IF <<i, c>> \in N THEN [sessiyalar[i].natija[c] EXCEPT !.baho = Bitta(i, j[<<i, c>>])]
        ELSE sessiyalar[i].natija[c]]

\* The hour is marked in memory first, then the queue is read, asked and written.
Baholanadi ==
    /\ ish.pc = "baho" /\ BahoVaqti
    /\ \E N \in Navbatlar :
       \E j \in [N -> {"yiqildi", "bosh", "shamlar"}] :
          /\ \A x \in N : j[x] \in Javoblar(x[2])
          /\ sessiyalar' = [i \in DOMAIN sessiyalar |->
                [sessiyalar[i] EXCEPT !.natija = Baholangan(i, N, j)]]
    /\ ish' = [ish EXCEPT !.pc = "uxladi", !.bahoVaqti = soat]
    /\ UNCHANGED <<soat, sorov, hajm, delist, tarix>>

\* A write fails: nothing is graded, the hour counts all the same.
BahoYiqiladi ==
    /\ ish.pc = "baho" /\ BahoVaqti /\ xato < MaxXato
    /\ xato' = xato + 1
    /\ ish' = [Yiqilgan EXCEPT !.bahoVaqti = soat]
    /\ UNCHANGED <<soat, sessiyalar, sorov, hajm, delist, bosildi, uzilish, yozilmagan,
                   urinish>>

BahoErta ==
    /\ ish.pc = "baho" /\ ~BahoVaqti
    /\ ish' = [ish EXCEPT !.pc = "uxladi"]
    /\ UNCHANGED <<soat, sessiyalar, sorov, hajm, delist, tarix>>
-----------------------------------------------------------------------------
\* The world around it

\* Where the process waits for the network or sleeps; its own reads and writes
\* take no time.
Kutmoqda ==
    \/ ish.pc \in {"boshlash", "sessiya", "uxladi"} \/ HajmKerak
    \/ ish.pc = "baho" /\ BahoVaqti /\ Yetilgan # {}

\* uyqu: at most a minute, far less than an instant here: a process asleep makes
\* a pass in every instant ("uyqu" holds the clock).
Tik ==
    /\ soat < MaxSoat /\ Kutmoqda
    /\ soat' = soat + 1
    /\ ish' = [ish EXCEPT !.pc = IF @ = "uxladi" THEN "uyqu" ELSE @]
    /\ UNCHANGED <<sessiyalar, sorov, hajm, delist, tarix>>

\* A pass within the same instant.
Uygonadi ==
    /\ ish.pc = "uxladi" /\ sorov
    /\ ish' = [ish EXCEPT !.pc = "uyqu"]
    /\ UNCHANGED <<soat, sessiyalar, sorov, hajm, delist, tarix>>

\* radarSora: the site sets the flag.
RadarSora ==
    /\ bosildi < MaxSorov
    /\ sorov' = TRUE /\ bosildi' = bosildi + 1
    /\ UNCHANGED <<soat, sessiyalar, hajm, delist, ish, uzilish, xato, yozilmagan, urinish>>

\* The process dies anywhere; radar_nazoratchisi starts it again.
Uziladi ==
    /\ uzilish < MaxUzilish
    /\ uzilish' = uzilish + 1
    /\ ish' = Toza
    /\ urinish' = Yoq
    /\ UNCHANGED <<soat, sessiyalar, sorov, hajm, delist, bosildi, xato, yozilmagan>>

\* The exchange drops a coin.
Delist ==
    \E c \in Coinlar \ delist :
        /\ delist' = delist \cup {c}
        /\ UNCHANGED <<soat, sessiyalar, sorov, hajm, ish, tarix>>

Ishchi ==
    \/ Boshlanadi \/ QadamBoshi
    \/ HajmYangilanadi \/ HajmYiqiladi \/ HajmKerakEmas
    \/ SlotBor \/ SessiyaBoshlanadi \/ QoldaBoshlanadi \/ QoldaYoq \/ SlotYiqiladi
    \/ SessiyaTugaydi \/ SessiyaYiqiladi \/ SessiyaYopilmaydi
    \/ Baholanadi \/ BahoYiqiladi \/ BahoErta \/ Uygonadi

Next == Ishchi \/ Tik \/ RadarSora \/ Uziladi \/ Delist

Spec == Init /\ [][Next]_vars

\* The loop runs as long as the process does (asyncio, the supervisor); the
\* clock, the admin, the exchange and the crashes are free.
FairSpec == Spec /\ WF_vars(Ishchi)
-----------------------------------------------------------------------------
\* Properties

Slotlar == {Rejadagi(turi, ShamDavri * k) : turi \in RASMIY_TURLAR, k \in 0..(MaxSoat \div ShamDavri + 2)}
Qatorlar(r) == {i \in DOMAIN sessiyalar : Slotda(i, r)}

TypeOK ==
    /\ soat \in 0..MaxSoat /\ sorov \in BOOLEAN /\ hajm \in {Yoq} \cup 0..MaxSoat
    /\ delist \subseteq Coinlar
    /\ \A i \in DOMAIN sessiyalar :
          /\ sessiyalar[i].turi \in RASMIY_TURLAR \cup {QOLDA}
          /\ sessiyalar[i].holat \in {YURMOQDA, TUGADI, XATO}
          /\ sessiyalar[i].boshlandi \in {Yoq} \cup 0..soat
    /\ ish.joriy \in {0} \cup DOMAIN sessiyalar
    /\ ish.pc \in {"boshlash", "uyqu", "hajm", "slot", "sessiya", "hajm2", "baho", "uxladi"}
    /\ bosildi \in 0..MaxSorov /\ uzilish \in 0..MaxUzilish /\ xato \in 0..MaxXato
    /\ yozilmagan \subseteq DOMAIN sessiyalar /\ {hajm, urinish} \subseteq {Yoq} \cup 0..MaxSoat

\* Crashes, failed sessions and failed writes never make a slot run twice: the
\* exchange is not asked again and again for a session it could not serve.
SlotBirMarta == \A r \in Slotlar : Cardinality(Qatorlar(r)) <= 1

\* Once a pass is past the timetable, every slot whose window held the instant it
\* was read at has its row: done, failed, or left behind by a life that died.
SlotOlinadi ==
    ish.pc \in {"hajm2", "baho"} =>
        \A r \in Slotlar : Oynada(r, ish.korildi) => Qatorlar(r) # {}

\* What the screen shows as running is run by the process that lives: but for a
\* row whose closing write failed, and until a restart, nothing else is "yurmoqda".
YurmoqdaRost ==
    ish.pc # "boshlash" =>
        \A i \in DOMAIN sessiyalar :
            sessiyalar[i].holat = YURMOQDA => i = ish.joriy \/ i \in yozilmagan

\* A press makes one session at most, whatever fails after the flag was taken.
SorovBirMarta == Cardinality({i \in DOMAIN sessiyalar : sessiyalar[i].turi = QOLDA}) <= bosildi

\* Every slot runs exactly once, never twice and never unseen, and every press
\* of the admin's button no more than once (ishchi.py).
SlotlarTogri == TypeOK /\ SlotBirMarta /\ SlotOlinadi /\ SorovBirMarta

\* Whether c was a candidate of the slot's finished session.
NomzodEdi(r, c) ==
    \E i \in Qatorlar(r) : /\ sessiyalar[i].holat = TUGADI
                           /\ sessiyalar[i].natija[c].qator = "elak"
                           /\ sessiyalar[i].natija[c].nomzod

\* "N-th time in a row": the streak written is the number of sessions of the same
\* kind, candle by candle, in which the coin was a candidate; a session that was
\* missed or failed breaks it.
KetmaTogri ==
    \A i \in DOMAIN sessiyalar : \A c \in Coinlar :
        LET s == sessiyalar[i]
            k == s.natija[c].ketma
        IN s.turi \in RASMIY_TURLAR =>
             /\ \A n \in 0..(k - 1) : NomzodEdi(Rejadagi(s.turi, s.sham - n * ShamDavri), c)
             /\ k > 0 => ~NomzodEdi(Rejadagi(s.turi, s.sham - k * ShamDavri), c)

\* "Confirmed" needs both looks at the same candle, and both finished.
TasdiqIkkiKorik ==
    \A i \in DOMAIN sessiyalar : \A c \in Coinlar :
        sessiyalar[i].natija[c].holat = "tasdiqlangan" =>
            \A turi \in RASMIY_TURLAR : NomzodEdi(Rejadagi(turi, sessiyalar[i].sham), c)

\* A coin that held a place does not vanish from the next finished B session,
\* however many sessions failed or were missed in between.
ChiqdiKorinadi ==
    \A i, k \in DOMAIN sessiyalar :
        /\ sessiyalar[i].turi = TASDIQ /\ sessiyalar[i].holat = TUGADI
        /\ sessiyalar[k].turi = TASDIQ /\ sessiyalar[k].holat = TUGADI
        /\ sessiyalar[i].sham < sessiyalar[k].sham
        /\ \A m \in DOMAIN sessiyalar :
              ~(/\ sessiyalar[m].turi = TASDIQ /\ sessiyalar[m].holat = TUGADI
                /\ sessiyalar[i].sham < sessiyalar[m].sham /\ sessiyalar[m].sham < sessiyalar[k].sham)
        => \A c \in Orinlilar(i) : sessiyalar[k].natija[c].qator # "yoq"

\* Within one life of the process two refreshes of the volumes are HajmQayta
\* apart, whether the first failed, was partial or succeeded.
HajmOraligi ==
    [][urinish # Yoq /\ urinish' \notin {Yoq, urinish} => urinish' - urinish >= HajmQayta]_vars

\* A result is closed without numbers only for a coin the exchange no longer has,
\* never because requests failed for days.
BahoBoshRost ==
    \A i \in DOMAIN sessiyalar : \A c \in Coinlar :
        sessiyalar[i].natija[c].baho = "bosh" => c \in delist

\* What the screen concludes from several sessions follows from them: streaks,
\* confirmations, coins that lost their place, which session runs, and results
\* closed without numbers.
KorinishTogri ==
    KetmaTogri /\ TasdiqIkkiKorik /\ ChiqdiKorinadi /\ YurmoqdaRost /\ BahoBoshRost

Yuradi == \E i \in DOMAIN sessiyalar : sessiyalar[i].holat = YURMOQDA /\ i \notin yozilmagan

\* A row that runs is closed in the end, through errors and restarts, unless the
\* very write that closes it failed (one runs at a time, see YurmoqdaRost).
YurmoqdaYopiladi == Yuradi ~> ~Yuradi

\* The admin's request is always taken.
SorovOlinadi == sorov ~> ~sorov

=============================================================================
