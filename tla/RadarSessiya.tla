----------------------------- MODULE RadarSessiya -----------------------------
(* One session of the radar from inside (core/portlash_radari/sessiya.py,       *)
(* _hisobla): it asks the exchange for everything at once, reads the database,  *)
(* sieves, asks CoinGecko about what is left, asks the exchange coin by coin,   *)
(* counts the checks, gives the places and writes.  Each await is a step; what  *)
(* the exchange and the database hold stays the same meanwhile, any request may *)
(* fail.  RadarIshchi knows only the result (Bozor, Natija there).              *)
EXTENDS RadarManba

CONSTANTS
    Symbollar,      \* futures symbols, in alphabetical order
    BTC,            \* BTCUSDT
    MAX_POOL,
    BOLAK,          \* CoinGecko: names per request
    ZAXIRA_SAHIFALAR,
    MaxNosoz        \* bound: how many requests (or rounds of requests) fail

ASSUME SessiyaFarazi ==
    /\ Symbollar \subseteq Nat /\ BTC \in Symbollar
    /\ {MAX_POOL, BOLAK, ZAXIRA_SAHIFALAR, MIN_TARIX_KUN} \subseteq Nat \ {0}
    /\ IsFiniteSet(Symbollar) /\ MaxNosoz \in Nat

VARIABLES
    birja,    \* what the sources would answer
    baza,     \* what the database says when it is read
    ses,      \* the session's local variables
    jurnal,   \* its ManbaJurnali
    qator,    \* radar_natijalar: the rows of this session
    nosoz     \* history: requests that failed

svars == <<birja, baza, ses, jurnal, qator, nosoz>>

Bosha == [x \in {} |-> x]

BoshSes(turi) ==
    [pc |-> "juftliklar", turi |-> turi, juft |-> Bosha, ticker |-> Bosha, stavka |-> Bosha,
     oraliq |-> Bosha, elak |-> {}, pool |-> {}, nomzodlar |-> <<>>, namuna |-> {},
     bolaklar |-> <<>>, kerak |-> {}, sahifa |-> 1, ta |-> Bosha, oi |-> Bosha, ls |-> Bosha,
     oiYoq |-> {}, unlock |-> Bosha, izoh |-> ""]

\* What the sources hold.  Raw values and names, see RadarManba.
Xom == {"son", "bool", "buzuq"} \X Int
CgQatori == [belgi : STRING \X STRING, cap : Xom, narx : Xom, muomalada : Xom, jami : Xom, maksimal : Xom]
Nom == STRING \X STRING

BirjaTuri ==
    /\ birja.juft \in Seq([symbol : Symbollar, nomli : BOOLEAN, perpetual : BOOLEAN, usdt : BOOLEAN,
                           savdoda : BOOLEAN, asos : STRING, asosiy : Nom, yosh : Xom])
    /\ birja.ticker \in Seq([symbol : Symbollar, nomli : BOOLEAN, narx : Xom, ozgarish : Xom,
                             hajm24 : Xom])
    /\ birja.premium \in Seq([symbol : Symbollar, nomli : BOOLEAN, stavka : Xom])
    /\ birja.oraliq \in Seq([symbol : Symbollar, nomli : BOOLEAN, oraliq : Xom])
    /\ birja.cg \in Seq(CgQatori)
    /\ birja.sahifalar \in [1..ZAXIRA_SAHIFALAR -> Seq(CgQatori)]

\* What the database holds: means by coin, hidden coins, A's candidates of the
\* candle (aBor: there is such a session), the coins that hold a place, and the
\* streaks of the neighbouring slot's candidates (qoshni: it has a session).
BazaTuri ==
    /\ DOMAIN baza.ortachalar \subseteq Symbollar
    /\ \A s \in DOMAIN baza.ortachalar : baza.ortachalar[s] \in Seq(Int \X Int) \X Nat
    /\ {baza.yashirin, baza.aNomzod, baza.orinli} \subseteq SUBSET Symbollar
    /\ {baza.aBor, baza.qoshni} \subseteq BOOLEAN
    /\ DOMAIN baza.ketma \subseteq Symbollar /\ (baza.qoshni \/ baza.ketma = Bosha)

SessiyaInit ==
    /\ BirjaTuri /\ BazaTuri
    /\ \E turi \in RASMIY_TURLAR \cup {QOLDA} : ses = BoshSes(turi)
    /\ jurnal = BoshJurnal /\ qator = Bosha /\ nosoz = 0

\* What a request may bring: its rows, or, while the bound allows, no answer, a
\* refusal, or a body of another shape.
Javoblari(tana) ==
    {[kod |-> 200, royxat |-> TRUE, tana |-> tana]}
        \cup (IF nosoz < MaxNosoz THEN {[Bosh EXCEPT !.kod = k] : k \in {TARMOQ, 451, 200}} ELSE {})

Sanaldi(a) == nosoz' = nosoz + (IF a.royxat THEN 0 ELSE 1)

\* yur: the failed session is closed with no rows; izoh is what the admin reads
\* (_manba_xatosi).
Yiqilish(izoh) == [ses EXCEPT !.pc = "xato", !.izoh = izoh]
ManbaXatosi(j) == Yiqilish(IF cheklangan(j) THEN "cheklangan" ELSE "bermadi")
-----------------------------------------------------------------------------
\* 1. The bulk requests

\* Without pairs, and without tickers, nothing can be computed.
JuftliklarOlinadi ==
    /\ ses.pc = "juftliklar"
    /\ \E a \in Javoblari(birja.juft) :
         LET juft == juftliklarni_ajrat(a)
         IN /\ Sanaldi(a)
            /\ jurnal' = yoz(jurnal, "juftliklar", a.kod)
            /\ ses' = IF juft = Bosha THEN ManbaXatosi(jurnal')
                      ELSE [ses EXCEPT !.pc = "ticker", !.juft = juft]
    /\ UNCHANGED <<birja, baza, qator>>

TickerlarOlinadi ==
    /\ ses.pc = "ticker"
    /\ \E a \in Javoblari(birja.ticker) :
         LET t == tickerlarni_ajrat(a)
         IN /\ Sanaldi(a)
            /\ jurnal' = yoz(jurnal, "ticker", a.kod)
            /\ ses' = IF t = Bosha THEN ManbaXatosi(jurnal') ELSE [ses EXCEPT !.pc = "stavka", !.ticker = t]
    /\ UNCHANGED <<birja, baza, qator>>

StavkalarOlinadi ==
    /\ ses.pc = "stavka"
    /\ \E a \in Javoblari(birja.premium) :
         /\ Sanaldi(a)
         /\ jurnal' = yoz(jurnal, "funding", a.kod)
         /\ ses' = [ses EXCEPT !.pc = "oraliq", !.stavka = fundingni_ajrat(a)]
    /\ UNCHANGED <<birja, baza, qator>>

OraliqlarOlinadi ==
    /\ ses.pc = "oraliq"
    /\ \E a \in Javoblari(birja.oraliq) :
         /\ Sanaldi(a)
         /\ jurnal' = yoz(jurnal, "funding_oraliq", a.kod)
         /\ ses' = [ses EXCEPT !.pc = "elak", !.oraliq = oraliqlarni_ajrat(a)]
    /\ UNCHANGED <<birja, baza, qator>>
-----------------------------------------------------------------------------
\* 2. Gate, sieve, the second look

\* meta_ol.  A coin the cache does not have is not new for that: its age decides.
Meta(s) ==
    LET keshda == s \in DOMAIN baza.ortachalar
        o == IF keshda THEN baza.ortachalar[s] ELSE <<NOMALUM, 0>>
        yangi == yangi_listingmi(ses.juft[s].yosh, IF keshda THEN o[2] ELSE MIN_TARIX_KUN)
        hajm24 == IF s \in DOMAIN ses.ticker THEN ses.ticker[s].hajm24 ELSE NOMALUM
    IN [yangi |-> yangi, ortacha |-> o[1], kunlar |-> o[2],
        nisbat |-> IF yangi THEN NOMALUM ELSE hajm_nisbati(hajm24, o[1], o[2])]

Darvoza ==
    {s \in DOMAIN ses.juft \cap DOMAIN ses.ticker :
        /\ ses.ticker[s].hajm24 # NOMALUM
        /\ ses.ticker[s].hajm24[1] >= Ch.min_hajm_24s_usd}

Elakdan == {s \in Darvoza : Kamida(Meta(s).nisbat, Ch.elak_hajm_x) \/ Meta(s).yangi}

\* The candidates of this candle's A session and the coins that held a place:
\* read for a B session only.
ANomzodlar == IF ses.turi = TASDIQ /\ baza.aBor THEN baza.aNomzod ELSE {}
OldingiOrinli == IF ses.turi = TASDIQ THEN baza.orinli ELSE {}

\* Candidates of A are looked at again even if they fell out of the sieve.
QaytaQaraladi == {s \in ANomzodlar : s \in DOMAIN ses.juft /\ s \in DOMAIN ses.ticker}

\* MAX_POOL: when there are too many, those with the largest ratio.
Kesilgan(P) ==
    LET nisbat(s) == IF Meta(s).nisbat = NOMALUM THEN <<0, 1>> ELSE Meta(s).nisbat[1]
        oldin(s, t) == \/ Katta(nisbat(s), nisbat(t))
                       \/ ~Katta(nisbat(t), nisbat(s)) /\ s < t
    IN IF Cardinality(P) <= MAX_POOL THEN P
       ELSE {s \in P : Cardinality({t \in P : oldin(t, s)}) < MAX_POOL}

Belgilar(S) == {ses.juft[s].belgi : s \in S}

\* CoinGecko is asked BOLAK names at a time.
Bolaklar(K) ==
    LET q == SetToSeq(K)
        n == (Len(q) + BOLAK - 1) \div BOLAK
    IN [i \in 1..n |-> {q[k] : k \in {k \in DOMAIN q : (k - 1) \div BOLAK = i - 1}}]

Elanadi ==
    /\ ses.pc = "elak"
    /\ LET keng == Elakdan \cup QaytaQaraladi
           qolgan == Darvoza \ keng
           pool == Kesilgan(keng)
       IN \E q \in namuna_tanla(qolgan \ OldingiOrinli, 2 * Ch.namuna_soni) :
             LET kerak == Belgilar(pool \cup Range(q)) IN
             ses' = [ses EXCEPT !.pc = IF kerak = {} THEN "saralash" ELSE "coingecko",
                                !.elak = keng, !.pool = pool, !.nomzodlar = q,
                                !.bolaklar = Bolaklar(kerak), !.kerak = kerak]
    /\ UNCHANGED <<birja, baza, jurnal, qator, nosoz>>
-----------------------------------------------------------------------------
\* 3-4. CoinGecko, the gate of capitalisation, the sample

\* A dictionary over another.
Birga(f, g) == [x \in DOMAIN f \cup DOMAIN g |-> IF x \in DOMAIN f THEN f[x] ELSE g[x]]

\* CoinGeckoTaminot.ol: chunk by chunk; the first that fails ends them, what was
\* found is kept and the rest is looked for in the list of the largest coins.
BolakOlinadi ==
    /\ ses.pc = "coingecko"
    /\ \E a \in Javoblari(birja.cg) :
         LET ta == Birga(taminotni_ajrat(a, Head(ses.bolaklar)), ses.ta)
         IN /\ Sanaldi(a)
            /\ IF Otdi(a)
               THEN /\ ses' = [ses EXCEPT !.ta = ta, !.bolaklar = Tail(@),
                                          !.pc = IF Len(ses.bolaklar) = 1 THEN "saralash" ELSE @]
                    /\ jurnal' = IF Len(ses.bolaklar) = 1 THEN yoz(jurnal, "coingecko", 200) ELSE jurnal
               ELSE /\ ses' = [ses EXCEPT !.pc = "sahifa", !.bolaklar = <<>>]
                    /\ jurnal' = yoz(jurnal, "coingecko", a.kod)
    /\ UNCHANGED <<birja, baza, qator>>

\* _sahifalab: up to ZAXIRA_SAHIFALAR pages, until one fails or all are found.
SahifaOlinadi ==
    /\ ses.pc = "sahifa"
    /\ \E a \in Javoblari(birja.sahifalar[ses.sahifa]) :
         LET ta == Birga(ses.ta, taminotni_ajrat(a, ses.kerak \ DOMAIN ses.ta))
             oxiri == ~Otdi(a) \/ ses.kerak \subseteq DOMAIN ta \/ ses.sahifa = ZAXIRA_SAHIFALAR
         IN /\ Sanaldi(a)
            /\ ses' = [ses EXCEPT !.ta = ta, !.sahifa = IF oxiri THEN 1 ELSE @ + 1,
                                  !.pc = IF oxiri THEN "saralash" ELSE @]
            /\ jurnal' = IF oxiri /\ ta # Bosha THEN yoz(jurnal, "coingecko", 200) ELSE jurnal
    /\ UNCHANGED <<birja, baza, qator>>

\* CoinGecko's row of a coin, unless it is another project under the same name.
TaminotOl(s) ==
    LET b == ses.juft[s].belgi
        narx == IF s \in DOMAIN ses.ticker THEN ses.ticker[s].narx ELSE NOMALUM
    IN IF b \notin DOMAIN ses.ta THEN NOMALUM
       ELSE IF narx_mosmi(ses.ta[b], narx, ses.juft[s].kop) THEN <<ses.ta[b]>> ELSE NOMALUM

\* What is not known excludes nobody.
KapdanOtadi(s) ==
    LET ta == TaminotOl(s) IN
    \/ ta = NOMALUM
    \/ ta[1].cap = NOMALUM
    \/ ta[1].cap[1] >= Ch.min_kapitalizatsiya_usd

Saralanadi ==
    /\ ses.pc = "saralash"
    /\ LET otdi == {i \in DOMAIN ses.nomzodlar : KapdanOtadi(ses.nomzodlar[i])}
           boshi == {i \in otdi : Cardinality({k \in otdi : k < i}) < Ch.namuna_soni}
       IN ses' = [ses EXCEPT !.pc = "oi", !.pool = {s \in @ : KapdanOtadi(s)},
                             !.namuna = {ses.nomzodlar[i] : i \in boshi}]
    /\ UNCHANGED <<birja, baza, jurnal, qator, nosoz>>
-----------------------------------------------------------------------------
\* 5. The requests for each coin

Chuqur == ses.pool \cup ses.namuna

\* gather: the coins' requests run beside each other; those of F fail.
CoinJavobi(rows, yiqildi) == IF yiqildi THEN Bosh ELSE [kod |-> 200, royxat |-> TRUE, tana |-> rows]

Hisoblangan(nom, F) == hisobla(jurnal, nom, Cardinality(Chuqur), Cardinality(F))

OiOlinadi ==
    /\ ses.pc = "oi"
    /\ \E F \in SUBSET Chuqur :
         /\ F # {} => nosoz < MaxNosoz
         /\ nosoz' = nosoz + (IF F # {} THEN 1 ELSE 0)
         /\ jurnal' = Hisoblangan("oi", F)
         /\ ses' = [ses EXCEPT !.pc = "ls", !.oiYoq = F,
                       !.oi = [s \in Chuqur |-> oi_ni_ajrat(CoinJavobi(birja.oi[s], s \in F))]]
    /\ UNCHANGED <<birja, baza, qator>>

LongShortOlinadi ==
    /\ ses.pc = "ls"
    /\ \E F \in SUBSET Chuqur :
         /\ F # {} => nosoz < MaxNosoz
         /\ nosoz' = nosoz + (IF F # {} THEN 1 ELSE 0)
         /\ jurnal' = Hisoblangan("long_short", F)
         /\ ses' = [ses EXCEPT !.pc = "unlock",
                       !.ls = [s \in Chuqur |-> long_short_ni_ajrat(CoinJavobi(birja.ls[s], s \in F))]]
    /\ UNCHANGED <<birja, baza, qator>>

\* _unlock_jadvali: an empty calendar counts as a failed source.
UnlockOlinadi ==
    /\ ses.pc = "unlock"
    /\ \E u \in {birja.unlock} \cup (IF nosoz < MaxNosoz THEN {Bosha} ELSE {}) :
            /\ nosoz' = nosoz + (IF u = birja.unlock THEN 0 ELSE 1)
            /\ jurnal' = yoz(jurnal, "unlock", IF u = Bosha THEN TARMOQ ELSE 200)
            /\ ses' = [ses EXCEPT !.pc = "yozish", !.unlock = u]
    /\ UNCHANGED <<birja, baza, qator>>
-----------------------------------------------------------------------------
\* 6-7. Checks, places, rows

\* CoinMalumoti
Coin(s) ==
    LET t == ses.ticker[s]
        m == Meta(s)
        ta == TaminotOl(s)
        b == ses.juft[s].belgi
        u == b \in DOMAIN ses.unlock
    IN [hajm24 |-> t.hajm24, ortacha |-> m.ortacha, kunlar |-> m.kunlar, yangi |-> m.yangi,
        ozgarish |-> t.ozgarish,
        btc |-> IF BTC \in DOMAIN ses.ticker THEN ses.ticker[BTC].ozgarish ELSE NOMALUM,
        stavka |-> IF s \in DOMAIN ses.stavka THEN <<ses.stavka[s]>> ELSE NOMALUM,
        oraliq |-> IF s \in DOMAIN ses.oraliq THEN ses.oraliq[s] ELSE STANDART_SOAT,
        oi |-> ses.oi[s], ls |-> ses.ls[s],
        aylanma |-> IF ta = NOMALUM THEN NOMALUM ELSE ta[1].aylanma,
        unlockKun |-> IF u THEN <<ses.unlock[b].kun>> ELSE NOMALUM,
        unlockPct |-> IF u THEN <<ses.unlock[b].pct>> ELSE NOMALUM]

ANomzodmi(s) ==
    IF ses.turi # TASDIQ \/ ~baza.aBor THEN "none"
    ELSE IF s \in baza.aNomzod THEN "ha" ELSE "yoq"

\* The row of a coin of the pool or the sample, its place aside.
Qator(s) ==
    LET n == sana(hammasi(Coin(s)))
        nomzod == n.tasdiq >= Ch.nomzod_min
        elakda == s \in ses.pool
        oldingi == IF s \in DOMAIN baza.ketma THEN baza.ketma[s] ELSE 0
    IN [turi |-> IF elakda THEN "elak" ELSE "namuna", sanoq |-> n, nomzod |-> nomzod,
        holat |-> holat(ses.turi, nomzod, ANomzodmi(s)), nisbat |-> Meta(s).nisbat,
        ketma |-> IF elakda THEN ketma_ket(ses.turi, nomzod, oldingi) ELSE 0,
        yashirin |-> s \in baza.yashirin, orin |-> 0]

\* TartibKirishi: the coins of the pool that are not hidden.
TartibKirishlari(q) ==
    {[symbol |-> s, tasdiq |-> q[s].sanoq.tasdiq, tasdiqlangan |-> q[s].holat = "tasdiqlangan",
      yoqilgi |-> q[s].sanoq.yoqilgi, nisbat |-> q[s].nisbat] :
        s \in {s \in DOMAIN q : q[s].turi = "elak" /\ ~q[s].yashirin}}

ChiqdiQatori ==
    [turi |-> "chiqdi", sanoq |-> sana([k \in TEKSHIRUVLAR |-> MALUMOT_YOQ]), nomzod |-> FALSE,
     holat |-> "yoq", nisbat |-> NOMALUM, ketma |-> 0, yashirin |-> FALSE, orin |-> 0]

Qatorlari ==
    LET q == [s \in Chuqur |-> Qator(s)]
        o == orinlar(TartibKirishlari(q))
    IN [s \in Chuqur \cup OldingiOrinli |->
           CASE s \in DOMAIN o -> [q[s] EXCEPT !.orin = o[s]]
             [] s \in Chuqur \ DOMAIN o -> q[s]
             [] OTHER -> ChiqdiQatori]

\* Rows and end in one transaction.
Yoziladi ==
    /\ ses.pc = "yozish"
    /\ qator' = Qatorlari
    /\ ses' = [ses EXCEPT !.pc = "tugadi"]
    /\ UNCHANGED <<birja, baza, jurnal, nosoz>>

\* The database fails at its reading or its writing.
BazaYiqiladi ==
    /\ ses.pc \in {"elak", "yozish"} /\ nosoz < MaxNosoz
    /\ nosoz' = nosoz + 1
    /\ ses' = Yiqilish("baza")
    /\ UNCHANGED <<birja, baza, jurnal, qator>>

SessiyaNext ==
    \/ JuftliklarOlinadi \/ TickerlarOlinadi \/ StavkalarOlinadi \/ OraliqlarOlinadi
    \/ Elanadi \/ BolakOlinadi \/ SahifaOlinadi \/ Saralanadi
    \/ OiOlinadi \/ LongShortOlinadi \/ UnlockOlinadi \/ Yoziladi \/ BazaYiqiladi

SessiyaSpec == SessiyaInit /\ [][SessiyaNext]_svars
-----------------------------------------------------------------------------
\* Properties of a session that ended

Tugadi == ses.pc = "tugadi"
Tekshirilgan == {s \in DOMAIN qator : qator[s].turi # "chiqdi"}

\* What CoinGecko itself says of the coin, where it says anything.
Rostdan(s, maydon) ==
    \E q \in Range(birja.cg) \cup UNION {Range(birja.sahifalar[i]) : i \in DOMAIN birja.sahifalar} :
        q.belgi = ses.juft[s].belgi /\ q[maydon][1] = "son" /\ q[maydon][2] > 0

\* Every candidate of the A session is looked at again in B: it has its row
\* unless a capitalisation that is known is too small, or the pool was too large.
QaytaQaraldi ==
    Tugadi => \A s \in QaytaQaraladi :
        \/ s \in DOMAIN qator /\ qator[s].turi = "elak"
        \/ TaminotOl(s) # NOMALUM /\ Rostdan(s, "cap")
        \/ Cardinality(ses.elak) > MAX_POOL

\* Places are 1, 2, ... over the pool's coins that are not hidden, and nobody
\* stands before a coin with more checks, or, checks being equal, before one that
\* is confirmed when it is not; the sample and the hidden hold none.
OrinTogri ==
    Tugadi =>
        LET O == {s \in Tekshirilgan : qator[s].orin > 0} IN
        /\ O = {s \in Tekshirilgan : qator[s].turi = "elak" /\ ~qator[s].yashirin}
        /\ {qator[s].orin : s \in O} = 1..Cardinality(O)
        /\ \A s, t \in O : qator[s].orin < qator[t].orin =>
              /\ qator[s].sanoq.tasdiq >= qator[t].sanoq.tasdiq
              /\ qator[s].sanoq.tasdiq = qator[t].sanoq.tasdiq =>
                    (qator[t].holat = "tasdiqlangan" => qator[s].holat = "tasdiqlangan")

\* The coin's data as it would be had a source not answered.
Manbasiz(c, m) ==
    CASE m = "ticker_foiz" -> [c EXCEPT !.ozgarish = NOMALUM]
      [] m = "btc" -> [c EXCEPT !.btc = NOMALUM]
      [] m = "kesh" -> [c EXCEPT !.ortacha = NOMALUM, !.kunlar = 0]
      [] m = "funding" -> [c EXCEPT !.stavka = NOMALUM]
      [] m = "funding_oraliq" -> [c EXCEPT !.oraliq = STANDART_SOAT]
      [] m = "oi" -> [c EXCEPT !.oi = <<>>]
      [] m = "long_short" -> [c EXCEPT !.ls = NOMALUM]
      [] m = "coingecko" -> [c EXCEPT !.aylanma = NOMALUM]
      [] OTHER -> [c EXCEPT !.unlockKun = NOMALUM, !.unlockPct = NOMALUM]

\* Not knowing is neither a plus nor a minus: a source that is silent never adds
\* a check (the interval of the funding, taken for eight hours then, may be no
\* longer), nothing CoinGecko left at zero counts as supply or capitalisation,
\* and a coin leaves the pool for a capitalisation that was really given.
BilmaslikJim ==
    Tugadi =>
        /\ \A s \in Tekshirilgan : \A m \in {"ticker_foiz", "btc", "kesh", "funding",
              "funding_oraliq", "oi", "long_short", "coingecko", "unlock"} :
              LET siz == sana(hammasi(Manbasiz(Coin(s), m)))
              IN (m = "funding_oraliq" => Coin(s).oraliq <= STANDART_SOAT) =>
                 siz.tasdiq <= qator[s].sanoq.tasdiq /\ siz.malumot_yoq >= qator[s].sanoq.malumot_yoq
        /\ \A s \in Tekshirilgan : Coin(s).aylanma # NOMALUM => Rostdan(s, "muomalada")
        /\ \A s \in ses.elak \ DOMAIN qator :
              Cardinality(ses.elak) <= MAX_POOL => Rostdan(s, "cap")

\* The journal says what happened: a source of one request is bad when it failed
\* and a check it feeds is then "no data" in every coin; a source asked coin by
\* coin is bad when more than half of the coins got no answer.
JurnalRost ==
    Tugadi =>
        /\ DOMAIN ses.juft # {} /\ DOMAIN ses.ticker # {}
        /\ jurnal["funding"].holat = "xato" =>
              \A s \in Tekshirilgan : FundingTekshiruvi(Coin(s)) = MALUMOT_YOQ
        /\ \A s \in ses.oiYoq : OiTekshiruvi(Coin(s)) = MALUMOT_YOQ
        /\ (jurnal["oi"].holat = "xato") = (2 * Cardinality(ses.oiYoq) > Cardinality(Chuqur))
        /\ jurnal["coingecko"].holat = "xato" =>
              ses.ta = Bosha /\ (Cardinality(ses.elak) <= MAX_POOL => ses.pool = ses.elak)

SessiyaRost == QaytaQaraldi /\ OrinTogri /\ BilmaslikJim /\ JurnalRost
=============================================================================
