-------------------------------- MODULE MCRadar --------------------------------
(* The radar's worker on a small timetable.  The sessions, the volume cache and *)
(* the grading share one loop and little state: each scene explores one of them *)
(* with its own faults while the others run their course.  The scene "bozor"    *)
(* looks inside one session, over many small markets.                           *)
EXTENDS RadarAmalga

VARIABLE sahna

-----------------------------------------------------------------------------
\* Markets

\* The limits of the session, small: the code's are floats of the same shape.
MCChegara ==
    [min_hajm_24s_usd |-> 2, min_kapitalizatsiya_usd |-> 10, elak_hajm_x |-> 3,
     yangi_listing_kun |-> 30, hajm_x |-> 5, narx_ozgarish_pct |-> 20, funding_8s_pct |-> 10,
     oi_osish_pct |-> 30, oi_oyna_soat |-> 1, long_short_nisbat |-> 2, btc_farq_pp |-> 15,
     aylanma_max_pct |-> 60, unlock_kun |-> 7, unlock_min_pct |-> 5, nomzod_min |-> 4,
     namuna_soni |-> 1]

S_(n) == <<"son", n>>
Buzuq == <<"buzuq", 0>>
HOZIR == 100
Kun(t, n) == [yopilish |-> S_(t), quote |-> S_(n)]

\* A coin that passes everything; today's day is not closed yet.
Kuchli ==
    [savdoda |-> TRUE, asos |-> "coin", tickerda |-> TRUE, keshda |-> TRUE, yosh |-> S_(900),
     kunlik |-> <<Kun(10, 2), Kun(30, 2), Kun(60, 2), Kun(110, 500)>>,
     hajm24 |-> S_(12), ozgarish |-> S_(30), stavka |-> S_(5), oraliq |-> S_(4),
     oi |-> <<[vaqt |-> S_(2), oi |-> S_(14)], [vaqt |-> S_(1), oi |-> S_(10)]>>,
     ls |-> <<[vaqt |-> S_(1), nisbat |-> <<"son", 1, 3>>]>>,
     cap |-> S_(50), cgNarx |-> 1, muomalada |-> S_(50), jami |-> S_(70), maksimal |-> S_(100),
     unlock |-> <<>>]

\* In the sieve, and nothing else.
Zaif == [Kuchli EXCEPT !.hajm24 = S_(7), !.ozgarish = S_(-3), !.stavka = S_(1), !.oraliq = Buzuq,
                       !.oi = <<[vaqt |-> S_(1), oi |-> S_(10)], [vaqt |-> S_(2), oi |-> S_(10)]>>,
                       !.ls = <<[vaqt |-> S_(1), nisbat |-> <<"son", 1, 1>>]>>,
                       !.muomalada = S_(90)]
Tashqarida(c) == [c EXCEPT !.hajm24 = S_(4)]

Coinlik ==
    {Kuchli, Zaif, Tashqarida(Kuchli), Tashqarida(Zaif),
     [Kuchli EXCEPT !.hajm24 = S_(1)],
     [Kuchli EXCEPT !.hajm24 = S_(13), !.ozgarish = S_(-30)],
     [Kuchli EXCEPT !.yosh = S_(5), !.kunlik = <<Kun(60, 2)>>, !.oi = <<[vaqt |-> S_(1), oi |-> S_(0)]>>],
     [Kuchli EXCEPT !.keshda = FALSE],
     [Kuchli EXCEPT !.keshda = FALSE, !.yosh = S_(5)],
     [Kuchli EXCEPT !.tickerda = FALSE],
     [Kuchli EXCEPT !.savdoda = FALSE],
     [Kuchli EXCEPT !.asos = "aksiya"],
     [Kuchli EXCEPT !.cap = S_(5)],
     [Kuchli EXCEPT !.cap = S_(0), !.muomalada = S_(0), !.jami = S_(0), !.maksimal = Buzuq],
     [Zaif EXCEPT !.cap = S_(5), !.cgNarx = 9],
     [Zaif EXCEPT !.ozgarish = Buzuq, !.stavka = Buzuq, !.ls = <<>>, !.muomalada = Buzuq,
                  !.unlock = <<[kun |-> 3, pct |-> 9]>>],
     [Zaif EXCEPT !.ozgarish = S_(25), !.unlock = <<[kun |-> 3, pct |-> 9]>>],
     [Tashqarida(Kuchli) EXCEPT !.cap = S_(5)]}

Nomi(s) == IF s = 2 THEN <<"1000", "c2">> ELSE <<"", IF s = 1 THEN "c1" ELSE "btc">>
Narxi(s) == IF s = 2 THEN 1000 ELSE 1
Belgisi(s) == ajrat(Nomi(s)).belgi

Tanla(S, Bor(_), Q(_)) == LET q == SetToSeq({s \in S : Bor(s)}) IN [i \in DOMAIN q |-> Q(q[i])]

\* The answers about the coins f.
Birja(f) ==
    LET hamma(s) == TRUE
        tickerda(s) == f[s].tickerda
        cg(s) == [belgi |-> Belgisi(s), cap |-> f[s].cap, narx |-> S_(f[s].cgNarx),
                  muomalada |-> f[s].muomalada, jami |-> f[s].jami, maksimal |-> f[s].maksimal]
        unlockli == {s \in Symbollar : f[s].unlock # <<>>}
    IN [juft |-> Tanla(Symbollar, hamma, LAMBDA s :
                    [symbol |-> s, nomli |-> TRUE, perpetual |-> TRUE, usdt |-> TRUE,
                     savdoda |-> f[s].savdoda, asos |-> f[s].asos, asosiy |-> Nomi(s),
                     yosh |-> f[s].yosh]),
        ticker |-> Tanla(Symbollar, tickerda, LAMBDA s :
                    [symbol |-> s, nomli |-> TRUE, narx |-> S_(Narxi(s)),
                     ozgarish |-> f[s].ozgarish, hajm24 |-> f[s].hajm24]),
        premium |-> Tanla(Symbollar, hamma, LAMBDA s : [symbol |-> s, nomli |-> TRUE, stavka |-> f[s].stavka]),
        oraliq |-> Tanla(Symbollar, hamma, LAMBDA s : [symbol |-> s, nomli |-> TRUE, oraliq |-> f[s].oraliq]),
        oi |-> [s \in Symbollar |-> f[s].oi],
        ls |-> [s \in Symbollar |-> f[s].ls],
        \* a small project of the same name stands before each coin
        cg |-> FlattenSeq(Tanla(Symbollar, hamma, LAMBDA s : <<[cg(s) EXCEPT !.cap = Buzuq, !.narx = S_(1)], cg(s)>>)),
        sahifalar |-> <<<<cg(BTC), cg(1)>>, <<cg(2)>>>>,
        unlock |-> [b \in {Belgisi(s) : s \in unlockli} |->
                        f[CHOOSE s \in unlockli : Belgisi(s) = b].unlock[1]]]

\* What the database holds of a coin: nothing, a candidate of this candle's A
\* session, a place in the last B session, both, or the admin hid it.
Izlar == {"yoq", "a", "orin", "a_orin", "yashirin"}

\* No session ran in the neighbouring slot when a place is older than the candle's
\* own A session.
Baza(f, iz, aBor) ==
    LET qoshni == aBor \/ \A s \in Symbollar : iz[s] # "orin"
        S(X) == {s \in Symbollar : iz[s] \in X} IN
    [ortachalar |-> [s \in {s \in Symbollar : f[s].keshda} |->
                        kunlik_ortacha([kod |-> 200, royxat |-> TRUE, tana |-> f[s].kunlik], HOZIR, 3)[1]],
     yashirin |-> S({"yashirin"}), aBor |-> aBor, aNomzod |-> S({"a", "a_orin"}),
     orinli |-> S({"orin", "a_orin"}), qoshni |-> qoshni,
     ketma |-> [s \in IF qoshni THEN S({"orin", "a_orin", "yashirin"}) ELSE {} |-> 2]]

BozorInit ==
    /\ \E c1 \in Coinlik, c2 \in {Kuchli, Zaif, Tashqarida(Kuchli)},
          c3 \in {Kuchli, Tashqarida(Zaif)}, i1 \in Izlar, i2 \in {"yoq", "a_orin"}, a \in BOOLEAN :
         LET f == <<c1, c2, [c3 EXCEPT !.ozgarish = S_(2)]>> IN
         /\ i2 = "yoq" \/ i1 \in {"yoq", "orin"}
         /\ birja = Birja(f) /\ baza = Baza(f, <<i1, i2, "yoq">>, a)
    /\ SessiyaInit
    /\ ses.turi # TASDIQ => baza.aNomzod = {} /\ ~baza.aBor

BozorsizInit ==
    /\ birja = Bosha /\ baza = Bosha /\ ses = [BoshSes(QOLDA) EXCEPT !.pc = "xato"]
    /\ jurnal = BoshJurnal /\ qator = Bosha /\ nosoz = 0

\* Requests fail in the markets whose second coin is weak.
BozorSahnasi == nosoz' > 0 => birja.ls[2][1].nisbat[2] = birja.ls[2][1].nisbat[3]
-----------------------------------------------------------------------------
MCInit ==
    /\ Init
    /\ sahna \in {"zanjir", "uzilish", "sorov", "hajm", "baho", "bozor"}
    /\ hajm = IF sahna = "hajm" THEN Yoq ELSE 0
    /\ IF sahna = "bozor" THEN BozorInit ELSE BozorsizInit

\* Requests of the grading are answered at once and no coin is dropped.
BahoTinch == /\ delist' = {}
             /\ Baholanadi => \A i \in DOMAIN sessiyalar : \A c \in Coinlar :
                    <<i, c>> \in Yetilgan => sessiyalar'[i].natija[c].baho = "bor"

\* The volumes come at the first try.
HajmTinch == HajmYangilanadi => hajm' = soat

Nosozliksiz == uzilish' = 0 /\ xato' = 0 /\ sorov' = FALSE

Topdi(c) == sessiyalar'[ish.joriy].natija[c]

\* Three candles: every result of every B session, failed ones too; A's pool
\* holds the coins, candidates or not.
ZanjirSahnasi ==
    /\ Nosozliksiz /\ BahoTinch /\ HajmTinch /\ (Tik => ish.pc \in {"boshlash", "uxladi"})
    /\ SessiyaTugaydi /\ sessiyalar[ish.joriy].turi = KASHFIYOT =>
          \A c \in Coinlar : Topdi(c).qator = "elak"
    /\ SessiyaYiqiladi => sessiyalar[ish.joriy].turi = TASDIQ

\* Two candles: crashes, failed writes and sessions that take long, the grading
\* at once; every coin is in the pool, a candidate or not.
UzilishSahnasi ==
    /\ BahoTinch /\ HajmTinch /\ sorov' = FALSE /\ soat' <= 7 /\ (Tik => ish.pc # "baho")
    /\ SessiyaTugaydi => \A c \in Coinlar :
          Topdi(c).qator = "elak" /\ Topdi(c).orinli = (sessiyalar[ish.joriy].turi = TASDIQ)

\* One candle: the same with requests; no session finds a coin.
SorovSahnasi == HajmTinch /\ delist' = {} /\ soat' <= 4
                /\ \A i \in DOMAIN sessiyalar' : sessiyalar'[i].natija = Natijasiz

\* The volume cache with its faults; no session finds a coin, none is asked for.
HajmSahnasi == /\ sorov' = FALSE /\ delist' = {} /\ soat' <= 6
               /\ Tik => ish.pc # "sessiya"
               /\ \A i \in DOMAIN sessiyalar' : sessiyalar'[i].natija = Natijasiz

\* The grading with failed requests and dropped coins: B sessions only.
BahoSahnasi ==
    /\ Nosozliksiz /\ HajmTinch /\ (Tik => ish.pc \in {"baho", "uxladi"})
    /\ SessiyaTugaydi => /\ sessiyalar[ish.joriy].turi = TASDIQ
                         /\ \A c \in Coinlar : Topdi(c).nomzod

MCNext ==
    /\ UNCHANGED sahna
    /\ IF sahna = "bozor" THEN SessiyaNext /\ BozorSahnasi /\ UNCHANGED vars
       ELSE /\ Next /\ UNCHANGED svars
            /\ CASE sahna = "zanjir" -> ZanjirSahnasi
                 [] sahna = "uzilish" -> UzilishSahnasi
                 [] sahna = "sorov" -> SorovSahnasi
                 [] sahna = "hajm" -> HajmSahnasi
                 [] OTHER -> BahoSahnasi

MCSpec ==
    MCInit /\ [][MCNext]_<<vars, svars, sahna>>
    /\ WF_<<vars, svars, sahna>>(sahna # "bozor" /\ MCNext /\ Ishchi)
=============================================================================
