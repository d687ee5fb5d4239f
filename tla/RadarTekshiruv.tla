---------------------------- MODULE RadarTekshiruv ----------------------------
(* The seven checks of a coin (core/portlash_radari/tekshiruvlar.py): each says *)
(* yes, no or "no data", and the count of yes decides.  Nothing is weighted.    *)
EXTENDS RadarTartib

HA == "ha"
RAD == "yoq"
MALUMOT_YOQ == "malumot_yoq"

\* STANDART_FUNDING_SOAT
STANDART_SOAT == 8

TEKSHIRUVLAR == {"hajm", "narx", "funding", "oi", "long_short", "btc", "taminot"}
HARAKAT == {"hajm", "narx", "btc"}
YOQILGI == {"funding", "oi", "long_short", "taminot"}

Belgila(shart) == IF shart THEN HA ELSE RAD
Mutlaq(x) == IF x < 0 THEN -x ELSE x

\* A new listing has no mean worth the name.
HajmTekshiruvi(c) ==
    LET r == IF c.yangi THEN NOMALUM ELSE hajm_nisbati(c.hajm24, c.ortacha, c.kunlar)
    IN IF r = NOMALUM THEN MALUMOT_YOQ ELSE Belgila(Kamida(r, Ch.hajm_x))

NarxTekshiruvi(c) ==
    IF c.ozgarish = NOMALUM THEN MALUMOT_YOQ
    ELSE Belgila(Mutlaq(c.ozgarish[1]) >= Ch.narx_ozgarish_pct)

\* funding_8s: a rate paid every few hours, brought to eight.
funding_8s(stavka, soat_) ==
    LET s == IF soat_ > 0 THEN soat_ ELSE STANDART_SOAT IN <<stavka * STANDART_SOAT, s>>

FundingTekshiruvi(c) ==
    IF c.stavka = NOMALUM THEN MALUMOT_YOQ
    ELSE LET f == funding_8s(c.stavka[1], c.oraliq)
         IN Belgila(Mutlaq(f[1]) >= Ch.funding_8s_pct * f[2])

\* Growth from the first to the last point, only when the window is full.
OiTekshiruvi(c) ==
    LET n == Len(c.oi) IN
    IF n - 1 < Ch.oi_oyna_soat \/ n < 2 THEN MALUMOT_YOQ
    ELSE IF c.oi[1] <= 0 THEN MALUMOT_YOQ
    ELSE Belgila((c.oi[n] - c.oi[1]) * 100 >= Ch.oi_osish_pct * c.oi[1])

\* Leaning to either side; the ratio is a pair.
LongShortTekshiruvi(c) ==
    IF c.ls = NOMALUM \/ c.ls[1][1] <= 0 THEN MALUMOT_YOQ
    ELSE LET r == c.ls[1] IN
         Belgila(\/ r[1] >= Ch.long_short_nisbat * r[2] \/ r[2] >= Ch.long_short_nisbat * r[1])

BtcTekshiruvi(c) ==
    IF c.ozgarish = NOMALUM \/ c.btc = NOMALUM THEN MALUMOT_YOQ
    ELSE Belgila(Mutlaq(c.ozgarish[1] - c.btc[1]) >= Ch.btc_farq_pp)

\* Little of the supply in circulation, or a large unlock near.
TaminotTekshiruvi(c) ==
    LET aylanma_ha == c.aylanma # NOMALUM /\ c.aylanma[1][1] < Ch.aylanma_max_pct * c.aylanma[1][2]
        unlock_ha == /\ c.unlockKun # NOMALUM /\ c.unlockKun[1] <= Ch.unlock_kun
                     /\ c.unlockPct # NOMALUM /\ c.unlockPct[1] >= Ch.unlock_min_pct
    IN CASE aylanma_ha \/ unlock_ha -> HA
         [] ~aylanma_ha /\ ~unlock_ha /\ c.aylanma # NOMALUM -> RAD
         [] OTHER -> MALUMOT_YOQ

hammasi(c) ==
    [hajm |-> HajmTekshiruvi(c), narx |-> NarxTekshiruvi(c), funding |-> FundingTekshiruvi(c),
     oi |-> OiTekshiruvi(c), long_short |-> LongShortTekshiruvi(c), btc |-> BtcTekshiruvi(c),
     taminot |-> TaminotTekshiruvi(c)]

Halari(t, K) == Cardinality({k \in K : t[k] = HA})

sana(t) ==
    [tasdiq |-> Halari(t, TEKSHIRUVLAR), harakat |-> Halari(t, HARAKAT),
     yoqilgi |-> Halari(t, YOQILGI),
     malumot_yoq |-> Cardinality({k \in TEKSHIRUVLAR : t[k] = MALUMOT_YOQ})]
=============================================================================
