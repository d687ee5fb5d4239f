------------------------------ MODULE RadarManba ------------------------------
(* The radar's sources (core/portlash_radari/manba.py, belgi.py): what is read   *)
(* out of the exchange's and CoinGecko's answers, and the journal of how each    *)
(* source answered.  An answer is [kod, royxat, tana]: the HTTP code (TARMOQ: no *)
(* answer), whether the body has the expected shape, and its rows.  A raw value  *)
(* is <<kind, number>>: "son" (a number or its text), "bool" or "buzuq" (absent, *)
(* NaN, a word).                                                                 *)
EXTENDS RadarTekshiruv

CONSTANTS
    Stablecoinlar,    \* belgilar: halal_screening.stablecoin_symbols
    Harfli            \* names that begin with a letter

TARMOQ == 0
MANBALAR == {"juftliklar", "ticker", "funding", "funding_oraliq", "coingecko", "oi",
             "long_short", "unlock"}

Bosh == [kod |-> TARMOQ, royxat |-> FALSE, tana |-> <<>>]
Otdi(a) == a.kod = 200

\* _son, _musbat: the number, when there is one; zero is a number, but CoinGecko
\* says zero for what it does not know.
Son(x) == IF x[1] = "son" THEN <<x[2]>> ELSE NOMALUM

\* Mutant: a supply or a capitalisation of zero is taken for a fact.
MusbatNol(x) == Son(x)

Musbat(x) == IF Son(x) # NOMALUM /\ x[2] > 0 THEN Son(x) ELSE NOMALUM

Qatorlari_(a) == IF a.royxat THEN a.tana ELSE <<>>
-----------------------------------------------------------------------------
\* ManbaJurnali

BoshJurnal == [m \in MANBALAR |-> [holat |-> "yoq", kod |-> 200, otdi |-> 0, jami |-> 0]]

yoz(j, nom, kod) ==
    [j EXCEPT ![nom] = [holat |-> IF kod = 200 THEN "ok" ELSE "xato", kod |-> kod,
                        otdi |-> 0, jami |-> 0]]

\* The requests of a source asked coin by coin, jami of them, yiqildi without an
\* answer: it is bad when more than half of them failed.
hisobla(j, nom, jami, yiqildi) ==
    IF jami = 0 THEN j
    ELSE [j EXCEPT ![nom] = [holat |-> IF (jami - yiqildi) * 2 >= jami THEN "ok" ELSE "xato",
                             kod |-> IF yiqildi = 0 THEN @.kod ELSE TARMOQ,
                             otdi |-> jami - yiqildi, jami |-> jami]]

\* Does the exchange refuse the server's region?
cheklangan(j) == \E m \in MANBALAR : j[m].kod = 451
-----------------------------------------------------------------------------
\* Names (belgi.py).  A name is <<prefix, rest>>.

KOPAYTIRGICHLAR == ("1000000" :> 1000000) @@ ("1000" :> 1000) @@ ("1M" :> 1000000)

\* A multiplier is cut off only where letters follow it.
ajrat(nom) ==
    IF nom[1] \in DOMAIN KOPAYTIRGICHLAR /\ nom[2] \in Harfli
    THEN [belgi |-> <<"", nom[2]>>, kop |-> KOPAYTIRGICHLAR[nom[1]]]
    ELSE [belgi |-> nom, kop |-> 1]
-----------------------------------------------------------------------------
\* The exchange

\* A function over the symbols of the rows that pass (v: what is read of them, by
\* their number), the last row winning.
Lugat(q, v) ==
    [s \in {q[i].symbol : i \in DOMAIN v} |->
        v[CHOOSE i \in DOMAIN v :
            q[i].symbol = s /\ \A k \in DOMAIN v : q[k].symbol = s => k <= i]]

Nomli(q) == q.nomli

\* A perpetual in USDT that trades, of a coin, not of a stablecoin.
JuftlikYaroqli(q) ==
    /\ q.perpetual /\ q.usdt /\ q.savdoda /\ q.asos \in {"coin", "aytilmagan"} /\ q.nomli
    /\ ajrat(q.asosiy).belgi \notin Stablecoinlar

Juftlik(q) ==
    [belgi |-> ajrat(q.asosiy).belgi, kop |-> ajrat(q.asosiy).kop,
     yosh |-> Son(q.yosh)]

juftliklarni_ajrat(a) ==
    LET q == Qatorlari_(a) IN
    Lugat(q, [i \in {i \in DOMAIN q : JuftlikYaroqli(q[i])} |-> Juftlik(q[i])])

Ticker(q) == [narx |-> Son(q.narx), ozgarish |-> Son(q.ozgarish), hajm24 |-> Son(q.hajm24)]
tickerlarni_ajrat(a) ==
    LET q == Qatorlari_(a) IN
    Lugat(q, [i \in {i \in DOMAIN q : Nomli(q[i])} |-> Ticker(q[i])])

StavkaBor(q) == q.nomli /\ Son(q.stavka) # NOMALUM
Stavka(q) == q.stavka[2]
fundingni_ajrat(a) ==
    LET q == Qatorlari_(a) IN
    Lugat(q, [i \in {i \in DOMAIN q : StavkaBor(q[i])} |-> Stavka(q[i])])

OraliqBor(q) == q.nomli /\ Musbat(q.oraliq) # NOMALUM
Oraliq(q) == q.oraliq[2]
oraliqlarni_ajrat(a) ==
    LET q == Qatorlari_(a) IN
    Lugat(q, [i \in {i \in DOMAIN q : OraliqBor(q[i])} |-> Oraliq(q[i])])

\* Contracts, not dollars, by time: the n-th is the row with n - 1 before it.
oi_ni_ajrat(a) ==
    LET q == Qatorlari_(a)
        bor == {i \in DOMAIN q : Son(q[i].vaqt) # NOMALUM /\ Son(q[i].oi) # NOMALUM}
        oldin(i, k) == \/ q[i].vaqt[2] < q[k].vaqt[2]
                       \/ q[i].vaqt[2] = q[k].vaqt[2] /\ q[i].oi[2] < q[k].oi[2]
                       \/ q[i].vaqt[2] = q[k].vaqt[2] /\ q[i].oi[2] = q[k].oi[2] /\ i < k
        ninchi(n) == CHOOSE i \in bor : Cardinality({k \in bor : oldin(k, i)}) = n - 1
    IN [n \in 1..Cardinality(bor) |-> q[ninchi(n)].oi[2]]

\* The ratio of the newest row; nisbat: <<kind, long, short>>.
long_short_ni_ajrat(a) ==
    LET q == Qatorlari_(a)
        vaqti(i) == IF Son(q[i].vaqt) = NOMALUM THEN 0 ELSE q[i].vaqt[2]
    IN IF q = <<>> THEN NOMALUM
       ELSE LET n == CHOOSE i \in DOMAIN q : \A k \in DOMAIN q :
                        vaqti(k) < vaqti(i) \/ (vaqti(k) = vaqti(i) /\ i <= k)
                r == q[n].nisbat
            IN IF r[1] = "son" /\ r[2] > 0 THEN << <<r[2], r[3]>> >> ELSE NOMALUM

\* The mean of the closed days among the last `kun`: <<mean, days>>.
kunlik_ortachani_hisobla(q, hozir, kun) ==
    LET yopiq == SelectSeq(q, LAMBDA d : /\ Son(d.yopilish) # NOMALUM /\ Son(d.quote) # NOMALUM
                                         /\ d.yopilish[2] < hozir)
        n == IF Len(yopiq) < kun THEN Len(yopiq) ELSE kun
        oxirgi == SubSeq(yopiq, Len(yopiq) - n + 1, Len(yopiq))
    IN IF n = 0 THEN <<NOMALUM, 0>>
       ELSE << << <<FoldLeft(LAMBDA x, d : x + d.quote[2], 0, oxirgi), n>> >>, n>>

\* kunlik_ortacha: nothing at all when the request failed.
kunlik_ortacha(a, hozir, kun) ==
    IF Otdi(a) /\ a.royxat THEN <<kunlik_ortachani_hisobla(a.tana, hozir, kun)>> ELSE NOMALUM
-----------------------------------------------------------------------------
\* CoinGecko

\* Taminot.aylanma_pct: circulating over the maximum (or the total), in percent,
\* a hundred at most.
AylanmaPct(muomalada, jami, maksimal) ==
    LET maxraj == IF maksimal # NOMALUM THEN maksimal ELSE jami IN
    IF muomalada = NOMALUM \/ maxraj = NOMALUM THEN NOMALUM
    ELSE IF muomalada[1] > maxraj[1] THEN << <<100, 1>> >>
    ELSE << <<100 * muomalada[1], maxraj[1]>> >>

Taminot(q) ==
    [cap |-> Musbat(q.cap), narx |-> Musbat(q.narx),
     aylanma |-> AylanmaPct(Musbat(q.muomalada), Musbat(q.jami), Musbat(q.maksimal))]

\* Of several projects under one name, the largest; the first of equals.
taminotni_ajrat(a, kerak) ==
    LET q == Qatorlari_(a)
        D == {i \in DOMAIN q : q[i].belgi \in kerak}
        cap(i) == IF Musbat(q[i].cap) = NOMALUM THEN 0 ELSE q[i].cap[2]
    IN [b \in {q[i].belgi : i \in D} |->
            Taminot(q[CHOOSE i \in D : q[i].belgi = b /\ \A k \in D : q[k].belgi = b =>
                          cap(k) < cap(i) \/ (cap(k) = cap(i) /\ i <= k)])]

\* Is it the exchange's coin?  NARX_FARQI_MAX is a quarter.
narx_mosmi(ta, narx, kop) ==
    \/ ta.narx = NOMALUM \/ narx = NOMALUM \/ narx = <<0>>
    \/ Mutlaq(ta.narx[1] * kop - narx[1]) * 4 <= narx[1]
=============================================================================
