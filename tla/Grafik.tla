-------------------------------- MODULE Grafik ---------------------------------
(* The price chart of one coin as core/analysis reads it: swings, breaks of     *)
(* structure, direction, zones, and the levels core/position builds from them.  *)
(* The exchange returns the last OYNA candles, the last of them still forming:  *)
(* the cycle hands them all to the analysis.  A step moves the price inside the *)
(* forming candle, or closes it and forms the next, so that the window's first  *)
(* place, bosh, moves on; candles keep their place for ever, which stands for   *)
(* their open time.  Everything is read again at every step, as the code does:  *)
(* the definitions below are state functions.                                   *)
(*                                                                              *)
(* Swings are sets of places: a place is at most one swing and the lists of the *)
(* code are in the order of places.  "At most one" results are sets.  Prices    *)
(* are whole; zones and levels are in thousandths of a price unit, so that the  *)
(* percentages of the code are exact.                                           *)
EXTENDS Integers, Sequences, FiniteSets, FiniteSetsExt

CONSTANTS
    Tarixlar,       \* the charts the scan may meet first (sequences of candles)
    Qadamlar,       \* how far a close may be from the candle's open
    Dumlar,         \* the wicks, and whether the two exchanges disagree on them
    MaxYangi,       \* bound: steps of a behaviour
    OYNA,           \* how many candles the exchange returns
    QANOT,          \* FRAKTAL_QANOT: the wing of a fractal
    STOP_KAM,       \* stop_eng_kam_pct, in tenths of a percent
    STOP_KOP        \* stop_eng_kop_pct, in percent

ASSUME GrafikFarazi ==
    /\ QANOT \in Nat \ {0}
    /\ OYNA \in Nat \ {0}
    /\ Qadamlar \subseteq Int
    /\ Dumlar \subseteq [yuqori : Nat, past : Nat, rad : BOOLEAN]
    /\ \A tarix \in Tarixlar :
          /\ tarix \in Seq([open : Int, close : Int, high : Int, low : Int, rad : BOOLEAN])
          /\ tarix # <<>>
          /\ \A i \in 1..Len(tarix) :
                /\ 0 < tarix[i].low
                /\ tarix[i].low <= tarix[i].open /\ tarix[i].low <= tarix[i].close
                /\ tarix[i].open <= tarix[i].high /\ tarix[i].close <= tarix[i].high

VARIABLES
    shamlar,        \* every candle there was, in the order of time
    bosh,           \* the first place of the window the exchange returns
    yangi           \* steps since the first scan

gvars == <<shamlar, bosh, yangi>>

Son == Len(shamlar)
Oynadagilar == bosh..Son

\* A candle opens where the last one closed: coins are traded without a pause.
Sham(ochilish, qadam, dum) ==
    [open  |-> ochilish,
     close |-> ochilish + qadam,
     high  |-> Max({ochilish, ochilish + qadam}) + dum.yuqori,
     low   |-> Min({ochilish, ochilish + qadam}) - dum.past,
     rad   |-> dum.rad]

GInit ==
    /\ shamlar \in Tarixlar
    /\ bosh = Max({1, Son - OYNA + 1})
    /\ yangi = 0

ShamYopildi ==
    \E q \in Qadamlar, d \in Dumlar :
        LET sham == Sham(shamlar[Son].close, q, d) IN
        /\ sham.low > 0
        /\ shamlar' = Append(shamlar, sham)
        /\ bosh' = Max({bosh, Son + 1 - OYNA + 1})
        /\ yangi' = yangi + 1

\* The forming candle has reached what it had reached, and the price is elsewhere.
NarxYurdi ==
    \E q \in Qadamlar :
        LET oxirgi == shamlar[Son]
            narx == oxirgi.close + q IN
        /\ narx > 0
        /\ shamlar' = [shamlar EXCEPT ![Son] =
              [oxirgi EXCEPT !.close = narx,
                             !.high = Max({oxirgi.high, narx}),
                             !.low = Min({oxirgi.low, narx})]]
        /\ bosh' = bosh
        /\ yangi' = yangi + 1

------------------------------------------------------------------------------
(* swing_detector.py: a candle whose high is above (low is below) those of its  *)
(* QANOT neighbours on either side.                                             *)

\* Mutant: the wing on the right is not waited for.
OngsizYonidagilar(i) == Oynadagilar \cap ((i - QANOT)..(i - 1))

Yonidagilar(i) == (Oynadagilar \cap ((i - QANOT)..(i + QANOT))) \ {i}

\* Mutant: the last candles count too, whatever comes after them.
OxirgilarHam == {i \in (bosh + QANOT)..Son : ~shamlar[i].rad}

Ortadagilar == {i \in (bosh + QANOT)..(Son - QANOT) : ~shamlar[i].rad}

Yuqorilar ==
    {i \in Ortadagilar : \A q \in Yonidagilar(i) : shamlar[i].high > shamlar[q].high}

Pastlar ==
    {i \in Ortadagilar \ Yuqorilar :
        \A q \in Yonidagilar(i) : shamlar[i].low < shamlar[q].low}

\* Comparisons of the two latest swings of a kind among S.
Oldingi(S) == Max(S \ {Max(S)})
BalandYuqori(S) == Cardinality(S) >= 2 /\ shamlar[Max(S)].high > shamlar[Oldingi(S)].high
PastYuqori(S)   == Cardinality(S) >= 2 /\ shamlar[Max(S)].high < shamlar[Oldingi(S)].high
BalandPast(S)   == Cardinality(S) >= 2 /\ shamlar[Max(S)].low > shamlar[Oldingi(S)].low
PastPast(S)     == Cardinality(S) >= 2 /\ shamlar[Max(S)].low < shamlar[Oldingi(S)].low

ketma_ketlik_kotarilish == BalandYuqori(Yuqorilar) /\ BalandPast(Pastlar)

------------------------------------------------------------------------------
(* bos_choch.py: the first CLOSE beyond a swing after it.                       *)

YuqoriKesildi(i, j) ==
    /\ j > i
    /\ shamlar[j].close > shamlar[i].high
    /\ \A k \in (i + 1)..(j - 1) : shamlar[k].close <= shamlar[i].high

PastKesildi(i, j) ==
    /\ j > i
    /\ shamlar[j].close < shamlar[i].low
    /\ \A k \in (i + 1)..(j - 1) : shamlar[k].close >= shamlar[i].low

BosShamlari   == {j \in Oynadagilar : \E i \in Yuqorilar : YuqoriKesildi(i, j)}
ChochShamlari == {j \in Oynadagilar : \E i \in Pastlar : PastKesildi(i, j)}

\* The latest of each is kept; 0 stands for None.
Oxirgisi(S) == IF S = {} THEN 0 ELSE Max(S)
bos_indeks   == Oxirgisi(BosShamlari)
choch_indeks == Oxirgisi(ChochShamlari)

bos_tasdiqlangan == bos_indeks # 0 /\ choch_indeks < bos_indeks

\* HA, YOQ, or not measured when there is no direction at all.
qarshi_choch_yoq ==
    IF bos_indeks = 0 /\ choch_indeks = 0 THEN "malumot_yoq"
    ELSE IF choch_indeks = 0 \/ bos_indeks > choch_indeks THEN "ha" ELSE "yoq"

------------------------------------------------------------------------------
(* uptrend_filter.py                                                            *)

YANGI_OYNA == 10

_Tushayotgan(j) ==
    /\ PastYuqori({i \in Yuqorilar : i < j})
    /\ PastPast({i \in Pastlar : i < j})

\* The candles since the turn, of the latest swing high a close has broken; none
\* when the structure was not falling at that candle.
_Burilish ==
    LET kesilgan == {i \in Yuqorilar : \E j \in Oynadagilar : YuqoriKesildi(i, j)}
    IN  {Son - j : j \in {j \in Oynadagilar :
                             /\ kesilgan # {}
                             /\ YuqoriKesildi(Max(kesilgan), j)
                             /\ _Tushayotgan(j)}}

yonalish_aniqla ==
    IF Cardinality(Yuqorilar) + Cardinality(Pastlar) < 4 THEN "aniq_emas"
    ELSE IF ketma_ketlik_kotarilish THEN "uptrend"
    ELSE IF _Burilish # {}
         THEN IF \A yosh \in _Burilish : yosh <= YANGI_OYNA THEN "yangi_burilish" ELSE "aniq_emas"
    ELSE IF PastYuqori(Yuqorilar) /\ PastPast(Pastlar) THEN "downtrend" ELSE "aniq_emas"

------------------------------------------------------------------------------
(* zone_quality: the Fibonacci zone of the last impulse, with the order block   *)
(* and the fair value gap laid over it.                                         *)

Kesishadi(a, b) == a.past <= b.yuqori /\ b.past <= a.yuqori

oxirgi_impuls ==
    {pq \in Pastlar \X Yuqorilar :
        /\ pq[2] = Max(Yuqorilar)
        /\ pq[1] < pq[2]
        /\ \A r \in Pastlar : r < pq[2] => r <= pq[1]}

fib_zona ==
    {LET h == shamlar[pq[2]].high
         uzunlik == h - shamlar[pq[1]].low
     IN  [past |-> 1000 * h - 618 * uzunlik, yuqori |-> 1000 * h - 382 * uzunlik] :
        pq \in {pq \in oxirgi_impuls : shamlar[pq[2]].high > shamlar[pq[1]].low}}

ObTariflari == {"last_opposite", "sweep_candle"}

ob_topish(tarif) ==
    LET boshi == Max(Pastlar)
        mos == {i \in Max({bosh, boshi - 10})..boshi :
                  IF tarif = "last_opposite"
                  THEN shamlar[i].close < shamlar[i].open
                  ELSE /\ i > bosh
                       /\ shamlar[i].low < shamlar[i - 1].low
                       /\ shamlar[i].close > shamlar[i - 1].low}
    IN  {IF tarif = "last_opposite"
         THEN [past |-> 1000 * shamlar[i].close, yuqori |-> 1000 * shamlar[i].open]
         ELSE [past |-> 1000 * shamlar[i].low, yuqori |-> 1000 * shamlar[i].high] :
            i \in {i \in mos : i = Max(mos)}}

FvgOchiq ==
    {i \in Max({bosh + 1, Son - 49})..(Son - 1) :
        /\ shamlar[i - 1].high < shamlar[i + 1].low
        /\ \A k \in (i + 2)..Son : shamlar[k].low > shamlar[i + 1].low}

fvg_topish ==
    {[past |-> 1000 * shamlar[i - 1].high, yuqori |-> 1000 * shamlar[i + 1].low] :
        i \in {i \in FvgOchiq : i = Max(FvgOchiq)}}

\* The layers that meet the base zone.
Qatlamlar(asos, tarif) ==
    {z \in ob_topish(tarif) \cup fvg_topish : Kesishadi(z, asos)}

\* Mutant: the case of an empty intersection is forgotten.
KesishmaHarDoim(asos, tarif) ==
    LET hammasi == {asos} \cup Qatlamlar(asos, tarif)
    IN  [past |-> Max({z.past : z \in hammasi}), yuqori |-> Min({z.yuqori : z \in hammasi})]

_QatlanganZona(asos, tarif) ==
    LET hammasi == {asos} \cup Qatlamlar(asos, tarif)
        past == Max({z.past : z \in hammasi})
        yuqori == Min({z.yuqori : z \in hammasi})
    IN  IF past >= yuqori THEN asos ELSE [past |-> past, yuqori |-> yuqori]

------------------------------------------------------------------------------
(* alternatives: the zones and the votes that may save a weak block.            *)

oldingi_swing_zona ==
    {[past |-> 990 * shamlar[p].low, yuqori |-> 1010 * shamlar[p].low] :
        p \in {p \in Pastlar : p = Max(Pastlar)}}

\* Two last lows on one level and the highest swing high between them.
qosh_tub_topish ==
    IF Cardinality(Pastlar) < 2 THEN {}
    ELSE LET a == Oldingi(Pastlar)
             b == Max(Pastlar)
             tub == Min({shamlar[a].low, shamlar[b].low})
             baland == Max({shamlar[a].low, shamlar[b].low})
             boyinlar == {shamlar[i].high : i \in Yuqorilar \cap (a..b)}
         IN  {[past |-> 1000 * tub, yuqori |-> 1000 * n] :
                n \in {n \in boyinlar : n = Max(boyinlar) /\ (baland - tub) * 100 <= 3 * tub}}

qayta_sinov ==
    /\ Yuqorilar # {}
    /\ LET y == Max(Yuqorilar)
           keyingilar == (y + 1)..Son
       IN  /\ \E k \in keyingilar : shamlar[k].close > shamlar[y].high
           /\ \E k \in keyingilar : shamlar[k].low <= shamlar[y].high
           /\ 1000 * shamlar[Son].close >= 995 * shamlar[y].high

\* liquidity_sweep.py: 0.1% under the last swing low, and back above it within 3
\* candles.
sweep_bormi ==
    \E p \in {p \in Pastlar : p = Max(Pastlar)} :
        \E i \in (p + 1)..Son :
            /\ 1000 * shamlar[i].low <= 999 * shamlar[p].low
            /\ \E k \in i..Min({i + 3, Son}) : shamlar[k].close > shamlar[p].low

\* The zones the third block may hand on.  The volume profile is not modelled:
\* with the Fibonacci layer alone the block may be weak, and then the double
\* bottom and after it the last swing low give the zone.
Zonalar(tarif) ==
    UNION {{_QatlanganZona(asos, tarif)} \cup
           (IF Qatlamlar(asos, tarif) # {} THEN {}
            ELSE IF qosh_tub_topish # {} THEN qosh_tub_topish ELSE oldingi_swing_zona) :
               asos \in fib_zona}

------------------------------------------------------------------------------
(* entry_stop_tp.py and scaling_out.py                                          *)

Narx == 1000 * shamlar[Son].close
KirishNarxi(zona) == IF Narx <= zona.yuqori THEN Narx ELSE zona.yuqori

_LikvidlikPasti(entry) ==
    LET pastlar == {shamlar[p].low : p \in Pastlar} IN
    {n \in pastlar : 1000 * n < entry /\ \A m \in pastlar : 1000 * m < entry => m <= n}

_StopDarajasi(zona) ==
    IF \E n \in _LikvidlikPasti(KirishNarxi(zona)) : zona.past >= 1000 * n
    THEN 997 * Max(_LikvidlikPasti(KirishNarxi(zona)))
    ELSE zona.past

\* At most three targets, each at least 1% of the entry above the one before.
_TpNuqtalari(entry) ==
    LET nuqtalar == {1000 * shamlar[i].high : i \in Yuqorilar}
        Uzoq(t) == {n \in nuqtalar : 100 * (n - t) >= entry}
        Birinchi == {n \in nuqtalar : n > entry}
        Uchinchi(t) == IF Uzoq(t) = {} THEN <<>> ELSE <<Min(Uzoq(t))>>
        Ikkinchi(t) == IF Uzoq(t) = {} THEN <<>>
                       ELSE <<Min(Uzoq(t))>> \o Uchinchi(Min(Uzoq(t)))
    IN  IF Birinchi = {} THEN <<>> ELSE <<Min(Birinchi)>> \o Ikkinchi(Min(Birinchi))

darajalar_qur(zona) ==
    LET entry == KirishNarxi(zona)
        stop == _StopDarajasi(zona)
        tplar == _TpNuqtalari(entry)
    IN  {d \in {[entry |-> entry, stop |-> stop, tplar |-> tplar]} :
            /\ Narx >= zona.past
            /\ stop < entry
            /\ (entry - stop) * 1000 >= STOP_KAM * entry
            /\ (entry - stop) * 100 <= STOP_KOP * entry
            /\ tplar # <<>>
            /\ tplar[1] > Narx
            /\ 10 * (tplar[1] - entry) >= 12 * (entry - stop)}

ULUSHLAR == <<50, 30>>

ulush(tp, soni) ==
    CASE soni <= 1                       -> 100
      [] soni > 1 /\ tp <= 2 /\ tp < soni -> ULUSHLAR[tp]
      [] soni > 1 /\ tp = 2 /\ tp >= soni -> 100 - ULUSHLAR[1]
      [] OTHER                           -> 100 - ULUSHLAR[1] - ULUSHLAR[2]

GNext == yangi < MaxYangi /\ (ShamYopildi \/ NarxYurdi)

GSpec == GInit /\ [][GNext]_gvars

------------------------------------------------------------------------------
(* What must hold of the chart.                                                 *)

\* The candles are candles, and the window is the last OYNA of them.
GTypeOK ==
    /\ \A i \in 1..Son :
          /\ 0 < shamlar[i].low /\ shamlar[i].low <= Min({shamlar[i].open, shamlar[i].close})
          /\ shamlar[i].high >= Max({shamlar[i].open, shamlar[i].close})
    /\ bosh = Max({1, Son - OYNA + 1})

\* A swing whose wings are closed stays a swing of its kind as long as they are in
\* the window, and no swing appears but the one the forming candle may confirm:
\* nothing older is repainted by what comes later (swing_detector.py).
SwinglarQotgan ==
    [][/\ \A i \in Yuqorilar : i \in Yuqorilar' \/ i < (bosh + QANOT)' \/ i + QANOT = Son
       /\ \A i \in Pastlar : i \in Pastlar' \/ i < (bosh + QANOT)' \/ i + QANOT = Son
       /\ Yuqorilar' \ Yuqorilar \subseteq {(Son - QANOT)'}
       /\ Pastlar' \ Pastlar \subseteq {(Son - QANOT)'}]_gvars

\* A candle that closes never turns the direction of a coin from falling to rising,
\* or back: there is a scan between them at which it is not clear or a new turn
\* (uptrend_filter.py against swing_detector.py).  Inside the forming candle it can,
\* for a wide candle may stop being a swing high and become a swing low.
YonalishSakramaydi ==
    [][~ /\ Son' > Son
         /\ yonalish_aniqla \in {"uptrend", "downtrend"}
         /\ yonalish_aniqla' \in {"uptrend", "downtrend"}
         /\ yonalish_aniqla # yonalish_aniqla']_gvars

\* No candle breaks the structure upward and downward at once, so which break came
\* later is always known (bos_choch.py).
BirShamBirBuzilish == BosShamlari \cap ChochShamlari = {}

\* Crossings are looked for from the candle after the swing, though the swing is
\* known only QANOT candles later: none is ever found before that.
KesishTasdiqdanKeyin ==
    \A j \in Oynadagilar :
        /\ \A i \in Yuqorilar : YuqoriKesildi(i, j) => j > i + QANOT
        /\ \A i \in Pastlar : PastKesildi(i, j) => j > i + QANOT

\* The structure read from a chart is one: breaks are looked for once a swing is
\* known and no candle breaks it both ways.
TuzilmaTogri == GTypeOK /\ BirShamBirBuzilish /\ KesishTasdiqdanKeyin

\* Whatever is laid over it, the zone is not empty, lies inside the Fibonacci zone
\* and so inside the impulse it corrects (zone_block.py, fibonacci.py).
ZonaAsosda ==
    \A tarif \in ObTariflari, asos \in fib_zona, pq \in oxirgi_impuls :
        LET z == _QatlanganZona(asos, tarif) IN
        /\ z.past < z.yuqori
        /\ asos.past <= z.past /\ z.yuqori <= asos.yuqori
        /\ 1000 * shamlar[pq[1]].low < z.past /\ z.yuqori < 1000 * shamlar[pq[2]].high

\* Levels that are not refused stand in order: the stop, the entry, the present
\* price, then the targets, each a percent of the entry apart.  A signal the
\* watcher would have to cancel at its first candle is not born.  The entry lies in
\* the zone, but for a double bottom whose neck is under its bottoms
\* (double_pattern.py does not ask), where there is no inside.
DarajalarTartibi ==
    \A tarif \in ObTariflari : \A zona \in Zonalar(tarif) : \A d \in darajalar_qur(zona) :
        /\ 0 < d.stop /\ d.stop < d.entry /\ d.entry <= Narx /\ Narx < d.tplar[1]
        /\ d.entry <= zona.yuqori
        /\ \/ zona.past <= d.entry
           \/ zona \in qosh_tub_topish /\ zona.yuqori < zona.past
        /\ \A k \in 2..Len(d.tplar) : 100 * (d.tplar[k] - d.tplar[k - 1]) >= d.entry

\* The stop is never inside the liquidity: it lies under the nearest swing low
\* below the entry, whichever zone was chosen.
StopLikvidlikOstida ==
    \A tarif \in ObTariflari : \A zona \in Zonalar(tarif) : \A d \in darajalar_qur(zona) :
        \A n \in _LikvidlikPasti(d.entry) : d.stop < 1000 * n

\* What the targets of a signal sell adds up to the whole position.
SotuvButun ==
    \A tarif \in ObTariflari : \A zona \in Zonalar(tarif) : \A d \in darajalar_qur(zona) :
        LET n == Len(d.tplar) IN
        /\ n \in 1..3
        /\ ulush(1, n) + (IF n >= 2 THEN ulush(2, n) ELSE 0)
             + (IF n >= 3 THEN ulush(3, n) ELSE 0) = 100

\* The levels of a signal can be traded as they stand.
DarajalarTogri == ZonaAsosda /\ DarajalarTartibi /\ StopLikvidlikOstida /\ SotuvButun

\* The last swing low was swept, and reclaimed by a candle that has closed.
SweepYopiqShamda ==
    \E p \in {p \in Pastlar : p = Max(Pastlar)} :
        \E i \in (p + 1)..(Son - 1) :
            /\ 1000 * shamlar[i].low <= 999 * shamlar[p].low
            /\ \E k \in i..Min({i + 3, Son - 1}) : shamlar[k].close > shamlar[p].low

\* A sweep that closed candles show is not forgotten while the swing low it took is
\* the last one: that vote does not flicker from one scan to the next.
SweepSaqlanadi ==
    [][SweepYopiqShamda /\ Oxirgisi(Pastlar') = Oxirgisi(Pastlar) => sweep_bormi']_gvars

\* What closed candles said is not taken back: swings, direction and sweeps.
QarorBarqaror == SwinglarQotgan /\ YonalishSakramaydi /\ SweepSaqlanadi

\* A swing is said to be read only when the two candles to its right have closed, so
\* that no peak still forming is taken for one (swing_detector.py:9-12).
OngQanotYopiq == \A i \in Yuqorilar \cup Pastlar : i + QANOT < Son
=============================================================================
