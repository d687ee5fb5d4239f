-------------------------------- MODULE Sinov --------------------------------
(* The replay of the chain over past candles (core/backtest/zanjir_engine.py,   *)
(* dataset.py) and the account that lives through its trades                    *)
(* (scripts/zanjir_hisob.py).  A step is one moment of the timeline: every coin *)
(* gets its last candle opened by then, which is an old one when the coin's     *)
(* series has a gap there; open trades move first, then the candidates are      *)
(* given places.  What the chain finds is a choice.                             *)
(*                                                                              *)
(* Beside each trade walks a witness: one run of the live watcher               *)
(* (ShamQoidalari) over the same candles, whose rules are said to be the same   *)
(* (zanjir_engine.py:379).  Candles and prices are the watcher's.               *)
EXTENDS Integers, FiniteSets, Sequences, SequencesExt

CONSTANTS
    Ramzlar,        \* the symbols, in the order of the list
    Guruhlar,       \* correlation_group_of: symbol -> group, or GURUHSIZ
    GURUHSIZ,
    HECH,           \* None: no candle, no trade
    Sigimlar,       \* the engine's settings: [sigim, max_open, max_guruh]
    Ishonchlar,     \* zanjir.ishonch()
    TpSoni,         \* len(tplar)
    Umumiy,         \* chiqish.umumiy_muddat_kun, in candles
    Qoldiq,         \* chiqish.qoldiq_muddat_kun, in candles
    Shamlar,        \* bound: the candles of each symbol (symbol -> some of Sham)
    MaxQadam        \* bound: moments of the timeline

Kuzatuvchi == INSTANCE ShamQoidalari WITH
    TPSoni <- TpSoni, UmumiyMuddat <- Umumiy, QoldiqMuddat <- Qoldiq

ENTRY == Kuzatuvchi!ENTRY
Coinlari == ToSet(Ramzlar)

\* Savdo: waiting for its fill or open, with its stop, the targets it has reached
\* and the moments of the signal and of the fill.
SavdoTuri == [kutmoqda : BOOLEAN, stop : {Kuzatuvchi!STOP, ENTRY}, tp_soni : 0..TpSoni,
              signal_vaqti : Nat, kirish_vaqti : Nat]

ASSUME SinovFarazi ==
    /\ TpSoni \in Nat \ {0} /\ Umumiy \in Nat \ {0} /\ Qoldiq \in Nat \ {0}
    /\ MaxQadam \in Nat /\ Ishonchlar \subseteq Nat \ {0}
    /\ Ramzlar \in Seq(Coinlari)
    /\ \A s \in Sigimlar : s.max_open \in Nat /\ s.max_guruh \in Nat
    /\ HECH \notin SavdoTuri

VARIABLES
    lahza,      \* the moment (hozir)
    sigimi,     \* the settings of this replay
    ekranSham,  \* the last candle of each symbol, HECH before its first
    joylar,     \* ochiq: symbol -> trade or HECH
    nomzodi,    \* the candidates of this moment: symbol -> confidence, 0 for none
    yakuni,     \* how the last trade of a symbol ended, HECH while one is open
    guvohi,     \* the watcher's state of the last trade of a symbol
    chekka,     \* history: the symbols whose last trade met a gap or a time limit
    jami        \* lists of the report, counted: placed, closed, never filled

svars == <<lahza, sigimi, ekranSham, joylar, nomzodi, yakuni, guvohi, chekka, jami>>

Ochiqlar == {c \in Coinlari : joylar[c] # HECH}

SInit ==
    /\ lahza = 0
    /\ sigimi \in Sigimlar
    /\ ekranSham = [c \in Coinlari |-> HECH]
    /\ joylar = [c \in Coinlari |-> HECH]
    /\ nomzodi = [c \in Coinlari |-> 0]
    /\ yakuni = [c \in Coinlari |-> HECH]
    /\ guvohi = [c \in Coinlari |-> HECH]
    /\ chekka = {}
    /\ jami = [ochildi |-> 0, yopildi |-> 0, bajarilmagan |-> 0]

------------------------------------------------------------------------------
(* _yangila: one candle h moves one trade s at the moment t.                     *)

YangiSavdo == [kutmoqda |-> TRUE, stop |-> Kuzatuvchi!STOP, tp_soni |-> 0,
               signal_vaqti |-> lahza + 1, kirish_vaqti |-> lahza + 1]

\* The limit fills, or has filled: the time in the trade counts from the fill.
Bajarilgan(s, h, t) ==
    IF s.kutmoqda /\ h.low <= ENTRY THEN [s EXCEPT !.kutmoqda = FALSE, !.kirish_vaqti = t] ELSE s

\* The targets the candle reaches; the first one moves the stop to the entry.
Nishonlar(s, h) ==
    [s EXCEPT !.tp_soni = IF h.high > @ THEN h.high ELSE @,
              !.stop = IF s.tp_soni = 0 /\ h.high >= 1 THEN ENTRY ELSE @]

Muddati(s) == IF s.tp_soni > 0 THEN Qoldiq ELSE Umumiy

\* Mutant: the targets before the stop, which looks better.
TpStopdanOldin(s, h, t) ==
    LET b == Bajarilgan(s, h, t)
        n == Nishonlar(b, h)
    IN  IF b.kutmoqda
        THEN [savdo |-> b, sabab |-> IF h.high >= 1 THEN "tegmadi"
                                     ELSE IF t - s.signal_vaqti >= Umumiy THEN "limit" ELSE "davom"]
        ELSE [savdo |-> n, sabab |-> IF n.tp_soni >= TpSoni THEN "tp"
                                     ELSE IF h.low <= n.stop THEN "stop"
                                     ELSE IF t - b.kirish_vaqti >= Muddati(n) THEN "muddat" ELSE "davom"]

\* The trade after the candle and why it ended, "davom" when it did not.
_yangila(s, h, t) ==
    LET b == Bajarilgan(s, h, t)
        n == Nishonlar(b, h)
    IN  IF b.kutmoqda
        THEN [savdo |-> b, sabab |-> IF h.high >= 1 THEN "tegmadi"
                                     ELSE IF t - s.signal_vaqti >= Umumiy THEN "limit" ELSE "davom"]
        ELSE IF h.low <= b.stop THEN [savdo |-> b, sabab |-> "stop"]
        ELSE [savdo |-> n, sabab |-> IF n.tp_soni >= TpSoni THEN "tp"
                                     ELSE IF t - b.kirish_vaqti >= Muddati(n) THEN "muddat" ELSE "davom"]

\* The same candle under the watcher's rules, in a run that began at the signal.
GuvohQadami(w, h, t) ==
    LET K == Kuzatuvchi!KutganHolat(w.holat, t)
        yosh == t - w.boshi
    IN  [w EXCEPT !.holat =
            IF @.status \in Kuzatuvchi!YopiqHolatlar THEN @
            ELSE IF Kuzatuvchi!Kutadi(@, h) THEN K
            ELSE IF Kuzatuvchi!Kirilmasdan(@, h) THEN Kuzatuvchi!BekorHolat(@, t)
            ELSE IF Kuzatuvchi!StopUrildi(@, h) THEN Kuzatuvchi!StopHolat(@, t)
            ELSE IF Kuzatuvchi!HammaTp(@, h) THEN Kuzatuvchi!TpHolat(@, h, t)
            ELSE IF Kuzatuvchi!MuddatTugadi(@, h, yosh) THEN Kuzatuvchi!MuddatHolat(@, h, t)
            ELSE Kuzatuvchi!DavomHolat(@, h, t)]

YangiGuvoh == [boshi |-> lahza + 1,
               holat |-> [status |-> "pending", stop |-> Kuzatuvchi!STOP, olingan_tp |-> 0,
                          narx |-> Kuzatuvchi!YOQ, vaqt |-> lahza + 1]]

------------------------------------------------------------------------------
(* _joylashtir: who of the candidates n gets a place beside those in band.       *)

\* The stronger first; of two as strong, the one earlier in the list (the sort
\* is stable).
Avvalroq(a, b) == \E i \in DOMAIN Ramzlar : Ramzlar[i] = a /\ \A j \in 1..i : Ramzlar[j] # b
Oldin(n, a, b) == n[a] > n[b] \/ (n[a] = n[b] /\ Avvalroq(a, b))

GuruhdaBand(band, c) == {d \in band : Guruhlar[d] = Guruhlar[c]}

JoyBor(band, c) ==
    /\ Cardinality(band) < sigimi.max_open
    /\ Guruhlar[c] # GURUHSIZ => Cardinality(GuruhdaBand(band, c)) < sigimi.max_guruh

\* One turn of the loop: the first of those not looked at takes a place.
Navbat(n, o) ==
    LET c == CHOOSE c \in o.qolgan : \A d \in o.qolgan \ {c} : Oldin(n, c, d)
    IN  [band |-> IF JoyBor(o.band, c) THEN o.band \cup {c} ELSE o.band, qolgan |-> o.qolgan \ {c}]

Nomzodlar(n) == {c \in Coinlari : n[c] > 0}
Navbatlar(n, band) ==
    LET navbat[k \in 0..Cardinality(Nomzodlar(n))] ==
            IF k = 0 THEN [band |-> band, qolgan |-> Nomzodlar(n)] ELSE Navbat(n, navbat[k - 1])
    IN  navbat

_joylashtir(n, band) ==
    IF ~sigimi.sigim THEN band \cup Nomzodlar(n)
    ELSE Navbatlar(n, band)[Cardinality(Nomzodlar(n))].band

------------------------------------------------------------------------------
(* yur: the moment at which the candles h open (HECH: the symbol has none), with  *)
(* the candidates n.                                                             *)

Korinadi(h) == [c \in Coinlari |-> IF h[c] = HECH THEN ekranSham[c] ELSE h[c]]

\* While a trade is open its symbol is not looked at: no candidate of it is sought,
\* not even when the trade ends at this very candle.
Qaraladigan(h) == {c \in Coinlari : joylar[c] = HECH /\ Korinadi(h)[c] # HECH}
Topilgan(h) ==
    {[c \in Coinlari |-> IF c \in Qaraladigan(h) THEN q[c] ELSE 0] :
        q \in [Qaraladigan(h) -> Ishonchlar \cup {0}]}

Qadam(h, n) ==
    LET t == lahza + 1
        Y == [c \in Ochiqlar |-> _yangila(joylar[c], Korinadi(h)[c], t)]
        W == [c \in Ochiqlar |-> GuvohQadami(guvohi[c], Korinadi(h)[c], t)]
        tugagan == {c \in Ochiqlar : Y[c].sabab # "davom"}
        bekor == {c \in tugagan : Y[c].sabab \in {"tegmadi", "limit"}}
        qolgan == Ochiqlar \ tugagan
        yangilar == _joylashtir(n, qolgan) \ qolgan
    IN  /\ lahza < MaxQadam
        /\ \E c \in Coinlari : h[c] # HECH
        /\ lahza' = t
        /\ ekranSham' = Korinadi(h)
        /\ nomzodi' = n
        /\ joylar' = [c \in Coinlari |-> CASE c \in qolgan -> Y[c].savdo
                                           [] c \in yangilar -> YangiSavdo
                                           [] OTHER -> HECH]
        /\ yakuni' = [c \in Coinlari |-> CASE c \in tugagan -> [savdo |-> Y[c].savdo, sabab |-> Y[c].sabab]
                                           [] c \in yangilar -> HECH
                                           [] OTHER -> yakuni[c]]
        /\ guvohi' = [c \in Coinlari |-> CASE c \in Ochiqlar -> W[c]
                                           [] c \in yangilar -> YangiGuvoh
                                           [] OTHER -> guvohi[c]]
        /\ chekka' = (chekka \ yangilar) \cup
                     {c \in Ochiqlar : \/ h[c] = HECH
                                       \/ Y[c].sabab \in {"limit", "muddat"}
                                       \/ W[c].holat.status = "timed_out"}
        /\ jami' = [ochildi |-> jami.ochildi + Cardinality(yangilar),
                    yopildi |-> jami.yopildi + Cardinality(tugagan \ bekor),
                    bajarilmagan |-> jami.bajarilmagan + Cardinality(bekor)]
        /\ UNCHANGED sigimi

\* The timeline is over: what is open closes at its last price, what still waits
\* never was a trade.
OynaTugaydi ==
    /\ lahza = MaxQadam
    /\ lahza' = MaxQadam + 1
    /\ joylar' = [c \in Coinlari |-> HECH]
    /\ yakuni' = [c \in Coinlari |->
            IF joylar[c] = HECH THEN yakuni[c]
            ELSE [savdo |-> joylar[c], sabab |-> IF joylar[c].kutmoqda THEN "limit" ELSE "oyna"]]
    /\ nomzodi' = [c \in Coinlari |-> 0]
    /\ chekka' = chekka \cup Ochiqlar
    /\ LET kutgan == {c \in Ochiqlar : joylar[c].kutmoqda} IN
       jami' = [jami EXCEPT !.yopildi = @ + Cardinality(Ochiqlar \ kutgan),
                            !.bajarilmagan = @ + Cardinality(kutgan)]
    /\ UNCHANGED <<sigimi, ekranSham, guvohi>>

SNext ==
    \/ \E h \in [Coinlari -> Kuzatuvchi!Sham \cup {HECH}] :
          /\ \A c \in Coinlari : h[c] \in Shamlar[c] \cup {HECH}
          /\ \E n \in Topilgan(h) : Qadam(h, n)
    \/ OynaTugaydi

SSpec == SInit /\ [][SNext]_svars

------------------------------------------------------------------------------
(* zanjir_hisob.py: the levels a closed trade is sized by.  The stop in the      *)
(* trade is the last one; SignalLevels refuses one that is not under the entry.  *)

_darajalar(s) == s.stop < ENTRY

------------------------------------------------------------------------------
(* What must hold of the replay.                                                *)

STypeOK ==
    /\ lahza \in 0..(MaxQadam + 1) /\ sigimi \in Sigimlar
    /\ joylar \in [Coinlari -> SavdoTuri \cup {HECH}]
    /\ \A c \in Ochiqlar :
          /\ joylar[c].tp_soni < TpSoni /\ joylar[c].signal_vaqti <= joylar[c].kirish_vaqti
          /\ joylar[c].kutmoqda => joylar[c].tp_soni = 0 /\ joylar[c].stop < ENTRY
    /\ chekka \subseteq Coinlari

\* What the watcher calls a trade that the replay has in this state.
Nomi(s, sabab) ==
    CASE sabab = "stop" -> "stopped"
      [] sabab = "tp" -> "tp2_hit"
      [] sabab = "tegmadi" -> "cancelled"
      [] OTHER -> IF s.kutmoqda THEN "pending" ELSE IF s.tp_soni > 0 THEN "tp1_hit" ELSE "active"

Mos(s, sabab, w) ==
    /\ w.holat.status = Nomi(s, sabab)
    /\ w.holat.stop = s.stop /\ w.holat.olingan_tp = s.tp_soni
    /\ sabab = "stop" => w.holat.narx = s.stop

\* "The same rules as the live watcher" (zanjir_engine.py:379): over the same
\* candles both have the same trade waiting, open with the same stop and targets,
\* or closed at the same price; but for what the text does not say: the time limit
\* is counted from the fill here and from the signal there, a limit here is given
\* up, and where a coin's series has a gap its last candle is applied again.
KuzatuvchiKabi ==
    \A c \in Coinlari \ chekka :
        /\ joylar[c] # HECH => Mos(joylar[c], "davom", guvohi[c])
        /\ yakuni[c] # HECH => Mos(yakuni[c].savdo, yakuni[c].sabab, guvohi[c])

\* No trade is lost from the report and none counted twice: each that got a place is
\* open, closed or was never filled, and at the end none is open.
HisobotButun ==
    /\ jami.ochildi = jami.yopildi + jami.bajarilmagan + Cardinality(Ochiqlar)
    /\ lahza > MaxQadam => Ochiqlar = {}

\* With the portfolio's limits on, no place is given beyond them, none is left empty
\* while a candidate is refused, and a weaker candidate passes a stronger one only
\* where the stronger one's group is full: who gets in does not depend on the order
\* of the coins in the list.
SigimTogri ==
    sigimi.sigim =>
        /\ Cardinality(Ochiqlar) <= sigimi.max_open
        /\ \A c \in Ochiqlar :
              Guruhlar[c] # GURUHSIZ => Cardinality(GuruhdaBand(Ochiqlar, c)) <= sigimi.max_guruh
        /\ \A c \in Nomzodlar(nomzodi) \ Ochiqlar :
              /\ ~JoyBor(Ochiqlar, c)
              /\ \A d \in Ochiqlar : nomzodi[d] \in 1..(nomzodi[c] - 1) =>
                    Guruhlar[c] # GURUHSIZ /\ Cardinality(GuruhdaBand(Ochiqlar, c)) = sigimi.max_guruh

\* The replay says of a trade what the watcher would, and of all trades the truth.
SinovTogri == STypeOK /\ KuzatuvchiKabi /\ HisobotButun /\ SigimTogri

\* Whatever the replay won is a trade that the account can size: "a trade with
\* profit raises the balance" (tests/test_zanjir_hisob.py:54).
YutganHisobda ==
    \A c \in Coinlari : yakuni[c] # HECH /\ yakuni[c].sabab = "tp" => _darajalar(yakuni[c].savdo)
=============================================================================
