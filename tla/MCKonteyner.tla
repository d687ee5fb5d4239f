------------------------------ MODULE MCKonteyner ------------------------------
(* Konteyner for TLC: the files a container is started with, and how much       *)
(* happens beside them.                                                         *)
EXTENDS Konteyner

Farq(bolim, qator, kalit, xom) == [bolim |-> bolim, qator |-> qator, kalit |-> kalit, xom |-> xom]

\* Every key of every section, and one that is not known, with a value of each
\* kind.
Xomlar ==
    {Xom("yoq", 0, BOSH_MATN), Xom("null", 0, BOSH_MATN), Xom("bool", 0, BOSH_MATN), Xom("bool", 1, BOSH_MATN),
     Xom("str", 0, BOSH_MATN), Xom("str", 0, "boshqa"), Xom("list", 0, BOSH_MATN), Xom("list", 1, "son"),
     Xom("dict", 0, BOSH_MATN), Xom("int", -1, BOSH_MATN)}
Kalitlar ==
    UNION {{<<bolim, kalit>> : kalit \in DOMAIN Bolimlar[bolim] \cup {"boshqa"}} : bolim \in DOMAIN Bolimlar}
Bittalik ==
    {{Farq(k[1], IF k[1] \in Royxatli THEN 1 ELSE 0, k[2], xom)} : k \in Kalitlar, xom \in Xomlar}

\* The radar's numbers at their limits and beside them.
Chegaraviy ==
    UNION {{{Farq("RadarConfig", 0, kalit, Xom("float", son, BOSH_MATN))} :
               son \in {q + farqi : q \in {RADAR_ORALIQLARI[kalit][1], RADAR_ORALIQLARI[kalit][2]}, farqi \in -1..1}} :
           kalit \in DOMAIN RADAR_ORALIQLARI}

\* The radar's two windows.
Oynalar ==
    {{Farq("RadarConfig", 0, "kashfiyot_daqiqa", Xom("int", ko, BOSH_MATN)),
      Farq("RadarConfig", 0, "tasdiq_daqiqa", Xom("int", to, BOSH_MATN)),
      Farq("RadarConfig", 0, "kashfiyot_kechikish_daqiqa", Xom("int", kk, BOSH_MATN)),
      Farq("RadarConfig", 0, "tasdiq_kechikish_daqiqa", Xom("int", tk, BOSH_MATN))} :
        ko \in {15, 60}, to \in {14, 15, 60}, kk \in {-1, 0, 40, 45}, tk \in {0, 14, 15}}

Pogonalar ==
    {{Farq("RiskTier", qator, "max_balance", xom)} :
        qator \in 1..3, xom \in {Xom("null", 0, BOSH_MATN), Xom("int", 20000, BOSH_MATN), Xom("int", 500, BOSH_MATN)}}
    \cup {{Farq("RiskTier", qator, "daily_risk_pct", Xom("float", son, BOSH_MATN))} : qator \in 1..3, son \in {0, 1}}

\* The lists of coins, with any one coin.
Coinliklar == {"seed_haram_symbols", "seed_mashbooh_symbols", "stablecoin_symbols", "kuzatiladigan_coinlar"}
Royxatlar ==
    {{Farq(IF kalit = "kuzatiladigan_coinlar" THEN "ZanjirConfig" ELSE "HalalScreeningConfig", 0, kalit,
           Xom("list", 1, coin))} :
        kalit \in Coinliklar, coin \in Coinlar}

KHujjatlar == {{}} \cup Bittalik \cup Chegaraviy \cup Oynalar \cup Pogonalar \cup Royxatlar

KQoidalar ==
    {<<"top_n", Xom("float", son, BOSH_MATN)>> : son \in {5, 6, 7}}
    \cup {<<"hajm_x", Xom("float", 10, BOSH_MATN)>>, <<"hajm_x", Xom("cheksiz", 0, BOSH_MATN)>>, <<"eski", Xom("float", 10, BOSH_MATN)>>}

\* Bounds: an admin has one thing of his own at a time, and none with a file whose
\* edits are not about coins; another environment than Railway with a volume goes
\* with the shipped file; a file is edited once, from rows that the shipped file or
\* no file left.
Admindan ==
    Cardinality({coin \in Coinlar : adminQarori[coin] # "yoq"})
    + Cardinality({narx \in DOMAIN narxlari : narxlari[narx] = 2}) + Cardinality(DOMAIN ustamalar)
Odatdagi == muhit = [railway |-> TRUE, disk |-> TRUE, url |-> "yoq"]
KChegara ==
    /\ yaml # {} => Odatdagi
    /\ Admindan <= IF Odatdagi /\ (\A f \in yaml : f.kalit \in Coinliklar) THEN 1 ELSE 0
Urugdagi ==
    \/ qarorlar = Qarorsiz
    \/ \A coin \in Coinlar : adminQarori[coin] = "yoq" => qarorlar[coin] = set_ruling({}, Qarorsiz)[coin]
Fayllari == IF yaml = {} /\ Urugdagi THEN Hujjatlar ELSE {{}}

MCKNext ==
    /\ \/ KQadam
       \/ /\ jarayon.bosqich = "sxema" \/ yaml # {}
          /\ \E yangi \in Fayllari : Joylashtiriladi(yangi)
    /\ KChegara'

MCKSpec == KInit /\ [][MCKNext]_kvars
=============================================================================
