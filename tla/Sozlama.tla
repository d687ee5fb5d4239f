------------------------------- MODULE Sozlama -------------------------------
(* core/config: the sections of config/default.yaml (schema.py), what a file    *)
(* must be to become a configuration (loader.py), and the limits of the radar,  *)
(* which the admin may also change on the site (portlash_radari/sozlama.py,     *)
(* web/src/lib/radar.ts).                                                       *)
(*                                                                              *)
(* A file is the shipped one with a set of edits.  An edit gives a key of a     *)
(* section (of the row `qator` where the section is a list) another value, or   *)
(* takes the key away.  What a value says is kept only where something asks:    *)
(* its kind, the number of a number, whether a list or mapping is empty, and    *)
(* which of a few texts a text is.                                              *)
EXTENDS Integers, FiniteSets, TLC

CONSTANT Hujjatlar  \* the files: sets of edits of the shipped one

\* The kinds of value YAML gives, and the absence of the key.
Turlar == {"yoq", "null", "bool", "int", "float", "str", "list", "dict"}
BOSH_MATN == "bosh"   \* the empty text
Xom(tur, son, matn) == [tur |-> tur, son |-> son, matn |-> matn]

ASSUME SozlamaFarazi ==
    /\ {} \in Hujjatlar
    /\ \A f \in UNION Hujjatlar : f.xom.tur \in Turlar /\ f.xom.son \in Int

------------------------------------------------------------------------------
(* schema.py: the keys of every section and the type each is declared with.     *)

Har(tip, kalitlar) == [kalit \in kalitlar |-> tip]

ProjectConfig == Har("str", {"name", "default_language"}) @@ Har("list", {"supported_languages"})

HalalScreeningConfig ==
    Har("int", {"target_count", "max_scan_depth", "refresh_interval_hours"})
    @@ Har("float", {"min_daily_volume_usd"}) @@ Har("str", {"quote_asset"})
    @@ Har("bool", {"exclude_stablecoins"})
    @@ Har("list", {"stablecoin_symbols", "seed_haram_symbols", "seed_mashbooh_symbols"})

OpenSignalLimits == Har("int", {"high", "mid", "low"})

CorrelationGroup == Har("str", {"name"}) @@ Har("list", {"symbols"})

KillSwitchConfig ==
    Har("float", {"price_spike_pct"}) @@ Har("int", {"price_spike_window_seconds"})
    @@ Har("bool", {"requires_manual_reset"})

ConsecutiveLossConfig == Har("int", {"max_consecutive_stops", "cooldown_hours"})

FridayFilterConfig ==
    Har("bool", {"enabled"}) @@ Har("str", {"timezone", "start", "end"}) @@ Har("int", {"weekday"})

RiskEngineConfig ==
    Har("float", {"daily_loss_limit_pct", "weekly_loss_limit_pct", "max_candle_age_seconds"})
    @@ Har("int", {"max_open_signals", "max_signals_per_correlation_group"})
    @@ [max_open_signals_by_health |-> "OpenSignalLimits", correlation_groups |-> "CorrelationGroup",
        kill_switch |-> "KillSwitchConfig", consecutive_loss |-> "ConsecutiveLossConfig",
        friday_filter |-> "FridayFilterConfig"]

RiskTier == Har("float", {"max_balance", "daily_risk_pct"})

AggregateConfig == Har("float", {"capacity_used_threshold"}) @@ Har("int", {"active_user_days"})

PositionSizingConfig ==
    Har("float", {"sequential_decay_fraction", "min_allocation_usd", "max_position_pct_of_balance"})
    @@ Har("str", {"allocation_method"}) @@ Har("int", {"equal_split_expected_slots"})
    @@ [risk_tiers |-> "RiskTier", aggregate |-> "AggregateConfig"]

\* tp_close_shares is a tuple, which the loader hands on as it finds it.
PortfolioConfig ==
    Har("tuple", {"tp_close_shares"}) @@ Har("float", {"min_position_usd", "bolak_chegara_pct"})
    @@ Har("int", {"bolak_soni"})

SubscriptionPeriods == Har("int", {"daily", "monthly"})

SubscriptionsConfig ==
    Har("list", {"tiers", "expiry_reminder_days", "currencies"})
    @@ [periods |-> "SubscriptionPeriods"]

MarketDataConfig ==
    Har("str", {"exchange", "ws_base_url", "rest_base_url", "ranking_source",
                "coinmarketcap_base_url", "coingecko_base_url"})
    @@ Har("list", {"reconnect_backoff_seconds"})
    @@ Har("int", {"stale_price_seconds", "max_concurrent_candle_requests"})
    @@ Har("float", {"candle_page_pause_seconds", "stale_candle_multiplier"})

LoggingConfig == Har("str", {"level", "dir"}) @@ Har("int", {"rotate_mb", "backups"})

MonitoringConfig == Har("bool", {"enabled"})

SinovDavriConfig ==
    Har("bool", {"enabled"}) @@ Har("str", {"start_date"}) @@ Har("int", {"days"})
    @@ Har("list", {"exclude_health_factors", "suspend_risk_rules"})

BacktestConfig == Har("float", {"fee_pct", "slippage_pct"})

ZanjirTimeframeConfig == Har("str", {"yonalish", "asosiy", "aniqlik", "tasdiq"})

NomzodFiltrConfig ==
    Har("float", {"eng_kam_hajm_usd"}) @@ Har("int", {"yangi_coin_kun", "yarim_yetuk_kun"})

BloklarConfig ==
    Har("float", {"funding_sovugan", "unlock_katta_pct", "fib_yuqori", "fib_past",
                  "poc_yaqinlik_pct", "sweep_eng_kam_pct", "rsi_past_zona", "wick_farq_chegara_pct"})
    @@ Har("int", {"fng_yuqori_chegara", "unlock_yaqin_kun", "fraktal_qanot", "nisbiy_kuch_oyna",
                   "poc_savatlar", "sweep_qaytish_sham", "rsi_davr"})
    @@ Har("str", {"ob_tarifi"})

DarajalarConfig ==
    Har("float", {"stop_eng_kam_pct", "stop_eng_kop_pct", "tp1_eng_kam_nisbat",
                  "tp_eng_kam_oraliq_pct", "stop_likvidlik_bufer_pct"})
    @@ Har("int", {"tp_eng_kop"})

ChiqishConfig ==
    Har("list", {"ulushlar"}) @@ Har("bool", {"tp1_breakeven", "trailing_yoqilgan"})
    @@ Har("float", {"trailing_r"}) @@ Har("int", {"qoldiq_muddat_kun", "umumiy_muddat_kun"})

AiVerificationConfig ==
    Har("bool", {"enabled"}) @@ Har("str", {"model", "base_url", "api_key_env"})
    @@ Har("float", {"timeout_seconds"}) @@ Har("int", {"max_tokens"})

ZanjirConfig ==
    [timeframelar |-> "ZanjirTimeframeConfig", nomzod |-> "NomzodFiltrConfig",
     bloklar |-> "BloklarConfig", darajalar |-> "DarajalarConfig", chiqish |-> "ChiqishConfig",
     ai |-> "AiVerificationConfig"]
    @@ Har("list", {"kuzatiladigan_coinlar"}) @@ Har("int", {"sikl_soat"})
    @@ Har("float", {"eng_kam_ishonch"}) @@ Har("bool", {"avtomatik_signal"})

KuzatuvConfig ==
    Har("int", {"skan_soat", "qidiruv_obunasiz", "qidiruv_lite", "qidiruv_pro", "qidiruv_premium"})
    @@ Har("str", {"tf_struktura", "tf_zona", "tf_pastki"})

RadarConfig ==
    LET bool == {"yoqilgan"}
        str == {"vaqt_zonasi", "futures_base_url"}
        float == {"min_kapitalizatsiya_usd", "min_hajm_24s_usd", "elak_hajm_x", "hajm_x",
                  "narx_ozgarish_pct", "funding_8s_pct", "oi_osish_pct", "long_short_nisbat",
                  "btc_farq_pp", "aylanma_max_pct", "unlock_min_pct", "portlash_24s_pct",
                  "portlash_7k_pct", "sorov_kutish_soniya"}
        int == {"yangi_listing_kun", "oi_oyna_soat", "unlock_kun", "nomzod_min", "top_n",
                "kashfiyot_daqiqa", "tasdiq_daqiqa", "kashfiyot_kechikish_daqiqa",
                "tasdiq_kechikish_daqiqa", "hajm_yangilash_soat", "hajm_yangilash_daqiqa",
                "namuna_soni", "parallel_sorov"}
    IN  [kalit \in bool \cup str \cup float \cup int |->
            IF kalit \in bool THEN "bool" ELSE IF kalit \in str THEN "str"
            ELSE IF kalit \in float THEN "float" ELSE "int"]

AppConfig ==
    [project |-> "ProjectConfig", sinov |-> "SinovDavriConfig",
     halal_screening |-> "HalalScreeningConfig", risk_engine |-> "RiskEngineConfig",
     zanjir |-> "ZanjirConfig", kuzatuv |-> "KuzatuvConfig", radar |-> "RadarConfig",
     portfolio |-> "PortfolioConfig", position_sizing |-> "PositionSizingConfig",
     subscriptions |-> "SubscriptionsConfig", market_data |-> "MarketDataConfig",
     monitoring |-> "MonitoringConfig", backtest |-> "BacktestConfig", logging |-> "LoggingConfig"]

Bolimlar ==
    [AppConfig |-> AppConfig, ProjectConfig |-> ProjectConfig,
     HalalScreeningConfig |-> HalalScreeningConfig, OpenSignalLimits |-> OpenSignalLimits,
     CorrelationGroup |-> CorrelationGroup, KillSwitchConfig |-> KillSwitchConfig,
     ConsecutiveLossConfig |-> ConsecutiveLossConfig, FridayFilterConfig |-> FridayFilterConfig,
     RiskEngineConfig |-> RiskEngineConfig, RiskTier |-> RiskTier,
     AggregateConfig |-> AggregateConfig, PositionSizingConfig |-> PositionSizingConfig,
     PortfolioConfig |-> PortfolioConfig, SubscriptionPeriods |-> SubscriptionPeriods,
     SubscriptionsConfig |-> SubscriptionsConfig, MarketDataConfig |-> MarketDataConfig,
     LoggingConfig |-> LoggingConfig, MonitoringConfig |-> MonitoringConfig,
     SinovDavriConfig |-> SinovDavriConfig, BacktestConfig |-> BacktestConfig,
     ZanjirTimeframeConfig |-> ZanjirTimeframeConfig, NomzodFiltrConfig |-> NomzodFiltrConfig,
     BloklarConfig |-> BloklarConfig, DarajalarConfig |-> DarajalarConfig,
     ChiqishConfig |-> ChiqishConfig, AiVerificationConfig |-> AiVerificationConfig,
     ZanjirConfig |-> ZanjirConfig, KuzatuvConfig |-> KuzatuvConfig, RadarConfig |-> RadarConfig]

\* The sections that are the rows of a list, and their keys without a default.
Royxatli == {"CorrelationGroup", "RiskTier"}
Majburiy == {<<"CorrelationGroup", "name">>, <<"RiskTier", "max_balance">>, <<"RiskTier", "daily_risk_pct">>}

------------------------------------------------------------------------------
(* loader.py                                                                    *)

\* A value is taken, or the file is refused.  Null is the default of a section
\* and the empty list; a key not known is refused; no other value is looked at.
_coerce(tip, xom) ==
    \/ tip \in {"str", "int", "float", "bool", "tuple"}
    \/ xom.tur = "null"
    \/ xom.tur = "list" /\ (tip = "list" \/ (tip \in Royxatli /\ xom.son = 0))
    \/ xom.tur = "dict" /\ tip \in DOMAIN Bolimlar \ Royxatli /\ xom.son = 0

_build(hujjat) ==
    \A f \in hujjat :
        /\ f.kalit \in DOMAIN Bolimlar[f.bolim]
        /\ IF f.xom.tur = "yoq" THEN <<f.bolim, f.kalit>> \notin Majburiy
           ELSE _coerce(Bolimlar[f.bolim][f.kalit], f.xom)

\* The value of a key, and of one in a list of sections.  A key that is absent has
\* the default, which for the keys asked here is the shipped value.
Qatordagi(hujjat, bolim, qator, kalit, standart) ==
    LET farq == {f \in hujjat : f.bolim = bolim /\ f.qator = qator /\ f.kalit = kalit /\ f.xom.tur # "yoq"}
    IN  IF farq = {} THEN standart ELSE (CHOOSE f \in farq : TRUE).xom
Qiymat(hujjat, bolim, kalit, standart) == Qatordagi(hujjat, bolim, 0, kalit, standart)

Sonli(xom) == xom.tur \in {"bool", "int", "float"}
\* Python's True is 1.
Soni(xom, birlik) == IF xom.tur = "bool" THEN xom.son * birlik ELSE xom.son

STANDART_POGONALAR ==
    <<[max_balance |-> Xom("int", 1000, BOSH_MATN), daily_risk_pct |-> Xom("float", 3000, BOSH_MATN)],
      [max_balance |-> Xom("int", 10000, BOSH_MATN), daily_risk_pct |-> Xom("float", 2000, BOSH_MATN)],
      [max_balance |-> Xom("null", 0, BOSH_MATN), daily_risk_pct |-> Xom("float", 1500, BOSH_MATN)]>>

\* Thousandths for the percentages.  A comparison of a number with what is not one
\* raises, which ends the process as a problem does.
PogonalarTogri(hujjat) ==
    LET max(i) == Qatordagi(hujjat, "RiskTier", i, "max_balance", STANDART_POGONALAR[i].max_balance)
        pct(i) == Qatordagi(hujjat, "RiskTier", i, "daily_risk_pct", STANDART_POGONALAR[i].daily_risk_pct)
    IN  /\ Qiymat(hujjat, "PositionSizingConfig", "risk_tiers", Xom("yoq", 0, BOSH_MATN)).tur = "yoq"
        /\ \A i \in 1..3 : Sonli(pct(i)) /\ Soni(pct(i), 1000) > 0
        /\ \A i \in 1..2 : Sonli(max(i))
        /\ max(3).tur = "null"
        /\ Soni(max(1), 1) <= Soni(max(2), 1)

JumaTogri(hujjat) ==
    LET hafta == Qiymat(hujjat, "FridayFilterConfig", "weekday", Xom("int", 4, BOSH_MATN))
    IN  /\ Sonli(hafta) /\ Soni(hafta, 1) \in 0..6
        /\ \A kalit \in {"start", "end"} :
               Qiymat(hujjat, "FridayFilterConfig", kalit, Xom("str", 0, "soat")).matn = "soat"

Tanlangan(hujjat, bolim, kalit, ruxsat) ==
    Qiymat(hujjat, bolim, kalit, Xom("str", 0, CHOOSE m \in ruxsat : TRUE)).matn \in ruxsat

validate(hujjat) ==
    LET ulush == Qiymat(hujjat, "PositionSizingConfig", "sequential_decay_fraction", Xom("float", 340, BOSH_MATN))
    IN  /\ PogonalarTogri(hujjat)
        /\ Tanlangan(hujjat, "PositionSizingConfig", "allocation_method", {"sequential_decay", "equal_split"})
        /\ Sonli(ulush) /\ 0 < Soni(ulush, 1000) /\ Soni(ulush, 1000) <= 1000
        /\ JumaTogri(hujjat)
        /\ Tanlangan(hujjat, "MarketDataConfig", "ranking_source", {"coinmarketcap", "coingecko"})
        /\ Tanlangan(hujjat, "MarketDataConfig", "exchange", {"binance", "bybit"})

load_config(hujjat) == _build(hujjat) /\ validate(hujjat)

------------------------------------------------------------------------------
(* The radar's numbers.  Each key has a unit of its own in which its limits and *)
(* its default are whole: 100 000 dollars, halves of what must be whole, the    *)
(* limit's last digit for a share, tenths for the rest.                         *)

RADAR_ORALIQLARI ==
    [min_kapitalizatsiya_usd |-> <<0, 1000000>>, min_hajm_24s_usd |-> <<0, 1000000>>,
     elak_hajm_x |-> <<10, 1000>>, yangi_listing_kun |-> <<0, 730>>, hajm_x |-> <<10, 1000>>,
     narx_ozgarish_pct |-> <<10, 10000>>, funding_8s_pct |-> <<1, 10000>>,
     oi_osish_pct |-> <<10, 10000>>, long_short_nisbat |-> <<10, 1000>>,
     btc_farq_pp |-> <<10, 10000>>, aylanma_max_pct |-> <<10, 1000>>, unlock_kun |-> <<2, 360>>,
     unlock_min_pct |-> <<1, 10000>>, nomzod_min |-> <<2, 14>>, top_n |-> <<6, 60>>,
     namuna_soni |-> <<0, 100>>, portlash_24s_pct |-> <<10, 10000>>, portlash_7k_pct |-> <<10, 10000>>]

RADAR_BUTUN_KALITLAR == {"yangi_listing_kun", "unlock_kun", "nomzod_min", "top_n", "namuna_soni"}

RADAR_STANDART ==
    [min_kapitalizatsiya_usd |-> 100, min_hajm_24s_usd |-> 5, elak_hajm_x |-> 30,
     yangi_listing_kun |-> 60, hajm_x |-> 50, narx_ozgarish_pct |-> 200, funding_8s_pct |-> 100,
     oi_osish_pct |-> 300, long_short_nisbat |-> 25, btc_farq_pp |-> 150, aylanma_max_pct |-> 600,
     unlock_kun |-> 14, unlock_min_pct |-> 500, nomzod_min |-> 8, top_n |-> 20, namuna_soni |-> 20,
     portlash_24s_pct |-> 200, portlash_7k_pct |-> 500]

\* One, in the key's unit.
Birlik ==
    [kalit \in DOMAIN RADAR_ORALIQLARI |->
        CASE kalit \in {"min_kapitalizatsiya_usd", "min_hajm_24s_usd"} -> 0
          [] kalit \in RADAR_BUTUN_KALITLAR -> 2
          [] kalit = "funding_8s_pct" -> 1000
          [] kalit = "unlock_min_pct" -> 100
          [] OTHER -> 10]

\* The site's own tables.
SOZLAMA_ORALIQLARI ==
    [min_kapitalizatsiya_usd |-> <<0, 1000000>>, min_hajm_24s_usd |-> <<0, 1000000>>,
     elak_hajm_x |-> <<10, 1000>>, yangi_listing_kun |-> <<0, 730>>, hajm_x |-> <<10, 1000>>,
     narx_ozgarish_pct |-> <<10, 10000>>, funding_8s_pct |-> <<1, 10000>>,
     oi_osish_pct |-> <<10, 10000>>, long_short_nisbat |-> <<10, 1000>>,
     btc_farq_pp |-> <<10, 10000>>, aylanma_max_pct |-> <<10, 1000>>, unlock_kun |-> <<2, 360>>,
     unlock_min_pct |-> <<1, 10000>>, nomzod_min |-> <<2, 14>>, top_n |-> <<6, 60>>,
     namuna_soni |-> <<0, 100>>, portlash_24s_pct |-> <<10, 10000>>, portlash_7k_pct |-> <<10, 10000>>]
BUTUN_KALITLAR == {"yangi_listing_kun", "unlock_kun", "nomzod_min", "top_n", "namuna_soni"}
SOZLAMA_STANDART == RADAR_STANDART

\* A value of the site's form, which may be no number, or of the table.
sozlamaTekshir(kalit, xom) ==
    /\ kalit \in DOMAIN SOZLAMA_ORALIQLARI
    /\ xom.tur = "float"
    /\ SOZLAMA_ORALIQLARI[kalit][1] <= xom.son /\ xom.son <= SOZLAMA_ORALIQLARI[kalit][2]
    /\ kalit \in BUTUN_KALITLAR => xom.son % 2 = 0

qiymat_xatosi(kalit, xom) ==
    \/ kalit \notin DOMAIN RADAR_ORALIQLARI
    \/ xom.tur # "float"
    \/ xom.son < RADAR_ORALIQLARI[kalit][1] \/ xom.son > RADAR_ORALIQLARI[kalit][2]
    \/ kalit \in RADAR_BUTUN_KALITLAR /\ xom.son % 2 # 0

Radardagi(hujjat, kalit) ==
    Qiymat(hujjat, "RadarConfig", kalit, Xom("float", RADAR_STANDART[kalit], BOSH_MATN))

\* The times of the radar, in minutes, hours or a number of requests.
RadarVaqti(hujjat, kalit) ==
    LET standart == [kashfiyot_daqiqa |-> 60, tasdiq_daqiqa |-> 15, kashfiyot_kechikish_daqiqa |-> 40,
                     tasdiq_kechikish_daqiqa |-> 14, oi_oyna_soat |-> 8, parallel_sorov |-> 5]
    IN  Qiymat(hujjat, "RadarConfig", kalit, Xom("int", standart[kalit], BOSH_MATN))

\* No problem is found, and nothing raises on the way.
radar_muammolari(hujjat) ==
    LET q(kalit) == Soni(Radardagi(hujjat, kalit), Birlik[kalit])
        v(kalit) == Soni(RadarVaqti(hujjat, kalit), 1)
    IN  /\ \A kalit \in DOMAIN RADAR_ORALIQLARI :
               /\ Sonli(Radardagi(hujjat, kalit))
               /\ RADAR_ORALIQLARI[kalit][1] <= q(kalit) /\ q(kalit) <= RADAR_ORALIQLARI[kalit][2]
               /\ kalit \in RADAR_BUTUN_KALITLAR => q(kalit) % 2 = 0
        /\ \A kalit \in {"kashfiyot_daqiqa", "tasdiq_daqiqa", "kashfiyot_kechikish_daqiqa",
                         "tasdiq_kechikish_daqiqa", "oi_oyna_soat", "parallel_sorov"} :
               Sonli(RadarVaqti(hujjat, kalit))
        /\ v("tasdiq_daqiqa") < v("kashfiyot_daqiqa")
        /\ v("tasdiq_kechikish_daqiqa") < v("tasdiq_daqiqa")
        /\ v("kashfiyot_daqiqa") - v("kashfiyot_kechikish_daqiqa") > v("tasdiq_daqiqa")
        /\ v("oi_oyna_soat") \in 1..48
        /\ v("parallel_sorov") >= 1

\* Whether the radar is on: the value is only asked for its truth.
Yoqilgan(hujjat) ==
    LET xom == Qiymat(hujjat, "RadarConfig", "yoqilgan", Xom("bool", 1, BOSH_MATN))
    IN  xom.tur # "null" /\ (xom.son # 0 \/ xom.matn # BOSH_MATN)

\* The limits of a session: the file's, but for the rows of the table that pass.
\* A function from keys to values of rows.
chegaralar_qur(hujjat, ozgarishlar) ==
    [kalit \in DOMAIN RADAR_ORALIQLARI |->
        IF kalit \in DOMAIN ozgarishlar /\ ~qiymat_xatosi(kalit, ozgarishlar[kalit])
        THEN ozgarishlar[kalit].son
        ELSE Soni(Radardagi(hujjat, kalit), Birlik[kalit])]

\* What the site says the limit is.
samarali(hujjat, ozgarishlar, kalit) ==
    IF kalit \in DOMAIN ozgarishlar /\ ozgarishlar[kalit].tur = "float" THEN ozgarishlar[kalit].son
    ELSE IF Radardagi(hujjat, kalit).tur \in {"int", "float"} THEN Radardagi(hujjat, kalit).son
    ELSE SOZLAMA_STANDART[kalit]
=============================================================================
