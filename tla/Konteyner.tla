------------------------------- MODULE Konteyner -------------------------------
(* scripts/start.sh: one container of three processes.  It gives them one       *)
(* database address, brings the tables up, seeds (scripts/seed.py), and watches *)
(* over the site, the bot and the radar.  The rows of the database an admin     *)
(* writes and a seed or a session of the radar uses are here too: prices,       *)
(* rulings on coins, and the limits of the radar.                               *)
EXTENDS Sozlama, Sequences

CONSTANTS
    BOT_URINISHLAR,  \* how many times the bot is started
    Qoidalar         \* bound: the rows of radar_sozlamalar written, <<key, value>>

ASSUME KonteynerFarazi ==
    /\ BOT_URINISHLAR \in Nat \ {0}
    /\ \A qoida \in Qoidalar : qoida[2].son \in Int

VARIABLES
    yaml,         \* the configuration file, one of Hujjatlar
    muhit,        \* [railway, disk, url] of the environment: see Muhitlar
    jarayon,      \* [bosqich, sayt, bot, urinish, radar] of the container
    narxlari,     \* price_config: 0 no row, 1 the amount of the seed, 2 the admin's
    qarorlar,     \* coin_rulings: coin -> status, "yoq" when no row
    ustamalar,    \* radar_sozlamalar: key -> value
    adminQarori   \* the status the admin gave a coin last, "yoq" when none stands
kvars == <<yaml, muhit, jarayon, narxlari, qarorlar, ustamalar, adminQarori>>

------------------------------------------------------------------------------
(* Where the database is.                                                       *)

\* DATABASE_URL: not set, a relative path, a path of the container's disk or of
\* the volume, or a server.  A volume is Railway's.
Muhitlar ==
    {m \in [railway : BOOLEAN, disk : BOOLEAN, url : {"yoq", "nisbiy", "mutlaq", "diskda", "postgres"}] :
        (m.disk => m.railway) /\ (m.url = "diskda" => m.disk)}

Manzil(sxemasi, nisbiy, joyi) == [sxema |-> sxemasi, nisbiy |-> nisbiy, joy |-> joyi]
DATABASE_URL(m) ==
    CASE m.url = "yoq"      -> Manzil("yoq", TRUE, <<>>)
      [] m.url = "nisbiy"   -> Manzil("sqlite", TRUE, <<"data">>)
      [] m.url = "mutlaq"   -> Manzil("sqlite", FALSE, <<"srv">>)
      [] m.url = "diskda"   -> Manzil("sqlite", FALSE, <<"disk">>)
      [] m.url = "postgres" -> Manzil("postgres", FALSE, <<>>)

\* The volume takes a database whose address is not given.
apply_platform_defaults(m) ==
    IF DATABASE_URL(m).sxema = "yoq" /\ m.disk THEN Manzil("sqlite", FALSE, <<"disk">>) ELSE DATABASE_URL(m)
resolve_database_url(url) == IF url.sxema = "yoq" THEN Manzil("sqlite", TRUE, <<"data">>) ELSE url

\* A path is the names of the directories above the file.
Yechim(papka, url) == IF url.nisbiy THEN papka \o url.joy ELSE url.joy

\* What start.sh exports: a relative path is made absolute.
Eksport(m) ==
    LET url == resolve_database_url(apply_platform_defaults(m))
    IN  IF url.sxema = "sqlite" THEN Manzil("sqlite", FALSE, Yechim(<<"ildiz">>, url)) ELSE url

\* The directory each side works in, and where it finds the files of media: by
\* the database's, or, with no file, in the bot's own.
sqlite_file(m) == Yechim(<<"ildiz">>, Eksport(m))
_media_jildi(m) == IF Eksport(m).sxema = "sqlite" THEN sqlite_file(m) ELSE <<"ildiz", "data">>
bazaYoli(m) == Yechim(<<"ildiz", "web">>, Eksport(m))
videoJildi(m) == bazaYoli(m)

warn_if_data_is_temporary(m) == m.railway /\ Eksport(m).sxema = "sqlite" /\ ~m.disk

\* Railway empties all but the volume when it deploys.
Yoqoladi(m) == m.railway /\ Eksport(m).sxema = "sqlite" /\ Eksport(m).joy # <<"disk">>

------------------------------------------------------------------------------
(* scripts/seed.py                                                              *)

\* The coins, one of a kind: in the shipped lists, and in none.
Coinlar == {"harom", "shubhali", "stable", "royxat", "begona"}

\* The symbols of a list; without its section or itself a list is empty, but for
\* the watched coins, which the file does not give and have a default.
Royxat(hujjat, kalit) ==
    LET bolim == IF kalit = "kuzatiladigan_coinlar" THEN "ZanjirConfig" ELSE "HalalScreeningConfig"
        bor == [seed_haram_symbols |-> "harom", seed_mashbooh_symbols |-> "shubhali",
                stablecoin_symbols |-> "stable", kuzatiladigan_coinlar |-> "royxat"]
        farq == {f \in hujjat : f.bolim = bolim /\ f.kalit = kalit}
        bolimsiz == \E f \in hujjat : f.bolim = "AppConfig" /\ f.kalit = "halal_screening"
    IN  IF kalit = "kuzatiladigan_coinlar" /\ (\A f \in farq : f.xom.tur = "yoq") THEN {bor[kalit]}
        ELSE IF farq = {} THEN (IF bolimsiz /\ bolim = "HalalScreeningConfig" THEN {} ELSE {bor[kalit]})
        ELSE UNION {IF f.xom.son > 0 THEN {f.xom.matn} ELSE {} : f \in farq}

\* A list's member that is no text has no upper().
Belgilar(hujjat, kalit) == Royxat(hujjat, kalit) \subseteq Coinlar

UrugTugaydi(hujjat) ==
    /\ load_config(hujjat)
    /\ Belgilar(hujjat, "seed_haram_symbols") /\ Belgilar(hujjat, "seed_mashbooh_symbols")

\* Mutant: the seed writes its list whatever rows there are.
set_rulingBosadi(hujjat, bazada) ==
    [coin \in Coinlar |->
        IF coin \in Royxat(hujjat, "seed_mashbooh_symbols") THEN "mashbooh"
        ELSE IF coin \in Royxat(hujjat, "seed_haram_symbols") THEN "haram"
        ELSE bazada[coin]]

\* `mavjud` is read before either list is written.
set_ruling(hujjat, bazada) ==
    [coin \in Coinlar |->
        IF bazada[coin] # "yoq" THEN bazada[coin]
        ELSE IF coin \in Royxat(hujjat, "seed_mashbooh_symbols") THEN "mashbooh"
        ELSE IF coin \in Royxat(hujjat, "seed_haram_symbols") THEN "haram"
        ELSE "yoq"]

------------------------------------------------------------------------------
(* The container.                                                               *)

Oldi == [bosqich |-> "toxtadi", sayt |-> FALSE, bot |-> "yoq", urinish |-> 0, radar |-> "yoq"]
Boshidan == [Oldi EXCEPT !.bosqich = "sxema"]
Yuradi == jarayon.bosqich = "yuradi"
upsert(narx, summa) == narxlari' = [narxlari EXCEPT ![narx] = summa]
Narxsiz == [narx \in {"urugda", "boshqa"} |-> 0]
Qarorsiz == [coin \in Coinlar |-> "yoq"]
rows == <<narxlari, qarorlar, ustamalar, adminQarori>>

KInit ==
    /\ yaml = {} /\ muhit \in Muhitlar /\ jarayon = Boshidan
    /\ narxlari = Narxsiz /\ qarorlar = Qarorsiz /\ ustamalar = << >> /\ adminQarori = Qarorsiz

\* `set -e`: a step that fails ends the container.
alembic_upgrade ==
    /\ jarayon.bosqich = "sxema"
    /\ \E holati \in {"urug", "toxtadi"} : jarayon' = [jarayon EXCEPT !.bosqich = holati]
    /\ UNCHANGED <<yaml, muhit, rows>>

\* One transaction.  Then the site, the radar's supervisor and the bot start.
Urug ==
    /\ jarayon.bosqich = "urug"
    /\ \/ /\ UrugTugaydi(yaml)
          /\ jarayon' = [bosqich |-> "yuradi", sayt |-> TRUE, bot |-> "yuradi", urinish |-> 1,
                         radar |-> "boshlanadi"]
          /\ upsert("urugda", 1)
          /\ qarorlar' = set_ruling(yaml, qarorlar)
          /\ UNCHANGED <<ustamalar, adminQarori>>
       \/ jarayon' = Oldi /\ UNCHANGED rows
    /\ UNCHANGED <<yaml, muhit>>

\* Railway's restart is "ALWAYS".
QaytaKotariladi ==
    /\ jarayon.bosqich = "toxtadi"
    /\ jarayon' = Boshidan
    /\ UNCHANGED <<yaml, muhit, rows>>

Joylashtiriladi(yangi) ==
    /\ yaml' = yangi
    /\ jarayon' = Boshidan
    /\ IF ~Yoqoladi(muhit) THEN UNCHANGED rows
       ELSE narxlari' = Narxsiz /\ qarorlar' = Qarorsiz /\ ustamalar' = << >> /\ adminQarori' = Qarorsiz
    /\ UNCHANGED muhit

\* A process ends.  The script waits for the bot and the site together: a bot's
\* end with the site up is followed by a pause, in which nothing is waited for.
SaytTugaydi ==
    /\ Yuradi /\ jarayon.sayt
    /\ jarayon' = IF jarayon.bot = "yuradi" THEN Oldi ELSE [jarayon EXCEPT !.sayt = FALSE]
    /\ UNCHANGED <<yaml, muhit, rows>>
BotTugaydi ==
    /\ Yuradi /\ jarayon.bot = "yuradi"
    /\ jarayon' = [jarayon EXCEPT !.bot = "tanaffus"]
    /\ UNCHANGED <<yaml, muhit, rows>>
BotQaytadi ==
    /\ Yuradi /\ jarayon.bot = "tanaffus"
    /\ jarayon' = IF jarayon.urinish = BOT_URINISHLAR \/ ~jarayon.sayt THEN Oldi
                  ELSE [jarayon EXCEPT !.bot = "yuradi", !.urinish = @ + 1]
    /\ UNCHANGED <<yaml, muhit, rows>>

\* The radar's process reads the file; it may also fail at the database.
ishga_tushir ==
    /\ Yuradi /\ jarayon.radar = "boshlanadi"
    /\ \E holati \in IF ~Yoqilgan(yaml) THEN {"tugadi"}
                     ELSE IF radar_muammolari(yaml) THEN {"yuradi", "kutadi"} ELSE {"kutadi"} :
           jarayon' = [jarayon EXCEPT !.radar = holati]
    /\ UNCHANGED <<yaml, muhit, rows>>
RadarYiqiladi ==
    /\ Yuradi /\ jarayon.radar = "yuradi"
    /\ jarayon' = [jarayon EXCEPT !.radar = "kutadi"]
    /\ UNCHANGED <<yaml, muhit, rows>>
radar_nazoratchisi ==
    /\ Yuradi /\ jarayon.radar = "kutadi"
    /\ jarayon' = [jarayon EXCEPT !.radar = "boshlanadi"]
    /\ UNCHANGED <<yaml, muhit, rows>>

------------------------------------------------------------------------------
(* What an admin writes: in the bot, on the site, or into the table by hand.    *)

Saytda == Yuradi /\ jarayon.sayt /\ Eksport(muhit).sxema = "sqlite"
Botda == Yuradi /\ jarayon.bot = "yuradi"

narxSaqla ==
    /\ Saytda \/ Botda
    /\ \E narx \in DOMAIN narxlari : upsert(narx, 2)
    /\ UNCHANGED <<yaml, muhit, jarayon, qarorlar, ustamalar, adminQarori>>
qarorSaqla ==
    /\ Saytda \/ Botda
    /\ \E coin \in Coinlar, status \in {"halal", "haram", "mashbooh"} :
           /\ qarorlar' = [qarorlar EXCEPT ![coin] = status]
           /\ adminQarori' = [adminQarori EXCEPT ![coin] = status]
    /\ UNCHANGED <<yaml, muhit, jarayon, narxlari, ustamalar>>
qarorOchir ==
    /\ Saytda
    /\ \E coin \in Coinlar :
           /\ qarorlar' = [qarorlar EXCEPT ![coin] = "yoq"]
           /\ adminQarori' = [adminQarori EXCEPT ![coin] = "yoq"]
    /\ UNCHANGED <<yaml, muhit, jarayon, narxlari, ustamalar>>
Yoziladi(kalit, xom) ==
    ustamalar' = [boshqa \in DOMAIN ustamalar \cup {kalit} |->
                     IF boshqa = kalit THEN xom ELSE ustamalar[boshqa]]
sozlamaSaqla ==
    /\ Saytda
    /\ \E qoida \in Qoidalar :
           sozlamaTekshir(qoida[1], qoida[2]) /\ Yoziladi(qoida[1], qoida[2])
    /\ UNCHANGED <<yaml, muhit, jarayon, narxlari, qarorlar, adminQarori>>
sozlamaTikla ==
    /\ Saytda
    /\ \E kalit \in DOMAIN ustamalar \cap DOMAIN SOZLAMA_ORALIQLARI :
           ustamalar' = [boshqa \in DOMAIN ustamalar \ {kalit} |-> ustamalar[boshqa]]
    /\ UNCHANGED <<yaml, muhit, jarayon, narxlari, qarorlar, adminQarori>>
QoldaYozadi ==
    /\ Yuradi
    /\ \E qoida \in Qoidalar : Yoziladi(qoida[1], qoida[2])
    /\ UNCHANGED <<yaml, muhit, jarayon, narxlari, qarorlar, adminQarori>>

KQadam ==
    \/ alembic_upgrade \/ Urug \/ QaytaKotariladi
    \/ SaytTugaydi \/ BotTugaydi \/ BotQaytadi
    \/ ishga_tushir \/ RadarYiqiladi \/ radar_nazoratchisi
    \/ narxSaqla \/ qarorSaqla \/ qarorOchir \/ sozlamaSaqla \/ sozlamaTikla \/ QoldaYozadi

KNext == KQadam \/ \E yangi \in Hujjatlar : Joylashtiriladi(yangi)
KSpec == KInit /\ [][KNext]_kvars

------------------------------------------------------------------------------
(* What a session of the radar makes of it.                                     *)

Sessiyada == Yuradi /\ jarayon.radar = "yuradi"

\* halol.py, from a ruling down to nothing known.
holati(hujjat, bazada, coin) ==
    CASE coin \in Royxat(hujjat, "stablecoin_symbols")     -> "mashbooh"
      [] coin \notin Royxat(hujjat, "stablecoin_symbols") /\ bazada[coin] # "yoq" -> bazada[coin]
      [] OTHER -> IF coin \in Royxat(hujjat, "seed_haram_symbols") THEN "haram"
                  ELSE IF coin \in Royxat(hujjat, "seed_mashbooh_symbols") THEN "mashbooh"
                  ELSE IF coin \in Royxat(hujjat, "kuzatiladigan_coinlar") THEN "halal"
                  ELSE "baholanmagan"

------------------------------------------------------------------------------
(* Properties.                                                                  *)

\* No value in the radar's section keeps the bot and the site from starting
\* (radar_muammolari is not part of validate).
RadarYolgiz ==
    LET radarniki == {f \in yaml : f.bolim = "RadarConfig"}
    IN  jarayon.bosqich = "urug" /\ (\A f \in radarniki : f.kalit \in DOMAIN RadarConfig)
            => (UrugTugaydi(yaml) <=> UrugTugaydi(yaml \ radarniki))

\* In the radar that runs a late exploration never reaches the confirmation's
\* window, and this one ends before the candle opens.
OynalarAjralgan ==
    Sessiyada =>
        LET v(kalit) == Soni(RadarVaqti(yaml, kalit), 1)
        IN  /\ v("kashfiyot_daqiqa") - v("kashfiyot_kechikish_daqiqa") > v("tasdiq_daqiqa")
            /\ v("tasdiq_daqiqa") - v("tasdiq_kechikish_daqiqa") > 0

\* Whatever the file and the table hold, a session's limits are in their ranges
\* and whole where they count; and they are those the site shows, unless the table
\* was written by hand or the file has a truth value for a number.
ChegaraOraliqda ==
    Sessiyada =>
        \A kalit \in DOMAIN SOZLAMA_ORALIQLARI :
            LET chegara == chegaralar_qur(yaml, ustamalar)[kalit]
            IN  /\ SOZLAMA_ORALIQLARI[kalit][1] <= chegara /\ chegara <= SOZLAMA_ORALIQLARI[kalit][2]
                /\ kalit \in BUTUN_KALITLAR => chegara % 2 = 0
                /\ \/ \E boshqa \in DOMAIN ustamalar : ~sozlamaTekshir(boshqa, ustamalar[boshqa])
                   \/ Radardagi(yaml, kalit).tur = "bool"
                   \/ samarali(yaml, ustamalar, kalit) = chegara

\* The radar calls halal only what an admin did, or what is on the checked list
\* with nothing said against it, and never what an admin called haram.
RadarHalol ==
    Sessiyada =>
        \A coin \in Coinlar :
            /\ holati(yaml, qarorlar, coin) = "halal" =>
                   \/ adminQarori[coin] = "halal"
                   \/ coin \in Royxat(yaml, "kuzatiladigan_coinlar") /\ qarorlar[coin] = "yoq"
            /\ adminQarori[coin] = "haram" => holati(yaml, qarorlar, coin) # "halal"

\* A ruling of an admin stands through restarts, seeds and new files.
QarorSaqlanadi == \A coin \in Coinlar : adminQarori[coin] # "yoq" => qarorlar[coin] = adminQarori[coin]

\* The site and the programs in Python open one file, and look for media beside it.
BazaBir ==
    Yuradi /\ Eksport(muhit).sxema = "sqlite" =>
        bazaYoli(muhit) = sqlite_file(muhit) /\ videoJildi(muhit) = _media_jildi(muhit)

\* The warning of temporary data is true, and with no address given by hand it is
\* missing only when the data are kept.
OgohlantirishRost ==
    Botda =>
        /\ warn_if_data_is_temporary(muhit) => Yoqoladi(muhit)
        /\ DATABASE_URL(muhit).sxema = "yoq" /\ Yoqoladi(muhit) => warn_if_data_is_temporary(muhit)

\* The container starts with a whole configuration or not at all, its parts agree on
\* where the data are, and what an admin decided holds until he decides otherwise
\* (start.sh, seed.py, loader.py, sozlama.py, halol.py).
KonteynerButun ==
    /\ RadarYolgiz
    /\ OynalarAjralgan
    /\ ChegaraOraliqda
    /\ RadarHalol
    /\ QarorSaqlanadi
    /\ BazaBir
    /\ OgohlantirishRost

\* A price an admin set stays until he sets another: seed.py says the admin
\* changes the prices later, start.sh that running the seed again is safe.
NarxAdminniki == [][\A narx \in DOMAIN narxlari : narxlari[narx] = 2 => narxlari'[narx] # 1]_narxlari
=============================================================================
