----------------------------- MODULE ZanjirSikl -----------------------------
(***************************************************************************)
(* The four-hour cycle (core/services/zanjir_sikl.py) that looks for a     *)
(* signal in every coin it follows, and everyone else who touches `signals`*)
(* meanwhile.  A run reads the open coins and the last signal of each coin *)
(* once, in one session, and then goes from coin to coin over many awaits: *)
(* candles, the question to the AI, a session per new signal.              *)
(*                                                                         *)
(* What the analysis finds is arbitrary: it rejects the coin or gives a    *)
(* zone.  A zone stands for its levels up to the tolerance of              *)
(* _bir_xil_daraja.  The order of the list of coins is left open.          *)
(***************************************************************************)
EXTENDS Naturals, FiniteSets

CONSTANTS
    Coinlar,        \* zanjir.kuzatiladigan_coinlar, each once
    Zonalar,        \* the zones (levels) a signal can have
    ZONASIZ,        \* no zone
    MaxQator,       \* bound: how many signals are made
    Avtomatik,      \* zanjir.avtomatik_signal
    QoldaBor        \* do the admin and the site make signals too

ASSUME ZanjirFarazi ==
    /\ ZONASIZ \notin Zonalar \cup Coinlar
    /\ MaxQator \in Nat
    /\ Avtomatik \in BOOLEAN
    /\ QoldaBor \in BOOLEAN

VARIABLES
    qator,      \* the rows of signals by id
    joy,        \* where the run is
    ochiq,      \* the coins that had an open signal when the run began
    oxirgi,     \* the zone of each coin's last signal then
    navbat,     \* the coins the run has not come to
    joriy,      \* the coin and the zone the AI is asked about
    natija,     \* what the run has found for each coin
    boshi,      \* the last id when the run began
    ekran       \* the coins with a row in zanjir_holatlari: what the site shows

zvars == <<qator, joy, ochiq, oxirgi, navbat, joriy, natija, boshi, ekran>>
suratlar == <<ochiq, oxirgi, boshi>>

Id == 1..MaxQator
(* What is shown of a coin.  "rad" stands for every refusal: the chain      *)
(* breaks, little trust, no levels, the zone of the last signal, the price  *)
(* has left the zone, the AI says no.                                       *)
Natijalar == {"ochiq_signal", "xato", "rad", "toxtatilgan", "signal"}
BoshNatija == [c \in Coinlar |-> "yoq"]
BoshQator == [holat |-> "yoq", coin |-> ZONASIZ, zona |-> ZONASIZ, manba |-> "yoq"]
BoshJoriy == [coin |-> ZONASIZ, zona |-> ZONASIZ]

ZanjirInit ==
    /\ qator = [i \in Id |-> BoshQator]
    /\ joy = "bosh"
    /\ ochiq = {}
    /\ oxirgi = [c \in Coinlar |-> ZONASIZ]
    /\ navbat = {}
    /\ joriy = BoshJoriy
    /\ natija = BoshNatija
    /\ boshi = 0
    /\ ekran = {}

-----------------------------------------------------------------------------
Yaratilgan(i) == qator[i].holat # "yoq"
OchiqQator(i) == qator[i].holat \in {"ochiq", "qayta"}
Bor(i) == OchiqQator(i) \/ qator[i].holat = "yopiq"
Qatorlari(c) == {i \in Id : Yaratilgan(i) /\ qator[i].coin = c}

(* SignalRepository.create: the next id. *)
Yarat(c, z, m) ==
    \E i \in Id :
        /\ ~Yaratilgan(i)
        /\ \A j \in Id : j < i => Yaratilgan(j)
        /\ qator' = [qator EXCEPT ![i] = [holat |-> "ochiq", coin |-> c, zona |-> z, manba |-> m]]

-----------------------------------------------------------------------------
(* Everyone else: neither the admin's form nor the site's looks for an open *)
(* signal of the coin.                                                      *)
QoldaYaratiladi ==
    /\ QoldaBor
    /\ \E c \in Coinlar, z \in Zonalar : Yarat(c, z, "manual")
    /\ UNCHANGED <<joy, suratlar, navbat, joriy, natija, ekran>>

(* The watcher closes, the admin cancels. *)
Yopiladi ==
    /\ \E i \in Id : OchiqQator(i) /\ qator' = [qator EXCEPT ![i].holat = "yopiq"]
    /\ UNCHANGED <<joy, suratlar, navbat, joriy, natija, ekran>>

(* The watcher writes what it found with an old snapshot over a             *)
(* cancellation: the row is open again ("qayta").                           *)
QaytaOchish ==
    /\ \E i \in Id : qator[i].holat = "yopiq" /\ qator' = [qator EXCEPT ![i].holat = "qayta"]
    /\ UNCHANGED <<joy, suratlar, navbat, joriy, natija, ekran>>

(* The site deletes. *)
QatorOchir ==
    /\ \E i \in Id : Bor(i) /\ qator' = [qator EXCEPT ![i].holat = "ochirilgan"]
    /\ UNCHANGED <<joy, suratlar, navbat, joriy, natija, ekran>>

-----------------------------------------------------------------------------
(* The run. *)
(* Mutant: only the newest signal of a coin is looked at. *)
SongiOchiq ==
    {c \in Coinlar : \E i \in Qatorlari(c) : OchiqQator(i) /\ \A j \in Qatorlari(c) : j <= i}

OchiqCoinlar == {c \in Coinlar : \E i \in Qatorlari(c) : OchiqQator(i)}

(* Mutant: only the open signals are looked at for the last zone. *)
OchiqZona(c) ==
    LET R == {i \in Qatorlari(c) : OchiqQator(i)}
    IN  IF R = {} THEN ZONASIZ ELSE qator[CHOOSE i \in R : \A j \in R : j <= i].zona

(* oxirgi_signallar: the newest row that is there. *)
Eng(R) == {i \in R : \A j \in R : j <= i}
OxirgiZona(c) ==
    LET S == Eng({i \in Qatorlari(c) : Bor(i)})
    IN  IF S = {} THEN ZONASIZ ELSE qator[CHOOSE i \in S : TRUE].zona

(* The run is over, and its local variables with it. *)
Tugash ==
    /\ joy' = "bosh"
    /\ ochiq' = {}
    /\ oxirgi' = [c \in Coinlar |-> ZONASIZ]
    /\ boshi' = 0
    /\ navbat' = {}
    /\ joriy' = BoshJoriy
    /\ natija' = BoshNatija

(* yur: the session at the start. *)
Boshlash ==
    /\ joy = "bosh"
    /\ joy' = "btc"
    /\ ochiq' = OchiqCoinlar
    /\ oxirgi' = [c \in Coinlar |-> OxirgiZona(c)]
    /\ boshi' = Cardinality({i \in Id : Yaratilgan(i)})
    /\ navbat' = Coinlar
    /\ natija' = BoshNatija
    /\ UNCHANGED <<qator, joriy, ekran>>

(* The candles of BTC are fetched outside of the try: a failure ends the    *)
(* run, and nothing is written.                                             *)
BtcYuklandi ==
    /\ joy = "btc"
    /\ \/ joy' = "coin" /\ UNCHANGED <<suratlar, navbat, joriy, natija>>
       \/ Tugash
    /\ UNCHANGED <<qator, ekran>>

(* A coin with an open signal in the snapshot is passed over. *)
Otkaz(c) ==
    /\ joy = "coin"
    /\ c \in navbat
    /\ c \in ochiq
    /\ navbat' = navbat \ {c}
    /\ natija' = [natija EXCEPT ![c] = "ochiq_signal"]
    /\ UNCHANGED <<qator, joy, suratlar, joriy, ekran>>

(* An exception in one coin does not stop the others. *)
Xato(c) ==
    /\ joy = "coin"
    /\ c \in navbat \ ochiq
    /\ navbat' = navbat \ {c}
    /\ natija' = [natija EXCEPT ![c] = "xato"]
    /\ UNCHANGED <<qator, joy, suratlar, joriy, ekran>>

(* _bitta_coin up to the AI: the coin is refused, because its levels are    *)
(* those of the last signal or for one of many other reasons ...            *)
Rad(c) ==
    /\ joy = "coin"
    /\ c \in navbat \ ochiq
    /\ navbat' = navbat \ {c}
    /\ natija' = [natija EXCEPT ![c] = "rad"]
    /\ UNCHANGED <<qator, joy, suratlar, joriy, ekran>>

(* ... or it has new levels, and the AI is asked. *)
AiSora(c) ==
    /\ joy = "coin"
    /\ c \in navbat \ ochiq
    /\ \E z \in Zonalar \ {oxirgi[c]} : joriy' = [coin |-> c, zona |-> z]
    /\ joy' = "ai"
    /\ navbat' = navbat \ {c}
    /\ UNCHANGED <<qator, suratlar, natija, ekran>>

AiJavob(n) ==
    /\ joy' = "coin"
    /\ natija' = [natija EXCEPT ![joriy.coin] = n]
    /\ joriy' = BoshJoriy
    /\ UNCHANGED <<suratlar, navbat, ekran>>

(* Mutant: the signal is written before the AI's answer is known. *)
AvvalYozadi ==
    /\ joy = "ai"
    /\ Yarat(joriy.coin, joriy.zona, "zanjir")
    /\ AiJavob("rad")

(* The AI says no, or an exception, or the automatic signal is off.         *)
AiRad ==
    /\ joy = "ai"
    /\ \E n \in {"rad", "xato"} \cup (IF Avtomatik THEN {} ELSE {"toxtatilgan"}) : AiJavob(n)
    /\ UNCHANGED qator

SignalBerish ==
    /\ joy = "ai"
    /\ Avtomatik
    /\ Yarat(joriy.coin, joriy.zona, "zanjir")
    /\ AiJavob("signal")

(* _holatlarni_yoz: all coins in one transaction; its failure is swallowed. *)
HolatlarniYoz ==
    /\ joy = "coin"
    /\ navbat = {}
    /\ ekran' \in {ekran, ekran \cup {c \in Coinlar : natija[c] # "yoq"}}
    /\ Tugash
    /\ UNCHANGED qator

(* The bot restarts. *)
YurUzilish ==
    /\ joy # "bosh"
    /\ Tugash
    /\ UNCHANGED <<qator, ekran>>

Yurish ==
    \/ Boshlash
    \/ BtcYuklandi
    \/ \E c \in Coinlar : Otkaz(c) \/ Xato(c) \/ Rad(c) \/ AiSora(c)
    \/ AiRad
    \/ SignalBerish
    \/ HolatlarniYoz
    \/ YurUzilish

ZanjirNext == QoldaYaratiladi \/ Yopiladi \/ QaytaOchish \/ QatorOchir \/ Yurish

ZanjirSpec == ZanjirInit /\ [][ZanjirNext]_zvars

-----------------------------------------------------------------------------
ZanjirTypeOK ==
    /\ qator \in [Id -> [holat : {"yoq", "ochiq", "yopiq", "qayta", "ochirilgan"},
                         coin : Coinlar \cup {ZONASIZ}, zona : Zonalar \cup {ZONASIZ},
                         manba : {"yoq", "manual", "zanjir"}]]
    /\ joy \in {"bosh", "btc", "coin", "ai"}
    /\ ochiq \subseteq Coinlar
    /\ oxirgi \in [Coinlar -> Zonalar \cup {ZONASIZ}]
    /\ navbat \subseteq Coinlar
    /\ joriy \in [coin : Coinlar \cup {ZONASIZ}, zona : Zonalar \cup {ZONASIZ}]
    /\ joy = "ai" <=> joriy.coin \in Coinlar
    /\ joy = "ai" => joriy.coin \notin navbat
    /\ natija \in [Coinlar -> Natijalar \cup {"yoq"}]
    /\ boshi \in Nat
    /\ ekran \subseteq Coinlar

Zanjirniki(i) == Yaratilgan(i) /\ qator[i].manba = "zanjir"

(* While a signal of the cycle has been open ever since it was made, the    *)
(* cycle makes no other in its coin, although it looks once, at the start,  *)
(* and the watcher, the admin and the site change the rows while it runs.   *)
(* Only one that was closed and opened again may have a younger one.        *)
ZanjirBitta ==
    \A i, j \in Id :
        (i < j /\ Zanjirniki(i) /\ Zanjirniki(j) /\ qator[i].coin = qator[j].coin)
            => qator[i].holat # "ochiq"

Ketma(i, j) ==
    /\ i < j
    /\ qator[i].coin = qator[j].coin
    /\ ~\E k \in Id : i < k /\ k < j /\ k \in Qatorlari(qator[i].coin)

(* Two signals of the cycle that follow one another in a coin have          *)
(* different levels, whatever became of the first, unless it was deleted:   *)
(* the zone does not become a signal again because its signal was closed.   *)
TakrorEmas ==
    \A i, j \in Id :
        (Zanjirniki(i) /\ Zanjirniki(j) /\ Ketma(i, j) /\ qator[i].holat # "ochirilgan")
            => qator[i].zona # qator[j].zona

(* When a run is over, what it reports to the admins (yangi_signallar) is   *)
(* what it has put into the table.                                          *)
HisobotTogri ==
    (joy = "coin" /\ navbat = {})
        => \A c \in Coinlar :
              natija[c] = "signal" <=> \E i \in Qatorlari(c) : i > boshi /\ Zanjirniki(i)

(* The screen shows every coin or none: one coin's failure does not hide    *)
(* the others.                                                              *)
EkranButun == ekran \in {{}, Coinlar}

\* A run reports what it wrote, and one coin's failure hides no other.
YurishButun == HisobotTogri /\ EkranButun

=============================================================================
