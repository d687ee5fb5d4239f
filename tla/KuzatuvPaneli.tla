----------------------------- MODULE KuzatuvPaneli -----------------------------
(* The watch panel (core/watch_panel/, bot/services/scheduler.py): a scan of    *)
(* all coins writes two ranked lists and points the live stream at the Top      *)
(* list; another task copies the stream's sums into kuzatuv_bozor.  A scan is   *)
(* run by two tasks, the timer's and the one that sees the admin's request, and *)
(* nothing keeps them apart.                                                    *)
EXTENDS Integers, Sequences, FiniteSets, SequencesExt

CONSTANTS
    PanelCoinlari, \* zanjir.kuzatiladigan_coinlar
    TopHajm,       \* TOP_HAJM
    KuzatuvHajm,   \* KUZATUV_HAJM
    MaxBosish,     \* bound: presses of "update now"
    MaxNosozlik    \* bound: failed writes and restarts

ASSUME PanelFarazi ==
    /\ PanelCoinlari # {} /\ IsFiniteSet(PanelCoinlari)
    /\ TopHajm \in Nat \ {0} /\ KuzatuvHajm \in Nat
    /\ {MaxBosish, MaxNosozlik} \subseteq Nat

VARIABLES
    holatlar,   \* table kuzatuv_holatlari: what the screen says of each coin
    skan,       \* kuzatuv_skani.holat
    sorov,      \* kuzatuv_skani.sorov
    kbozor,     \* table kuzatuv_bozor: the coins that have a live row
    oqim,       \* BozorYigichi._symbols: the coins the stream follows (memory)
    vazifa,     \* the two tasks that scan
    jonli,      \* the task that copies the stream
    oxirgiSkan,  \* history: the result the last committed scan had
    tashlandi,  \* history: a scan broke off since the last one ended
    sorovSkan,  \* history: scans made at the admin's request
    bosildi,    \* history: presses of "update now"
    nosozlik    \* history: failed writes and restarts

pvars == <<holatlar, skan, sorov, kbozor, oqim, vazifa, jonli, oxirgiSkan, tashlandi,
          sorovSkan, bosildi, nosozlik>>
tarix == <<sorovSkan, bosildi, nosozlik>>

Skanerlar == {"taymer", "sorov"}   \* _kuzatuv_skani by the clock, _kuzatuv_sorovi

BOSH == "bosh"
YURMOQDA == "yurmoqda"
TUGADI == "tugadi"
XATO == "xato"
TOP == "top"
KUZATUVDA == "kuzatuvda"
TASHQARIDA == "royxatdan_tashqari"

BoshVazifa == [pc |-> "kutish", top |-> {}]
BoshJonli == [pc |-> "kutish", yigmalar |-> {}]
Qatorsiz == [royxat |-> "yoq", orin |-> 0]

\* What a scan finds: the coins whose evaluation raised, and those that passed
\* the filter, best first.  The others were evaluated and did not pass.
SkanNatijalari ==
    {n \in [yiqildi : SUBSET PanelCoinlari, otdi : SetToAllKPermutations(PanelCoinlari)] :
        n.yiqildi \cap ToSet(n.otdi) = {}}

OrinOralig(n, a, b) == {n.otdi[i] : i \in {i \in DOMAIN n.otdi : a < i /\ i <= b}}

\* royxatlarni_qur: no filling up, nobody who did not pass.
Top(n) == OrinOralig(n, 0, TopHajm)
Kuzatuvda(n) == OrinOralig(n, TopHajm, TopHajm + KuzatuvHajm)

Orni(n, c) == CHOOSE i \in DOMAIN n.otdi : n.otdi[i] = c

\* Mutant: the coins below the lists keep the row they had.
QolganlarsizYoz(n) ==
    [c \in PanelCoinlari |->
        CASE c \in Top(n) -> [royxat |-> TOP, orin |-> Orni(n, c)]
          [] c \in Kuzatuvda(n) -> [royxat |-> KUZATUVDA, orin |-> Orni(n, c)]
          [] OTHER -> holatlar[c]]

\* royxatlarni_yoz: every evaluated coin; of a coin that failed nothing is written.
royxatlarni_yoz(n) ==
    [c \in PanelCoinlari |->
        CASE c \in Top(n) -> [royxat |-> TOP, orin |-> Orni(n, c)]
          [] c \in Kuzatuvda(n) -> [royxat |-> KUZATUVDA, orin |-> Orni(n, c)]
          [] c \in n.yiqildi -> holatlar[c]
          [] OTHER -> [royxat |-> TASHQARIDA, orin |-> 0]]

PInit ==
    /\ holatlar = [c \in PanelCoinlari |-> Qatorsiz]
    /\ skan = BOSH /\ sorov = FALSE /\ kbozor = {} /\ oqim = {}
    /\ vazifa = [t \in Skanerlar |-> BoshVazifa] /\ jonli = BoshJonli
    /\ oxirgiSkan = [yiqildi |-> PanelCoinlari, otdi |-> <<>>] /\ tashlandi = FALSE
    /\ sorovSkan = 0 /\ bosildi = 0 /\ nosozlik = 0
-----------------------------------------------------------------------------
\* A scan (_kuzatuv_skani), by either task

\* sorov_bormi: what stays of the flag once it is read.
SorovdanKeyin(bayroq) == FALSE

\* Mutant: a request waits until the screen says no scan runs.
SorovNavbatda ==
    /\ vazifa["sorov"].pc = "kutish" /\ sorov /\ skan # YURMOQDA
    /\ sorov' = SorovdanKeyin(sorov)
    /\ vazifa' = [vazifa EXCEPT !["sorov"].pc = "olindi"]
    /\ UNCHANGED <<holatlar, skan, kbozor, oqim, jonli, oxirgiSkan, tashlandi, tarix>>

\* _kuzatuv_sorovi: the flag falls in a session of its own, then the scan.
SorovOlinadi ==
    /\ vazifa["sorov"].pc = "kutish" /\ sorov
    /\ sorov' = SorovdanKeyin(sorov)
    /\ vazifa' = [vazifa EXCEPT !["sorov"].pc = "olindi"]
    /\ UNCHANGED <<holatlar, skan, kbozor, oqim, jonli, oxirgiSkan, tashlandi, tarix>>

Boshlaydi(t) == vazifa[t].pc = IF t = "sorov" THEN "olindi" ELSE "kutish"

\* boshlandi: the screen says so before the scan begins.
SkanBoshlanadi(t) ==
    /\ Boshlaydi(t)
    /\ skan' = YURMOQDA /\ tashlandi' = FALSE
    /\ vazifa' = [vazifa EXCEPT ![t].pc = "skan"]
    /\ sorovSkan' = sorovSkan + (IF t = "sorov" THEN 1 ELSE 0)
    /\ UNCHANGED <<holatlar, sorov, kbozor, oqim, jonli, oxirgiSkan, bosildi, nosozlik>>

\* yur: minutes of requests, then one session writes all the rows.
SkanYozadi(t) ==
    /\ vazifa[t].pc = "skan"
    /\ \E n \in SkanNatijalari :
          /\ holatlar' = royxatlarni_yoz(n)
          /\ oxirgiSkan' = n
          /\ vazifa' = [vazifa EXCEPT ![t] = [pc |-> "yozdi", top |-> Top(n)]]
    /\ UNCHANGED <<skan, sorov, kbozor, oqim, jonli, tashlandi, tarix>>

\* BTC's candles, a source or the write raise: the screen gets the error.
SkanYiqiladi(t) ==
    /\ vazifa[t].pc = "skan"
    /\ skan' = XATO
    /\ vazifa' = [vazifa EXCEPT ![t] = BoshVazifa]
    /\ UNCHANGED <<holatlar, sorov, kbozor, oqim, jonli, oxirgiSkan, tashlandi, tarix>>

\* kuzat: coins that left are cut off, new ones joined.
kuzat(top) == top

\* tugadi is committed; then, without an await, the stream gets its list.
SkanTugaydi(t) ==
    /\ vazifa[t].pc = "yozdi"
    /\ skan' = TUGADI
    /\ oqim' = kuzat(vazifa[t].top)
    /\ vazifa' = [vazifa EXCEPT ![t].pc = "ochirish"]
    /\ UNCHANGED <<holatlar, sorov, kbozor, jonli, oxirgiSkan, tashlandi, tarix>>

\* Mutant: the live rows of coins that left are kept, like their states.
HammasiQoladi(t) == kbozor

\* bozordan_tashqarilarni_ochir: what stays of the live rows.
Qoladi(t) == kbozor \cap vazifa[t].top

JonliOchiriladi(t) ==
    /\ vazifa[t].pc = "ochirish"
    /\ kbozor' = Qoladi(t)
    /\ vazifa' = [vazifa EXCEPT ![t] = BoshVazifa]
    /\ UNCHANGED <<holatlar, skan, sorov, oqim, jonli, oxirgiSkan, tashlandi, tarix>>

\* A session of the scan fails: _repeat catches it, the rest of the scan is lost.
SkanUziladi(t) ==
    /\ nosozlik < MaxNosozlik /\ vazifa[t].pc \in {"olindi", "skan", "yozdi", "ochirish"}
    /\ nosozlik' = nosozlik + 1
    /\ tashlandi' = (tashlandi \/ vazifa[t].pc \in {"skan", "yozdi"})
    /\ vazifa' = [vazifa EXCEPT ![t] = BoshVazifa]
    /\ UNCHANGED <<holatlar, skan, sorov, kbozor, oqim, jonli, oxirgiSkan, sorovSkan, bosildi>>
-----------------------------------------------------------------------------
\* The live rows (_jonli_yigma)

\* The sums are taken of the stream's coins of this moment; the writing comes
\* after awaits (CoinGecko, each coin's SELECT).
JonliOqiydi ==
    /\ jonli.pc = "kutish" /\ oqim # {}
    /\ jonli' = [pc |-> "yozish", yigmalar |-> oqim]
    /\ UNCHANGED <<holatlar, skan, sorov, kbozor, oqim, vazifa, oxirgiSkan, tashlandi, tarix>>

\* bozorni_yoz of each: a row that is gone is made again.
JonliYozadi ==
    /\ jonli.pc = "yozish"
    /\ kbozor' = kbozor \cup jonli.yigmalar
    /\ jonli' = BoshJonli
    /\ UNCHANGED <<holatlar, skan, sorov, oqim, vazifa, oxirgiSkan, tashlandi, tarix>>

\* The write fails (a row of it deleted meanwhile, a locked database).
JonliYiqiladi ==
    /\ jonli.pc = "yozish" /\ nosozlik < MaxNosozlik
    /\ nosozlik' = nosozlik + 1
    /\ jonli' = BoshJonli
    /\ UNCHANGED <<holatlar, skan, sorov, kbozor, oqim, vazifa, oxirgiSkan, tashlandi, sorovSkan, bosildi>>
-----------------------------------------------------------------------------
\* The site's one write, and the restart

kuzatuvSkaniSora ==
    /\ bosildi < MaxBosish
    /\ sorov' = TRUE /\ bosildi' = bosildi + 1
    /\ UNCHANGED <<holatlar, skan, kbozor, oqim, vazifa, jonli, oxirgiSkan, tashlandi, sorovSkan, nosozlik>>

Uziladi ==
    /\ nosozlik < MaxNosozlik
    /\ nosozlik' = nosozlik + 1
    /\ tashlandi' = (tashlandi \/ \E t \in Skanerlar : vazifa[t].pc \in {"skan", "yozdi"})
    /\ oqim' = {} /\ jonli' = BoshJonli
    /\ vazifa' = [t \in Skanerlar |-> BoshVazifa]
    /\ UNCHANGED <<holatlar, skan, sorov, kbozor, oxirgiSkan, sorovSkan, bosildi>>

Skaner(t) ==
    \/ SkanBoshlanadi(t) \/ SkanYozadi(t) \/ SkanYiqiladi(t) \/ SkanTugaydi(t)
    \/ JonliOchiriladi(t) \/ SkanUziladi(t)

Jonli == JonliOqiydi \/ JonliYozadi \/ JonliYiqiladi

PNext == (\E t \in Skanerlar : Skaner(t)) \/ SorovOlinadi \/ Jonli \/ kuzatuvSkaniSora \/ Uziladi

PSpec == PInit /\ [][PNext]_pvars

\* _repeat runs each task again and again; the sources do not fail every scan.
PFairSpec ==
    /\ PSpec
    /\ \A t \in Skanerlar : WF_pvars(Skaner(t)) /\ SF_pvars(SkanYozadi(t))
    /\ WF_pvars(SorovOlinadi) /\ WF_pvars(Jonli)
-----------------------------------------------------------------------------
\* Properties

PTypeOK ==
    /\ holatlar \in [PanelCoinlari -> [royxat : {"yoq", TOP, KUZATUVDA, TASHQARIDA},
                                 orin : 0..(TopHajm + KuzatuvHajm)]]
    /\ skan \in {BOSH, YURMOQDA, TUGADI, XATO} /\ sorov \in BOOLEAN
    /\ kbozor \subseteq PanelCoinlari /\ oqim \subseteq PanelCoinlari
    /\ vazifa \in [Skanerlar -> [pc : {"kutish", "olindi", "skan", "yozdi", "ochirish"},
                                 top : SUBSET PanelCoinlari]]
    /\ jonli \in [pc : {"kutish", "yozish"}, yigmalar : SUBSET PanelCoinlari]
    /\ oxirgiSkan \in SkanNatijalari /\ tashlandi \in BOOLEAN
    /\ bosildi \in 0..MaxBosish /\ sorovSkan \in Nat /\ nosozlik \in 0..MaxNosozlik

Ekranda(royxat) == {c \in PanelCoinlari : holatlar[c].royxat = royxat}

\* The screen shows the lists of one scan, whichever of two scans at once wrote
\* last: a place is held by one coin, nobody is in Top who did not earn it there,
\* and only a coin whose evaluation failed may still stand where it stood.
RoyxatBirSkandan ==
    /\ Ekranda(TOP) \ oxirgiSkan.yiqildi = Top(oxirgiSkan)
    /\ \A c, d \in PanelCoinlari \ oxirgiSkan.yiqildi :
          c # d /\ holatlar[c].orin = holatlar[d].orin => holatlar[c].orin = 0

\* "Running" on the screen is a scan that runs, or one that broke off.
YurmoqdaRost ==
    skan = YURMOQDA => tashlandi \/ \E t \in Skanerlar : vazifa[t].pc \in {"skan", "yozdi"}

\* A press makes one scan at most, whatever breaks off.
SorovBirMarta == sorovSkan <= bosildi

\* The lists, the status line and the scans made on request are those of real scans.
RoyxatButun == PTypeOK /\ RoyxatBirSkandan /\ YurmoqdaRost /\ SorovBirMarta

\* The admin's request is always taken.
SorovOlingan == sorov ~> ~sorov

\* After two scans at once, a broken one or a restart the stream may follow a
\* list that the screen does not show: it comes back to it.
OqimTiklanadi == (oqim # Top(oxirgiSkan)) ~> (oqim = Top(oxirgiSkan))

\* A live row that nothing feeds any more (its coin left the stream while the row
\* was being written) does not stay on the screen for good.
MuzlaganOchadi ==
    \A c \in PanelCoinlari : (c \in kbozor \ oqim) ~> (c \notin kbozor \ oqim)

\* Whatever two scans, failures and restarts did to it, the screen comes right:
\* its stream and its live rows are those of its list.
EkranTiklanadi == OqimTiklanadi /\ MuzlaganOchadi

=============================================================================
