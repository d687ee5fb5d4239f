------------------------------ MODULE RadarVaqt ------------------------------
(* The radar's timetable (core/portlash_radari/vaqt.py): pure arithmetic on    *)
(* instants, no network and no database.  An instant is an integer; candle C   *)
(* has two official sessions, A (kashfiyot) and B (tasdiq), each before it.    *)
EXTENDS Integers, Sequences, SequencesExt

CONSTANTS
    ShamDavri,          \* SHAM_SOAT: the distance between two candles
    KunDavri,           \* a day: whole candles
    KashfiyotOldin,     \* JadvalSozlamasi.kashfiyot_daqiqa
    TasdiqOldin,        \* JadvalSozlamasi.tasdiq_daqiqa
    KashfiyotKechikish, \* JadvalSozlamasi.kashfiyot_kechikish_daqiqa
    TasdiqKechikish     \* JadvalSozlamasi.tasdiq_kechikish_daqiqa

\* What radar_muammolari (core/config/loader.py) demands of the settings; the
\* process does not start otherwise.  The last line: an A session starts less
\* than a candle before its candle (60 minutes of 240).
ASSUME VaqtFarazi ==
    /\ ShamDavri \in Nat \ {0} /\ KunDavri \in Nat \ {0} /\ KunDavri % ShamDavri = 0
    /\ KashfiyotKechikish \in Nat /\ TasdiqKechikish \in Nat
    /\ TasdiqOldin \in Nat /\ KashfiyotOldin \in Nat
    /\ TasdiqOldin < KashfiyotOldin
    /\ TasdiqKechikish < TasdiqOldin
    /\ KashfiyotOldin - KashfiyotKechikish > TasdiqOldin
    /\ KashfiyotOldin < ShamDavri

KASHFIYOT == "kashfiyot"
TASDIQ == "tasdiq"
QOLDA == "qolda"
RASMIY_TURLAR == {KASHFIYOT, TASDIQ}

sham_boshi(t) == t - (t % ShamDavri)
keyingi_sham(t) == sham_boshi(t) + ShamDavri

\* <<day, number of the candle in the day>>
kun_va_tartib(sham) == <<sham \div KunDavri, (sham % KunDavri) \div ShamDavri + 1>>

Rejadagi(turi, sham) == [turi |-> turi, sham |-> sham]

sessiya_vaqti(r) ==
    r.sham - (IF r.turi = KASHFIYOT THEN KashfiyotOldin ELSE TasdiqOldin)

oxirgi_muddat(r) ==
    sessiya_vaqti(r) + (IF r.turi = KASHFIYOT THEN KashfiyotKechikish ELSE TasdiqKechikish)

Oynada(r, t) == sessiya_vaqti(r) <= t /\ t <= oxirgi_muddat(r)

\* The sessions around t: one candle back, three ahead.
atrofdagi(t) ==
    {Rejadagi(turi, sham_boshi(t) + ShamDavri * k) : turi \in RASMIY_TURLAR, k \in -1..2}

Vaqtligi(a, b) == sessiya_vaqti(a) < sessiya_vaqti(b)

\* Due and not late, in the order of their times.
bajariladiganlar(t) ==
    LET S == {r \in atrofdagi(t) : Oynada(r, t)}
    IN CHOOSE q \in [1..Cardinality(S) -> S] :
        IsInjective(q) /\ \A i, k \in DOMAIN q : i < k => ~Vaqtligi(q[k], q[i])

\* The next session in the future.
keyingisi(t) ==
    CHOOSE r \in atrofdagi(t) :
        /\ sessiya_vaqti(r) > t
        /\ \A q \in atrofdagi(t) : sessiya_vaqti(q) > t => sessiya_vaqti(r) <= sessiya_vaqti(q)

\* Mutant: B's streak hangs on A of the same candle.
OldingiAralash(r) == Rejadagi(KASHFIYOT, IF r.turi = TASDIQ THEN r.sham ELSE r.sham - ShamDavri)

\* The slot a streak hangs on: the same kind of session, one candle earlier.
oldingi_rasmiy_slot(r) == Rejadagi(r.turi, r.sham - ShamDavri)

\* The last daily refresh due at t; soat is its time of day.
kunlik_yangilash_vaqti(t, soat) ==
    LET bugun == t - (t % KunDavri) + soat
    IN IF bugun <= t THEN bugun ELSE bugun - KunDavri
=============================================================================
