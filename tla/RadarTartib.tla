----------------------------- MODULE RadarTartib -----------------------------
(* Sieve, sample, places, state and streak of a coin                          *)
(* (core/portlash_radari/tartib.py): pure, no network and no database.  A     *)
(* value that may be unknown (None) is a sequence of at most one element; a   *)
(* mean is the pair <<sum, days>> and a ratio a pair of integers.             *)
EXTENDS RadarVaqt

CONSTANTS
    MIN_TARIX_KUN,    \* tekshiruvlar.MIN_TARIX_KUN: days a mean needs
    Ch                \* the session's Chegaralar: its limits, as integers

CHEGARALAR ==
    {"min_kapitalizatsiya_usd", "min_hajm_24s_usd", "elak_hajm_x", "yangi_listing_kun", "hajm_x",
     "narx_ozgarish_pct", "funding_8s_pct", "oi_osish_pct", "long_short_nisbat", "btc_farq_pp",
     "aylanma_max_pct", "unlock_kun", "unlock_min_pct", "nomzod_min", "namuna_soni", "oi_oyna_soat"}

ASSUME ChegaraFarazi == Ch \in [CHEGARALAR -> Nat]

NOMALUM == <<>>

\* onboard, kunlar: age of the contract and of its history, in days.
yangi_listingmi(yosh, kunlar) ==
    \/ yosh # NOMALUM /\ yosh[1] < Ch.yangi_listing_kun
    \/ kunlar < MIN_TARIX_KUN

\* The volume over its mean, when the history is long enough.
hajm_nisbati(hajm24, ortacha, kunlar) ==
    IF hajm24 # NOMALUM /\ ortacha # NOMALUM /\ ortacha[1][1] > 0 /\ kunlar >= MIN_TARIX_KUN
    THEN << <<hajm24[1] * ortacha[1][2], ortacha[1][1]>> >>
    ELSE NOMALUM

Kamida(nisbat, x) == nisbat # NOMALUM /\ nisbat[1][1] >= x * nisbat[1][2]
Katta(p, q) == p[1] * q[2] > q[1] * p[2]

\* holat: what the coin is in this session.  aNomzod: was it a candidate of this
\* candle's A session ("none": there is no such session).
holat(turi, nomzod, aNomzod) ==
    IF turi # TASDIQ \/ aNomzod = "none" THEN IF nomzod THEN "nomzod" ELSE "oddiy"
    ELSE IF nomzod THEN IF aNomzod = "ha" THEN "tasdiqlangan" ELSE "nomzod"
    ELSE IF aNomzod = "ha" THEN "vaqtinchalik" ELSE "oddiy"

ketma_ket(turi, nomzod, oldingi) ==
    IF turi \notin RASMIY_TURLAR \/ ~nomzod THEN 0 ELSE oldingi + 1

\* _kalit: more checks, then confirmed, then more fuel, then the larger ratio
\* (unknown last), then the name.
Oldin(a, b) ==
    \/ a.tasdiq > b.tasdiq
    \/ /\ a.tasdiq = b.tasdiq
       /\ \/ a.tasdiqlangan /\ ~b.tasdiqlangan
          \/ /\ a.tasdiqlangan = b.tasdiqlangan
             /\ \/ a.yoqilgi > b.yoqilgi
                \/ a.yoqilgi = b.yoqilgi /\ a.nisbat # NOMALUM /\ b.nisbat = NOMALUM
                \/ /\ a.yoqilgi = b.yoqilgi /\ a.nisbat # NOMALUM /\ b.nisbat # NOMALUM
                   /\ Katta(a.nisbat[1], b.nisbat[1])
                \/ /\ a.yoqilgi = b.yoqilgi /\ a.symbol < b.symbol
                   /\ \/ a.nisbat = NOMALUM /\ b.nisbat = NOMALUM
                      \/ /\ a.nisbat # NOMALUM /\ b.nisbat # NOMALUM
                         /\ ~Katta(b.nisbat[1], a.nisbat[1])

\* The places, from 1, of a set of TartibKirishi sorted by the key: each comes
\* after those before it.
orinlar(K) ==
    LET kirish(s) == CHOOSE k \in K : k.symbol = s
    IN [s \in {k.symbol : k \in K} |-> 1 + Cardinality({k \in K : Oldin(k, kirish(s))})]

\* Every sample of that size, in every order: the seed picks one of them.
namuna_tanla(nomzodlar, soni) ==
    LET n == IF Cardinality(nomzodlar) < soni THEN Cardinality(nomzodlar) ELSE soni
    IN {q \in [1..n -> nomzodlar] : IsInjective(q)}
=============================================================================
