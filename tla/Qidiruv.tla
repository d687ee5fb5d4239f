-------------------------------- MODULE Qidiruv --------------------------------
(* The user's search of a coin (web/src/lib/queries.ts, the page qidiruv) beside *)
(* the watch panel: a coin of the Top list is shown and counted against the     *)
(* day's limit of the user's tier.  The count is a row per user and day; one    *)
(* user, the row of the present day.  core/watch_panel/search_limiter.py says   *)
(* the same and has no caller.                                                  *)
EXTENDS KuzatuvPaneli

CONSTANTS
    Tariflar,   \* lite, pro, premium and none
    Chegara,    \* kuzatuv.qidiruv_*: searches a day of each
    MaxKun      \* bound: days

ASSUME QidiruvFarazi == Chegara \in [Tariflar -> Nat] /\ MaxKun \in Nat

VARIABLES
    kun,      \* today, UTC
    soni,     \* kunlik_qidiruv.soni of today's row, 0 when there is none
    tarif,    \* the user's tier now
    berildi,  \* history: coins shown today
    eng       \* history: the highest limit held today

qvars == <<kun, soni, tarif, berildi, eng>>

InitQ == /\ PInit /\ kun = 0 /\ soni = 0 /\ berildi = 0
         /\ tarif \in Tariflar /\ eng = Chegara[tarif]

mumkin == soni < Chegara[tarif]

\* Mutant: a refused search is counted too.
IshlatHarDoim(s) == s + 1

\* qidiruvIshlat: what the count becomes; at the limit it stays.
qidiruvIshlat(s) == IF mumkin THEN s + 1 ELSE s

\* The page: only a coin found in the Top list is counted, and shown if allowed.
\* The whole function runs without an await in the site's one process.
Qidir ==
    /\ \E c \in PanelCoinlari : holatlar[c].royxat = TOP
    /\ soni' = qidiruvIshlat(soni)
    /\ berildi' = IF mumkin THEN berildi + 1 ELSE berildi
    /\ UNCHANGED <<kun, tarif, eng>>

\* Subscriptions come and end at any time of the day.
TarifOzgaradi ==
    /\ \E t \in Tariflar : tarif' = t /\ eng' = IF Chegara[t] > eng THEN Chegara[t] ELSE eng
    /\ UNCHANGED <<kun, soni, berildi>>

\* The new day has no row yet.
YangiKun ==
    /\ kun < MaxKun
    /\ kun' = kun + 1 /\ soni' = 0 /\ berildi' = 0 /\ eng' = Chegara[tarif]
    /\ UNCHANGED tarif

QNext ==
    \/ PNext /\ UNCHANGED qvars
    \/ (Qidir \/ TarifOzgaradi \/ YangiKun) /\ UNCHANGED pvars

QSpec == InitQ /\ [][QNext]_<<pvars, qvars>>

\* Whatever the tiers of the day were, no more is shown than the highest of them
\* allows, and only what was shown is counted: a refusal is not charged, and the
\* tier that comes after it finds what it paid for.
BugunChegarada == berildi <= eng /\ soni = berildi
=============================================================================
