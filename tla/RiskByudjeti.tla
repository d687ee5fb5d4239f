------------------------------ MODULE RiskByudjeti ------------------------------
(* The daily risk budget (core/position_sizing/budget.py, sizer.py) and those   *)
(* who draw on it: the account that replays the trades                          *)
(* (scripts/zanjir_hisob.py), a strategy with a share of the budget, and the    *)
(* bot, which shows every subscriber a size for every signal.                   *)
(*                                                                              *)
(* Capital is in whole dollars and risk in cents, so that a size times a stop   *)
(* in percent is exact; a quotient is rounded down.                             *)
EXTENDS Integers, Sequences

CONSTANTS
    Balanslar,      \* the balances an account may start with
    Pogonalar,      \* risk_tiers: [max, pct] in growing order, max = 0 for none
    Usullar,        \* the ways to share the budget out
    ULUSH_PCT,      \* sequential_decay_fraction, in percent
    JOYLAR,         \* equal_split_expected_slots
    ENG_KAM,        \* min_allocation_usd, in cents
    MAX_HAJM_PCT,   \* max_position_pct_of_balance
    STRATEGIYA_PCT, \* the strategy's share of the budget
    Stoplar,        \* stop distances, in percent
    Foydalar,       \* what a trade may win, in percent
    Miqdorlar,      \* amounts the strategy may ask for, and give back, in cents
    MaxSavdo, MaxKun, MaxOlish, MaxTavsiya      \* bounds

ASSUME RiskFarazi ==
    /\ Balanslar \subseteq Nat
    /\ Len(Pogonalar) > 0
    /\ Pogonalar \in Seq([max : Nat, pct : 0..100])
    /\ Usullar \subseteq {"sequential_decay", "equal_split"}
    /\ ULUSH_PCT \in 0..100 /\ JOYLAR \in Nat /\ ENG_KAM \in Nat
    /\ MAX_HAJM_PCT \in 0..100 /\ STRATEGIYA_PCT \in 1..100
    /\ Stoplar \subseteq 1..100 /\ Foydalar \subseteq Nat /\ Miqdorlar \subseteq Nat \ {0}

VARIABLES
    usul,           \* allocation_method
    kun,            \* the day
    balans,         \* what the account is worth, open trades aside
    byudjet,        \* DailyRiskBudget: [balance, limit, allocated, allocations, committed]
    strategiya,     \* StrategyBudget.allocated
    ochiq,          \* the open trades: [id, hajm, stop]
    savdolar,       \* trades opened so far
    kunXavfi,       \* what the trades opened on this budget lose if all are stopped
    kirgan          \* the signals a subscriber entered today, and what they would lose

rvars == <<usul, kun, balans, byudjet, strategiya, ochiq, savdolar, kunXavfi, kirgan>>

Kichigi(a, b) == IF a <= b THEN a ELSE b
Kattasi(a, b) == IF a >= b THEN a ELSE b

------------------------------------------------------------------------------
(* budget.py                                                                    *)

\* The first tier the balance fits in, or the last one.
resolve_daily_risk_pct(b) ==
    LET mos == {i \in DOMAIN Pogonalar : Pogonalar[i].max = 0 \/ b <= Pogonalar[i].max}
    IN  IF mos = {} THEN Pogonalar[Len(Pogonalar)].pct
        ELSE Pogonalar[CHOOSE i \in mos : \A j \in mos : i <= j].pct

budget_for(b) ==
    [balance |-> b, limit |-> b * resolve_daily_risk_pct(b),
     allocated |-> 0, allocations |-> <<>>, committed |-> 0]

remaining_usd(d) == Kattasi(0, d.limit - d.allocated)

available_capital(d) == Kattasi(0, d.balance - d.committed)

\* One share of n: a fraction of it, or an equal part for each slot still free.
BirUlush(n, d) ==
    IF usul = "sequential_decay" THEN (n * ULUSH_PCT) \div 100
    ELSE n \div Kattasi(1, JOYLAR - Len(d.allocations))

next_allocation(d) ==
    LET m == BirUlush(remaining_usd(d), d) IN IF m >= ENG_KAM THEN m ELSE 0

next_capital_share(d) == BirUlush(available_capital(d), d)

Berildi(d, m) == Kichigi(m, remaining_usd(d))

allocate(d, m) ==
    IF Berildi(d, m) <= 0 THEN d
    ELSE [d EXCEPT !.allocated = @ + Berildi(d, m),
                   !.allocations = Append(@, Berildi(d, m))]

\* The list without its first m.
Olib(s, m) ==
    LET i == CHOOSE k \in DOMAIN s : s[k] = m /\ \A j \in 1..(k - 1) : s[j] # m
    IN  [k \in 1..(Len(s) - 1) |-> IF k < i THEN s[k] ELSE s[k + 1]]

release(d, m) ==
    [d EXCEPT !.allocated = Kattasi(0, @ - m),
              !.allocations = IF \E k \in DOMAIN @ : @[k] = m THEN Olib(@, m) ELSE @]

commit_capital(d, n) ==
    [d EXCEPT !.committed = @ + Kichigi(n, available_capital(d))]

release_capital(d, n) == [d EXCEPT !.committed = Kattasi(0, @ - n)]

strategy_remaining(d) ==
    Kichigi(Kattasi(0, (d.limit * STRATEGIYA_PCT) \div 100 - strategiya), remaining_usd(d))

------------------------------------------------------------------------------
(* sizer.py: the size for a stop so far away, 0 when there is none.             *)

suggest(d, stop) ==
    Kichigi(next_allocation(d) \div stop,
            Kichigi((d.balance * MAX_HAJM_PCT) \div 100,
                    Kichigi(available_capital(d), next_capital_share(d))))

\* Mutant: the planned risk is taken though the size was cut.
RejadagiYoziladi(d, stop) ==
    allocate(commit_capital(d, suggest(d, stop)), next_allocation(d))

\* What is written with commit=True: the capital, and the risk it really runs.
Yozilgan(d, stop) ==
    allocate(commit_capital(d, suggest(d, stop)),
             Kichigi(next_allocation(d), suggest(d, stop) * stop))

------------------------------------------------------------------------------
RInit ==
    /\ usul \in Usullar
    /\ kun = 0
    /\ balans \in Balanslar
    /\ byudjet = budget_for(balans)
    /\ strategiya = 0
    /\ ochiq = {}
    /\ savdolar = 0
    /\ kunXavfi = 0
    /\ kirgan = [soni |-> 0, xavf |-> 0]

\* Mutant: the new day's budget forgets the capital that is bound.
ToliqYangilanadi(yangiKun) == IF yangiKun THEN budget_for(balans) ELSE byudjet

\* The budget a trade that opens now is measured on: a new one on a new day, with
\* the capital still bound.
Byudjeti(yangiKun) ==
    IF yangiKun THEN [budget_for(balans) EXCEPT !.committed = byudjet.committed] ELSE byudjet

SavdoOchildi(yangiKun, stop) ==
    LET d == Byudjeti(yangiKun)
        hajm == suggest(d, stop)
    IN  /\ savdolar < MaxSavdo
        /\ yangiKun => kun < MaxKun /\ balans >= 0
        /\ kun' = IF yangiKun THEN kun + 1 ELSE kun
        /\ byudjet' = IF hajm > 0 THEN Yozilgan(d, stop) ELSE d
        /\ ochiq' = ochiq \cup {p \in {[id |-> savdolar + 1, hajm |-> hajm, stop |-> stop]} : hajm > 0}
        /\ savdolar' = savdolar + 1
        /\ kunXavfi' = (IF yangiKun THEN 0 ELSE kunXavfi) + Kattasi(0, hajm) * stop
        /\ strategiya' = IF yangiKun THEN 0 ELSE strategiya
        /\ UNCHANGED <<usul, balans, kirgan>>

\* A trade closes by its stop or by a target; the risk it was granted stays used
\* until the day is over.
SavdoYopildi(p, natija) ==
    /\ balans' = balans + (p.hajm * natija) \div 100
    /\ byudjet' = release_capital(byudjet, p.hajm)
    /\ ochiq' = ochiq \ {p}
    /\ UNCHANGED <<usul, kun, strategiya, savdolar, kunXavfi, kirgan>>

\* StrategyBudget.allocate
StrategiyaOldi(m) ==
    LET beriladigan == Kichigi(m, strategy_remaining(byudjet)) IN
    /\ Len(byudjet.allocations) < MaxOlish
    /\ beriladigan > 0
    /\ byudjet' = allocate(byudjet, beriladigan)
    /\ strategiya' = strategiya + Berildi(byudjet, beriladigan)
    /\ UNCHANGED <<usul, kun, balans, ochiq, savdolar, kunXavfi, kirgan>>

\* StrategyBudget.release, of no more than it holds: the code does not look.
StrategiyaQaytardi(m) ==
    /\ m <= strategiya
    /\ byudjet' = release(byudjet, m)
    /\ strategiya' = Kattasi(0, strategiya - m)
    /\ UNCHANGED <<usul, kun, balans, ochiq, savdolar, kunXavfi, kirgan>>

\* bot/services/broadcast.py: the size a subscriber is shown, measured on a new
\* budget for every signal, and entered; nothing is written with commit=True.
ObunachiKirdi(stop) ==
    /\ kirgan.soni < MaxTavsiya
    /\ kirgan' = [soni |-> kirgan.soni + 1,
                  xavf |-> kirgan.xavf + suggest(budget_for(balans), stop) * stop]
    /\ UNCHANGED <<usul, kun, balans, byudjet, strategiya, ochiq, savdolar, kunXavfi>>

HisobNext ==
    \/ \E yangiKun \in BOOLEAN, stop \in Stoplar : SavdoOchildi(yangiKun, stop)
    \/ \E p \in ochiq : \E natija \in Foydalar \cup {-p.stop} : SavdoYopildi(p, natija)
    \/ \E m \in Miqdorlar : StrategiyaOldi(m)
    \/ \E m \in Miqdorlar : StrategiyaQaytardi(m)

RNext == HisobNext \/ \E stop \in Stoplar : ObunachiKirdi(stop)

RSpec == RInit /\ [][RNext]_rvars

------------------------------------------------------------------------------
(* What must hold of the budget.                                                *)

RTypeOK ==
    /\ usul \in Usullar
    /\ balans \in Int /\ strategiya \in Nat /\ kunXavfi \in Nat
    /\ byudjet \in [balance : Nat, limit : Nat, allocated : Nat, allocations : Seq(Nat),
                    committed : Nat]
    /\ ochiq \subseteq [id : 1..savdolar, hajm : Nat \ {0}, stop : Stoplar]

\* The ledger agrees with those it lends to: what is allocated is what the trades
\* opened on this budget would lose and what the strategy holds, no less and no
\* more (budget.py against StrategyBudget and sizer.py).
HisobTeng == byudjet.allocated = kunXavfi + strategiya

\* If every trade opened on a day's budget is stopped and the strategy loses all it
\* was given, the loss is within the day's limit (budget.py:15-17).
KunlikLimit == kunXavfi + strategiya <= byudjet.limit

\* The capital in the trades S, whose ids are some of 1..n.
Hajmi(S, k) == IF \E p \in S : p.id = k THEN (CHOOSE p \in S : p.id = k).hajm ELSE 0
Kapital(S, n) ==
    LET yig[k \in 0..n] == IF k = 0 THEN 0 ELSE yig[k - 1] + Hajmi(S, k) IN yig[n]

\* The capital the budget holds bound is that of the open trades, over any number
\* of days and budgets (zanjir_hisob.py:157).
KapitalOchiqlardan == byudjet.committed = Kapital(ochiq, savdolar)

\* No trade is opened on borrowed money: whatever opens and closes, the capital bound
\* is that of the open trades, and a trade that opens fits with them into the balance
\* the budget was made for.
QarzsizOchiladi ==
    [][KapitalOchiqlardan' /\ \A p \in ochiq' \ ochiq :
          Kapital(ochiq', savdolar') <= byudjet'.balance]_rvars

\* A strategy never goes beyond its share, even when the main one has used little.
UlushChegarasi == 100 * strategiya <= byudjet.limit * STRATEGIYA_PCT

\* What is at stake is in the ledger and within the limits.
ByudjetTogri == RTypeOK /\ KunlikLimit /\ HisobTeng /\ UlushChegarasi

\* The budget is said to be drawn on when a subscriber enters a signal
\* (bot/services/broadcast.py): the signals entered on one day at the size shown lose
\* no more than the day's limit.
KirganlarLimitda == kirgan.xavf <= budget_for(balans).limit
=============================================================================
