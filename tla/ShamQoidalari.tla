--------------------------- MODULE ShamQoidalari ---------------------------
(***************************************************************************)
(* The rules by which one candle moves one signal forward: `_sham_qadami`  *)
(* of core/services/signal_kuzatuvchi.py.                                  *)
(*                                                                         *)
(* Prices are abstracted to the levels the code compares.  A candle's low  *)
(* is at the stop, at the entry or above the entry (stop < entry, which    *)
(* SignalLevels enforces); its high is the number of targets it reaches    *)
(* (the targets are ascending).  Time is counted in 15-minute candles.     *)
(***************************************************************************)
EXTENDS Integers

CONSTANTS
    TPSoni,         \* len(tplar): how many targets the signal has, 1..3 in the code
    UmumiyMuddat,   \* zanjir.chiqish.umumiy_muddat_kun, in candles
    QoldiqMuddat    \* zanjir.chiqish.qoldiq_muddat_kun, in candles

ASSUME QoidaFarazi ==
    /\ TPSoni \in Nat \ {0}
    /\ UmumiyMuddat \in Nat \ {0}
    /\ QoldiqMuddat \in Nat \ {0}

(* Price levels.  TpNarxi(i) is the i-th target; BOZOR stands for a close   *)
(* at the market (any price), YOQ for "no price yet" (0.0 in the code).     *)
YOQ == -1
STOP == 0
ENTRY == 1
TpNarxi(i) == i + 1
BOZOR == TPSoni + 2
Narx == YOQ..BOZOR

Sham == [low : STOP..(ENTRY + 1), high : 0..TPSoni]

OchiqHolatlar == {"pending", "active", "tp1_hit"}
YopiqHolatlar == {"tp2_hit", "stopped", "cancelled", "timed_out"}
Holatlar == OchiqHolatlar \cup YopiqHolatlar

(* `_Holat`: the working state of one signal during one run. *)
Holat == [status : Holatlar, stop : {STOP, ENTRY}, olingan_tp : 0..TPSoni,
          narx : Narx, vaqt : Nat]

----------------------------------------------------------------------------
(* What the candle s does to the working state h.  The predicates are      *)
(* disjoint and cover every case, in the order in which the code tests.    *)

LimitgaTegdi(s) == s.low <= ENTRY

(* The limit is still waiting and the candle changes nothing. *)
Kutadi(h, s) == h.status = "pending" /\ ~LimitgaTegdi(s) /\ s.high = 0

(* The price reached the first target without ever filling the limit. *)
Kirilmasdan(h, s) == h.status = "pending" /\ ~LimitgaTegdi(s) /\ s.high >= 1

(* The trade is open: it was before, or this candle fills the limit. *)
SavdoOchiq(h, s) == h.status = "pending" => LimitgaTegdi(s)

(* Stop first: within one candle the order of stop and target is unknown.  *)
StopUrildi(h, s) == SavdoOchiq(h, s) /\ s.low <= h.stop

OlinganTp(h, s) == IF s.high > h.olingan_tp THEN s.high ELSE h.olingan_tp

HammaTp(h, s) ==
    /\ SavdoOchiq(h, s)
    /\ ~StopUrildi(h, s)
    /\ OlinganTp(h, s) >= TPSoni

(* Mutant: the two limits swapped. *)
AlmashganMuddat(olingan) == IF olingan > 0 THEN UmumiyMuddat ELSE QoldiqMuddat

Muddat(olingan) == IF olingan > 0 THEN QoldiqMuddat ELSE UmumiyMuddat

MuddatTugadi(h, s, yosh) ==
    /\ SavdoOchiq(h, s)
    /\ ~StopUrildi(h, s)
    /\ ~HammaTp(h, s)
    /\ yosh >= Muddat(OlinganTp(h, s))

Davom(h, s, yosh) ==
    /\ SavdoOchiq(h, s)
    /\ ~StopUrildi(h, s)
    /\ ~HammaTp(h, s)
    /\ yosh < Muddat(OlinganTp(h, s))

----------------------------------------------------------------------------
(* The working state after the candle that opened at time t. *)

KirishNarxi(h) == IF h.status = "pending" THEN ENTRY ELSE h.narx

(* After the first target the stop moves to the entry (tp1_breakeven). *)
YangiStop(h, s) ==
    IF h.olingan_tp = 0 /\ s.high >= 1 THEN ENTRY ELSE h.stop

KutganHolat(h, t) == [h EXCEPT !.vaqt = t]

BekorHolat(h, t) ==
    [h EXCEPT !.status = "cancelled", !.narx = TpNarxi(1), !.vaqt = t]

StopHolat(h, t) ==
    [h EXCEPT !.status = "stopped", !.narx = h.stop, !.vaqt = t]

TpHolat(h, s, t) ==
    [h EXCEPT !.status = "tp2_hit", !.narx = TpNarxi(TPSoni), !.vaqt = t,
              !.stop = YangiStop(h, s), !.olingan_tp = OlinganTp(h, s)]

MuddatHolat(h, s, t) ==
    [h EXCEPT !.status = "timed_out", !.narx = BOZOR, !.vaqt = t,
              !.stop = YangiStop(h, s), !.olingan_tp = OlinganTp(h, s)]

DavomHolat(h, s, t) ==
    [h EXCEPT !.status = IF OlinganTp(h, s) >= 1 THEN "tp1_hit"
                         ELSE IF h.status = "pending" THEN "active"
                         ELSE h.status,
              !.narx = KirishNarxi(h), !.vaqt = t,
              !.stop = YangiStop(h, s), !.olingan_tp = OlinganTp(h, s)]
=============================================================================
