-------------------------- MODULE SignalKuzatuvchi --------------------------
(***************************************************************************)
(* The live watcher (core/services/signal_kuzatuvchi.py) and the row of    *)
(* `signals` it moves, with everyone else who writes that row: the admin   *)
(* of the bot, who cancels it, and the site, which deletes it.             *)
(*                                                                         *)
(* One signal is modelled.  A run of the watcher reads every open row in   *)
(* one session and then serves them one after the other, so for one signal *)
(* the others are only a delay between reading the row (Oqish) and         *)
(* fetching its candles (Yuklash).  Each `async with session` block is one *)
(* transaction and one action.  The loop over the candles has no await:    *)
(* while pc = "sham" nobody else moves.                                    *)
(***************************************************************************)
EXTENDS ShamQoidalari, Sequences

CONSTANTS
    Oyna,           \* ENG_KOP_SHAM: how many of the newest candles a run reads
    Tanaffus,       \* how many candles may open between two completed runs
    MaxSham         \* bound: how many candles the market shows

ASSUME KuzatuvFarazi ==
    /\ Oyna \in Nat \ {0}
    /\ Tanaffus \in Nat \ {0}
    /\ MaxSham \in Nat

VARIABLES
    bozor,      \* the candles since the signal was created; the last is not closed yet
    yozuv,      \* the signal's row in the database
    hodisalar,  \* the kinds of its rows in signal_events
    pc,         \* where the watcher is
    nusxa,      \* the row as the run read it
    holat,      \* `_Holat`, the run's working state
    kursor,     \* the candle the run is at
    korilgan    \* the newest candle the last completed run has seen

vars == <<bozor, yozuv, hodisalar, pc, nusxa, holat, kursor, korilgan>>
yurish == <<pc, nusxa, holat, kursor, korilgan>>

(* created_at: just before the first candle of bozor opens. *)
YARATILGAN == 1

OCHIRILGAN == "ochirilgan"

Yozuv == [status : Holatlar \cup {OCHIRILGAN}, activated_at : Int,
          tp1_reached : BOOLEAN, reached_tps : 0..TPSoni, closed_at : Int,
          close_price : Narx, natija : {"yoq", "toliq", "qismli"}]

BoshYozuv == [status |-> "pending", activated_at |-> YOQ,
              tp1_reached |-> FALSE, reached_tps |-> 0, closed_at |-> YOQ,
              close_price |-> YOQ, natija |-> "yoq"]

BoshHolat == [status |-> "pending", stop |-> STOP, olingan_tp |-> 0,
              narx |-> YOQ, vaqt |-> 0]

Init ==
    /\ bozor = <<>>
    /\ yozuv = BoshYozuv
    /\ hodisalar = {}
    /\ pc = "kutish"
    /\ nusxa = BoshYozuv
    /\ holat = BoshHolat
    /\ kursor = 0
    /\ korilgan = 0

----------------------------------------------------------------------------
(* The market. *)

YangiSham(s) ==
    /\ pc # "sham"
    /\ Len(bozor) < MaxSham
    /\ Len(bozor) - korilgan < Tanaffus
    /\ bozor' = Append(bozor, s)
    /\ UNCHANGED <<yozuv, hodisalar, yurish>>

(* The newest candle is served while it still forms: its low only falls and *)
(* its high only rises.                                                     *)
ShamOsadi(s) ==
    /\ pc # "sham"
    /\ bozor # <<>>
    /\ s.low <= bozor[Len(bozor)].low
    /\ s.high >= bozor[Len(bozor)].high
    /\ s # bozor[Len(bozor)]
    /\ bozor' = [bozor EXCEPT ![Len(bozor)] = s]
    /\ UNCHANGED <<yozuv, hodisalar, yurish>>

----------------------------------------------------------------------------
(* Mutant: TP1 is only remembered as a status, as before the column existed. *)
ApplyEventTp1siz(y, st, price, at, foizli) ==
    [y EXCEPT !.status = st,
              !.tp1_reached = (st = "tp1_hit"),
              !.reached_tps = IF st = "tp1_hit" THEN 1 ELSE @,
              !.activated_at = IF st = "active" /\ @ = YOQ THEN at ELSE @,
              !.closed_at = IF st \in YopiqHolatlar THEN at ELSE @,
              !.close_price = IF st \in YopiqHolatlar THEN price ELSE @,
              !.natija = IF st \in YopiqHolatlar THEN "toliq" ELSE @]

(* SignalRepository.apply_event on the row y.  foizli: was tp1_close_pct    *)
(* passed.  natija says which formula blended_result_pct was given.         *)
ApplyEvent(y, st, price, at, foizli) ==
    LET tp1 == y.tp1_reached \/ st = "tp1_hit"
        yopiq == st \in YopiqHolatlar
    IN  [status |-> st,
         tp1_reached |-> tp1,
         reached_tps |-> IF st = "tp1_hit" /\ y.reached_tps = 0
                         THEN 1 ELSE y.reached_tps,
         activated_at |-> IF st = "active" /\ y.activated_at = YOQ
                          THEN at ELSE y.activated_at,
         closed_at |-> IF yopiq THEN at ELSE y.closed_at,
         close_price |-> IF yopiq THEN price ELSE y.close_price,
         natija |-> IF ~yopiq THEN y.natija
                    ELSE IF tp1 /\ foizli THEN "qismli" ELSE "toliq"]

(* bot/handlers/signals.py `_cancel_in_database`: no tp1_close_pct.  At any *)
(* time, also while a run holds the row it has read.                        *)
AdminBekor ==
    /\ pc # "sham"
    /\ yozuv.status \in OchiqHolatlar
    /\ yozuv' = ApplyEvent(yozuv, "cancelled", ENTRY, Len(bozor), FALSE)
    /\ hodisalar' = hodisalar \cup {"cancelled"}
    /\ UNCHANGED <<bozor, yurish>>

(* web/src/lib/queries.ts `signalOchir`: the row and its events are gone.  *)
SignalOchir ==
    /\ pc # "sham"
    /\ yozuv.status # OCHIRILGAN
    /\ yozuv' = [BoshYozuv EXCEPT !.status = OCHIRILGAN]
    /\ hodisalar' = {}
    /\ UNCHANGED <<bozor, yurish>>

----------------------------------------------------------------------------
(* One run of the watcher. *)

Bosh(n) == IF n.activated_at # YOQ THEN n.activated_at ELSE YARATILGAN

(* Mutant: the column that says "the trade is open" is taken for the one    *)
(* that says "TP1 was taken".                                               *)
FaolStop(n) == IF n.activated_at # YOQ THEN ENTRY ELSE STOP

BoshlangichStop(n) == IF n.tp1_reached THEN ENTRY ELSE STOP

(* Mutant: the run goes on after the newest candle the last one has seen,   *)
(* although that candle was not closed yet.                                 *)
KeyingiSham == IF korilgan + 1 > Bosh(nusxa) THEN korilgan + 1 ELSE Bosh(nusxa)

(* The oldest candle the run reads: in the window and not before the start. *)
BirinchiSham ==
    IF Len(bozor) - Oyna + 1 > Bosh(nusxa)
    THEN Len(bozor) - Oyna + 1 ELSE Bosh(nusxa)

Tinch ==
    /\ pc' = "kutish"
    /\ nusxa' = BoshYozuv
    /\ holat' = BoshHolat
    /\ kursor' = 0

(* Mutant: a trade that took TP1 is no longer read as open.                 *)
Tp1SizOqish ==
    /\ pc = "kutish"
    /\ yozuv.status \in OchiqHolatlar \ {"tp1_hit"}
    /\ pc' = "oqildi"
    /\ nusxa' = yozuv
    /\ UNCHANGED <<bozor, yozuv, hodisalar, holat, kursor, korilgan>>

(* `yur` reads the open signals; the session is closed again at once.      *)
Oqish ==
    /\ pc = "kutish"
    /\ yozuv.status \in OchiqHolatlar
    /\ pc' = "oqildi"
    /\ nusxa' = yozuv
    /\ UNCHANGED <<bozor, yozuv, hodisalar, holat, kursor, korilgan>>

(* `_shamlar` has answered and `_bitta_signal` builds its `_Holat`.         *)
Yuklash ==
    /\ pc = "oqildi"
    /\ BirinchiSham <= Len(bozor)
    /\ pc' = "sham"
    /\ holat' = [BoshHolat EXCEPT
                    !.status = nusxa.status,
                    !.stop = BoshlangichStop(nusxa),
                    !.olingan_tp = nusxa.reached_tps]
    /\ kursor' = BirinchiSham
    /\ UNCHANGED <<bozor, yozuv, hodisalar, nusxa, korilgan>>

(* No candle since the start: nothing to do. *)
ShamYoq ==
    /\ pc = "oqildi"
    /\ BirinchiSham > Len(bozor)
    /\ Tinch
    /\ UNCHANGED <<bozor, yozuv, hodisalar, korilgan>>

(* The end of one candle with the working state h: the next candle, or the *)
(* end of the loop, where an unchanged status is not written.              *)
Otish(h) ==
    LET oxiri == h.status \in YopiqHolatlar \/ kursor = Len(bozor)
    IN  /\ \/ /\ ~oxiri
              /\ holat' = h
              /\ kursor' = kursor + 1
              /\ UNCHANGED <<pc, nusxa, korilgan>>
           \/ /\ oxiri
              /\ h.status # nusxa.status
              /\ holat' = h
              /\ pc' = "yozish"
              /\ UNCHANGED <<nusxa, kursor, korilgan>>
           \/ /\ oxiri
              /\ h.status = nusxa.status
              /\ korilgan' = kursor
              /\ Tinch
        /\ UNCHANGED <<bozor, yozuv, hodisalar>>

Yosh == kursor - Bosh(nusxa)

ShamKutadi ==
    /\ pc = "sham"
    /\ Kutadi(holat, bozor[kursor])
    /\ Otish(KutganHolat(holat, kursor))

ShamBekor ==
    /\ pc = "sham"
    /\ Kirilmasdan(holat, bozor[kursor])
    /\ Otish(BekorHolat(holat, kursor))

ShamStop ==
    /\ pc = "sham"
    /\ StopUrildi(holat, bozor[kursor])
    /\ Otish(StopHolat(holat, kursor))

ShamHammaTp ==
    /\ pc = "sham"
    /\ HammaTp(holat, bozor[kursor])
    /\ Otish(TpHolat(holat, bozor[kursor], kursor))

ShamMuddat ==
    /\ pc = "sham"
    /\ MuddatTugadi(holat, bozor[kursor], Yosh)
    /\ Otish(MuddatHolat(holat, bozor[kursor], kursor))

ShamDavom ==
    /\ pc = "sham"
    /\ Davom(holat, bozor[kursor], Yosh)
    /\ Otish(DavomHolat(holat, bozor[kursor], kursor))

ShamQadami ==
    \/ ShamKutadi \/ ShamBekor \/ ShamStop
    \/ ShamHammaTp \/ ShamMuddat \/ ShamDavom

(* `_yoz`: a session of its own, by id, whatever the row has become since   *)
(* the snapshot.  A row that is gone is left alone.                         *)
Yozish ==
    /\ pc = "yozish"
    /\ yozuv.status # OCHIRILGAN
    /\ yozuv' = ApplyEvent(yozuv, holat.status,
                           IF holat.narx = YOQ THEN ENTRY ELSE holat.narx,
                           holat.vaqt, TRUE)
    /\ hodisalar' = hodisalar \cup {holat.status}
    /\ korilgan' = kursor
    /\ Tinch
    /\ UNCHANGED bozor

YozuvYoq ==
    /\ pc = "yozish"
    /\ yozuv.status = OCHIRILGAN
    /\ Tinch
    /\ UNCHANGED <<bozor, yozuv, hodisalar, korilgan>>

(* The fetch or the write failed (`yur` catches it and goes on), or the bot *)
(* was restarted: the run's working state is lost, the row is not.          *)
Uzilish ==
    /\ pc \in {"oqildi", "yozish"}
    /\ Tinch
    /\ UNCHANGED <<bozor, yozuv, hodisalar, korilgan>>

Next ==
    \/ \E s \in Sham : YangiSham(s)
    \/ \E s \in Sham : ShamOsadi(s)
    \/ AdminBekor
    \/ SignalOchir
    \/ Oqish
    \/ Yuklash
    \/ ShamYoq
    \/ ShamQadami
    \/ Yozish
    \/ YozuvYoq
    \/ Uzilish

Spec == Init /\ [][Next]_vars

(* Time passes, so candles go on opening (SF: not while a run is in its     *)
(* loop).  The scheduler repeats the run for ever and survives errors: a run *)
(* is started again and again (WF), and not every single one is cut off     *)
(* before its candles and its write (SF).  Nobody owes a cancellation.      *)
Adolat ==
    /\ SF_vars(\E s \in Sham : YangiSham(s))
    /\ WF_vars(Oqish)
    /\ WF_vars(ShamQadami)
    /\ SF_vars(Yuklash)
    /\ SF_vars(Yozish)

FairSpec == Spec /\ Adolat

----------------------------------------------------------------------------
(* Properties. *)

TypeOK ==
    /\ bozor \in Seq(Sham)
    /\ yozuv \in Yozuv
    /\ hodisalar \subseteq Holatlar
    /\ pc \in {"kutish", "oqildi", "sham", "yozish"}
    /\ nusxa \in Yozuv
    /\ holat \in Holat
    /\ kursor \in Nat
    /\ korilgan \in Nat

(* Candle f fills the limit; target k is reached at or after a fill. *)
Kirdi(f) == f \in 1..Len(bozor) /\ LimitgaTegdi(bozor[f])

TpKorildi(k) ==
    \E j \in 1..Len(bozor) :
        /\ bozor[j].high >= k
        /\ \E f \in 1..j : Kirdi(f)

(* Whatever the row says happened to the trade did happen on the market:    *)
(* it is open, stopped, timed out or won only after its limit was filled,   *)
(* a target counts only if the price reached it after the fill, a stop only *)
(* if the price was there, and a stop at the entry (breakeven) only after   *)
(* TP1.  It must survive replays, interrupted runs and stale snapshots.     *)
NatijaBozordan ==
    /\ yozuv.status \in {"active", "tp1_hit", "tp2_hit", "stopped", "timed_out"}
            => \E f \in 1..Len(bozor) : Kirdi(f)
    /\ yozuv.tp1_reached => TpKorildi(1)
    /\ yozuv.status = "tp2_hit" => TpKorildi(TPSoni)
    /\ yozuv.status = "stopped" =>
            \/ yozuv.close_price = STOP /\ \E j \in 1..Len(bozor) : bozor[j].low = STOP
            \/ yozuv.close_price = ENTRY /\ TpKorildi(1)

(* A limit that was filled is never cancelled as "reached TP1 unfilled":    *)
(* no candle before the cancelling one touches the entry.  It needs the     *)
(* window to reach back to the last completed run (Tanaffus < Oyna).        *)
BekorHaqiqiy ==
    (yozuv.status = "cancelled" /\ yozuv.close_price = TpNarxi(1))
        => \A i \in 1..(yozuv.closed_at - 1) : ~Kirdi(i)

(* A completed run never leaves a trade open past its time limit. *)
MuddatOtmagan ==
    yozuv.status \in {"active", "tp1_hit"}
        => korilgan - Bosh(yozuv)
              < IF yozuv.tp1_reached THEN QoldiqMuddat ELSE UmumiyMuddat

(* The statistics tell "stopped" from "TP1, then stopped" by the events     *)
(* (closed_since), the result by the column (apply_event): they agree.      *)
Tp1IkkiManba == ("tp1_hit" \in hodisalar) <=> yozuv.tp1_reached

(* What the books say of a trade agrees with itself and with the clock.     *)
SavdoIzchil == MuddatOtmagan /\ Tp1IkkiManba

(* The row behaves as SignalHayoti promises, the run being the one that     *)
(* holds a snapshot: what `_yoz` writes from it over a cancellation that    *)
(* came meanwhile is the only way out of a closed status.                   *)
Hayot == INSTANCE SignalHayoti WITH
            status <- yozuv.status, tp1 <- yozuv.tp1_reached,
            narx <- yozuv.close_price,
            oqilgan <- IF pc = "kutish" THEN "yoq" ELSE nusxa.status,
            Narxlar <- STOP..BOZOR, NarxYoq <- YOQ

HayotSpec == Hayot!Spec

(* What the bot tells the admin (bot/keyboards.py:283): a cancellation is   *)
(* not undone.                                                              *)
BekorQaytmaydi ==
    [][yozuv.status = "cancelled" => yozuv'.status \in {"cancelled", OCHIRILGAN}]_vars

(* After TP1 the stop is at the entry; it is hit by a candle that comes at  *)
(* or after the one that reached TP1, as in the backtest.                   *)
BreakevenHaqiqiy ==
    (yozuv.status = "stopped" /\ yozuv.close_price = ENTRY)
        => \E j \in 1..Len(bozor) :
              /\ bozor[j].high >= 1
              /\ \E f \in 1..j : Kirdi(f)
              /\ \E k \in j..Len(bozor) : Kirdi(k)

(* An open trade is eventually closed (or its row deleted).  The bound on   *)
(* the market must leave room for the time limit.                           *)
Ochiq == yozuv.status \in {"active", "tp1_hit"}
MuddatSigadi == Bosh(yozuv) + UmumiyMuddat <= MaxSham /\ Bosh(yozuv) + QoldiqMuddat <= MaxSham
SavdoYopiladi == (Ochiq /\ MuddatSigadi) ~> ~Ochiq
=============================================================================
