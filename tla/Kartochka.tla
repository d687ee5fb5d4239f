------------------------------- MODULE Kartochka -------------------------------
(******************************************************************************)
(* What people see of a signal and press on, and what its trade comes to.  A  *)
(* subscriber has the messages of the broadcast and one screen: the list of   *)
(* open signals or a card opened from it.  An admin has the list of open      *)
(* signals and the question whether to cancel one.  A screen is what it was   *)
(* when it was drawn; its buttons carry ids; the rows move on underneath, are *)
(* deleted, and an id may be given again (a plain rowid).                     *)
(*                                                                            *)
(* Prices are whole numbers.  A result is counted in hundredths of the entry  *)
(* price: result_pct times the entry.                                         *)
(******************************************************************************)
EXTENDS Integers, Sequences, FiniteSets, FiniteSetsExt

CONSTANTS
    KIdlar,         \* 1..n, the ids the table can hand out
    Terilgan,       \* the levels an admin may type: [entry, stop, tp]
    KNarxlar,       \* prices the exchange may answer, prices a trade may be timed out at
    TP1_ULUSH,      \* portfolio.tp1_close_pct
    MARKET_CHEGARA, \* MARKET_CHEGARA_PCT, in hundredths of a percent
    KYoq,           \* no row
    MaxTarix,       \* bound: signals ever made
    MaxSorov        \* bound: cards being opened at once

ASSUME KartaFarazi ==
    /\ IsFiniteSet(KIdlar) /\ KIdlar = 1..Cardinality(KIdlar)
    /\ \A d \in Terilgan : d \in [entry : Int, stop : Int, tp : Seq(Int)]
    /\ KNarxlar \subseteq Nat \ {0}
    /\ TP1_ULUSH \in 0..100 /\ {MARKET_CHEGARA, MaxTarix, MaxSorov} \subseteq Nat

VARIABLES
    kqatorlar,  \* signals: id -> row or KYoq
    ktarix,     \* the levels of every signal ever made, in order
    kxabarlar,  \* the cards the broadcast has sent
    kekran,     \* the subscriber's screen
    ksorov,     \* the cards being opened: read from the row, the price not yet there
    knusxa,     \* the watcher's run: the rows it has read and not yet served
    kadmin,     \* the admin's screen
    kqaytgan    \* ids deleted at least once

kvars == <<kqatorlar, ktarix, kxabarlar, kekran, ksorov, knusxa, kadmin, kqaytgan>>

Ochiqlar == {"pending", "active", "tp1_hit"}
Yopiqlar == {"tp2_hit", "stopped", "cancelled", "timed_out"}
is_enterable(h) == h \in {"pending", "active"}

(* son: the how-manieth signal it is; tasdiq: the one the admin said yes to   *)
(* when the row was cancelled, 0 when nobody did; begona: a run wrote to it    *)
(* what it had found of another signal.                                       *)
KQator == [son : Nat, daraja : Terilgan, holat : Ochiqlar \cup Yopiqlar,
           tp1 : BOOLEAN, narx : Int, natija : Int, tasdiq : Nat, begona : BOOLEAN]

ASSUME KYoqFarazi == KYoq \notin KQator

KBor(id) == kqatorlar[id] # KYoq
KOchiq(id) == KBor(id) /\ kqatorlar[id].holat \in Ochiqlar

(******************************************************************************)
(* Levels and plans (core/domain, core/services/kirish_rejasi.py).            *)
(******************************************************************************)
final_tp(d) == d.tp[Len(d.tp)]

\* SignalLevels refuses anything but stop < entry < TP1 < ... < TPn.
SignalLevels(d) ==
    /\ d.tp # <<>>
    /\ 0 < d.stop /\ d.stop < d.entry /\ d.entry < d.tp[1]
    /\ \A i, j \in DOMAIN d.tp : i < j => d.tp[i] < d.tp[j]

\* What `signal_levels` can build: one to three targets.
signal_levels(d) == Len(d.tp) \in 1..3 /\ SignalLevels(d)

Uzoq(p, d) == IF p >= d.entry THEN p - d.entry ELSE d.entry - p

\* MARKET near the entry, LIMIT otherwise.  The plan's is_valid, which refuses a
\* price beyond the levels, is read by the cycle alone (zanjir_sikl.py:309), not
\* by the bot's two callers.
decide_entry_plan(p, d) ==
    IF Uzoq(p, d) * 10000 <= MARKET_CHEGARA * d.entry THEN "market" ELSE "limit"

(* The card: what to do (the row's status, or the order type while there is   *)
(* none), the levels, and the price.                                          *)
render_signal_card(id, r, harakat, p) ==
    [tur |-> "karta", id |-> id, son |-> r.son, harakat |-> harakat,
     daraja |-> r.daraja, narx |-> p]

\* The part sold at TP1 and the rest, weighed.
blended_result_pct(d, exit, tp1) ==
    IF tp1 THEN (d.tp[1] - d.entry) * TP1_ULUSH + (exit - d.entry) * (100 - TP1_ULUSH)
    ELSE (exit - d.entry) * 100

(******************************************************************************)
(* The buttons of the screens: what is pressed, and the id it carries.        *)
(******************************************************************************)
signal_list(kirish, kech) == ({"open"} \X kirish) \cup ({"late"} \X kech)

signal_actions(id) == {"why", "halal", "enter", "rasm"} \X {id}

open_signal_list(idlar) == {"pick"} \X idlar

cancel_confirm(id) == {<<"cancel", id>>}

Menyu == [tur |-> "menyu"]

Tugmalar(e) ==
    CASE e.tur = "royxat"  -> signal_list(e.kirish, e.kech)
      [] e.tur = "karta"   -> signal_actions(e.id)
      [] e.tur = "ochiqlar" -> open_signal_list(e.idlar)
      [] e.tur = "tasdiq"  -> cancel_confirm(e.id)
      [] OTHER             -> {}

KInit ==
    /\ kqatorlar = [id \in KIdlar |-> KYoq]
    /\ ktarix = <<>>
    /\ kxabarlar = {} /\ ksorov = {} /\ kqaytgan = {}
    /\ knusxa = [id \in KIdlar |-> KYoq]
    /\ kekran = Menyu /\ kadmin = Menyu

(******************************************************************************)
(* The rows.                                                                  *)
(******************************************************************************)
\* A new row takes the highest id in use plus one.
KYangiId == 1 + Max({0} \cup {id \in KIdlar : KBor(id)})

\* The bot's answer to the price question: the exchange's, or the fallback.
joriy_narx(zaxira) == KNarxlar \cup {zaxira}

\* The row of a new signal; levels in the wrong order never get this far.
Yaratiladi(d, p) ==
    /\ signal_levels(d) /\ Len(ktarix) < MaxTarix /\ KYangiId \in KIdlar
    /\ kqatorlar' = [kqatorlar EXCEPT ![KYangiId] =
           [son |-> Len(ktarix) + 1, daraja |-> d, holat |-> "pending", tp1 |-> FALSE,
            narx |-> p, natija |-> 0, tasdiq |-> 0, begona |-> FALSE]]
    /\ ktarix' = Append(ktarix, d)
    /\ UNCHANGED <<kekran, ksorov, knusxa, kadmin, kqaytgan>>

\* The admin's "send" in the bot: the row, and its card to the subscribers.
signal_send(d, p) ==
    /\ p \in joriy_narx(d.entry)
    /\ Yaratiladi(d, p)
    /\ kxabarlar' = kxabarlar \cup {render_signal_card(KYangiId, kqatorlar'[KYangiId],
                                                     decide_entry_plan(p, d), p)}

\* The site's and the cycle's rows: no price is kept, and no card is sent.
signalYarat(d) == Yaratiladi(d, d.entry) /\ UNCHANGED kxabarlar

(* apply_event: the row r moves to status h at price p; foizli: was           *)
(* tp1_close_pct passed.  Only a close writes a result.                       *)
apply_event(r, h, p, foizli) ==
    LET tp1 == r.tp1 \/ h = "tp1_hit"
    IN  [r EXCEPT !.holat = h, !.tp1 = tp1,
                  !.natija = IF h \in Yopiqlar
                             THEN blended_result_pct(r.daraja, p, tp1 /\ foizli) ELSE @]

(* The stop in force: at the entry once TP1 is recorded.  A run that saw TP1  *)
(* itself may stop at the entry, too, without having recorded it.             *)
StopNarxlari(r) ==
    IF r.tp1 THEN {r.daraja.entry} ELSE {r.daraja.stop, r.daraja.entry}

\* What the watcher may report of an open row, and at which price.
Hodisalar(r) ==
    {e \in {<<"active", r.daraja.entry>>} : r.holat = "pending"}
    \cup {e \in {<<"tp1_hit", r.daraja.tp[1]>>} : is_enterable(r.holat)}
    \cup {e \in {<<"cancelled", r.daraja.tp[1]>>} : r.holat = "pending"}
    \cup {<<"tp2_hit", final_tp(r.daraja)>>}
    \cup ({"stopped"} \X StopNarxlari(r))
    \cup ({"timed_out"} \X {p \in KNarxlar :
             /\ (IF r.tp1 THEN r.daraja.entry ELSE r.daraja.stop) < p
             /\ p < final_tp(r.daraja)})

\* The id was given to another signal since the run read it.
BoshqaSignal(id) == knusxa[id].son # kqatorlar[id].son

\* A run reads every open row in one session ...
KuzatuvchiOqiydi ==
    /\ \A id \in KIdlar : knusxa[id] = KYoq
    /\ knusxa' = [id \in KIdlar |-> IF KOchiq(id) THEN kqatorlar[id] ELSE KYoq]
    /\ UNCHANGED <<kqatorlar, ktarix, kxabarlar, kekran, ksorov, kadmin, kqaytgan>>

\* ... and, one after the other, fetches its candles and writes what they made of
\* the row it had read to the row that has the id by then.
KuzatuvchiYozadi(id) ==
    /\ knusxa[id] # KYoq
    /\ \E e \in Hodisalar(knusxa[id]) :
          LET r == kqatorlar[id]
              q == apply_event(r, e[1], e[2], TRUE)
          IN  kqatorlar' = IF ~KBor(id) THEN kqatorlar
                 ELSE [kqatorlar EXCEPT ![id] =
                          [q EXCEPT !.begona = r.begona \/ BoshqaSignal(id)]]
    /\ knusxa' = [knusxa EXCEPT ![id] = KYoq]
    /\ UNCHANGED <<ktarix, kxabarlar, kekran, ksorov, kadmin, kqaytgan>>

\* Nothing came of the row, or its fetch or write failed.
KuzatuvchiTashlaydi(id) ==
    /\ knusxa[id] # KYoq
    /\ knusxa' = [knusxa EXCEPT ![id] = KYoq]
    /\ UNCHANGED <<kqatorlar, ktarix, kxabarlar, kekran, ksorov, kadmin, kqaytgan>>

SaytdaOchiriladi(id) ==
    /\ KBor(id)
    /\ kqatorlar' = [kqatorlar EXCEPT ![id] = KYoq]
    /\ kqaytgan' = kqaytgan \cup {id}
    /\ UNCHANGED <<ktarix, kxabarlar, kekran, ksorov, knusxa, kadmin>>

(******************************************************************************)
(* The subscriber.                                                            *)
(******************************************************************************)
\* The list: open rows, those it is too late for apart.
list_signals ==
    /\ LET ochiqlar == {id \in KIdlar : KOchiq(id)}
           kirish == {id \in ochiqlar : is_enterable(kqatorlar[id].holat)}
       IN  kekran' = IF ochiqlar = {} THEN Menyu
                     ELSE [tur |-> "royxat", kirish |-> kirish, kech |-> ochiqlar \ kirish]
    /\ UNCHANGED <<kqatorlar, ktarix, kxabarlar, ksorov, knusxa, kadmin, kqaytgan>>

\* Mutant: the button is trusted; what is open is shown.
TugmagaIshonadi(id) ==
    /\ <<"open", id>> \in Tugmalar(kekran) /\ KOchiq(id) /\ Cardinality(ksorov) < MaxSorov
    /\ ksorov' = ksorov \cup
          {render_signal_card(id, kqatorlar[id], kqatorlar[id].holat, kqatorlar[id].narx)}
    /\ UNCHANGED <<kqatorlar, ktarix, kxabarlar, kekran, knusxa, kadmin, kqaytgan>>

\* A press on a signal of the list: the row is read, and refused if it is gone
\* or late by now.  Its own price stands in for the exchange's.
show_signal(id) ==
    /\ <<"open", id>> \in Tugmalar(kekran)
    /\ KBor(id) /\ is_enterable(kqatorlar[id].holat)
    /\ Cardinality(ksorov) < MaxSorov
    /\ ksorov' = ksorov \cup
          {render_signal_card(id, kqatorlar[id], kqatorlar[id].holat, kqatorlar[id].narx)}
    /\ UNCHANGED <<kqatorlar, ktarix, kxabarlar, kekran, knusxa, kadmin, kqaytgan>>

\* The exchange has answered: the screen becomes the card, whatever it is now.
KartaChiqadi(k, p) ==
    /\ k \in ksorov /\ p \in joriy_narx(k.narx)
    /\ kekran' = render_signal_card(k.id, k, k.harakat, p)
    /\ ksorov' = ksorov \ {k}
    /\ UNCHANGED <<kqatorlar, ktarix, kxabarlar, knusxa, kadmin, kqaytgan>>

\* A restart of the bot forgets the presses and the run under way; the screens
\* stay.
BotQaytaYurdi ==
    /\ ksorov' = {} /\ knusxa' = [id \in KIdlar |-> KYoq]
    /\ UNCHANGED <<kqatorlar, ktarix, kxabarlar, kekran, kadmin, kqaytgan>>

(******************************************************************************)
(* The admin.                                                                 *)
(******************************************************************************)
open_signals_list ==
    /\ LET ochiqlar == {id \in KIdlar : KOchiq(id)}
       IN  kadmin' = IF ochiqlar = {} THEN Menyu ELSE [tur |-> "ochiqlar", idlar |-> ochiqlar]
    /\ UNCHANGED <<kqatorlar, ktarix, kxabarlar, kekran, ksorov, knusxa, kqaytgan>>

confirm_cancel(id) ==
    /\ <<"pick", id>> \in Tugmalar(kadmin) /\ KOchiq(id)
    /\ kadmin' = [tur |-> "tasdiq", id |-> id, son |-> kqatorlar[id].son]
    /\ UNCHANGED <<kqatorlar, ktarix, kxabarlar, kekran, ksorov, knusxa, kqaytgan>>

\* Yes: whatever has the id by now is cancelled at its entry, if it is open.
cancel_open_signal(id) ==
    /\ <<"cancel", id>> \in Tugmalar(kadmin) /\ KOchiq(id)
    /\ LET r == kqatorlar[id]
       IN  kqatorlar' = [kqatorlar EXCEPT ![id] =
              [apply_event(r, "cancelled", r.daraja.entry, FALSE) EXCEPT !.tasdiq = kadmin.son]]
    /\ kadmin' = Menyu
    /\ UNCHANGED <<ktarix, kxabarlar, kekran, ksorov, knusxa, kqaytgan>>

KNext ==
    \/ \E d \in Terilgan, p \in KNarxlar \cup {e.entry : e \in Terilgan} : signal_send(d, p)
    \/ \E d \in Terilgan : signalYarat(d)
    \/ KuzatuvchiOqiydi
    \/ \E id \in KIdlar : KuzatuvchiYozadi(id) \/ KuzatuvchiTashlaydi(id) \/ SaytdaOchiriladi(id)
    \/ list_signals
    \/ \E id \in KIdlar : show_signal(id)
    \/ \E k \in ksorov : \E p \in joriy_narx(k.narx) : KartaChiqadi(k, p)
    \/ BotQaytaYurdi
    \/ open_signals_list
    \/ \E id \in KIdlar : confirm_cancel(id) \/ cancel_open_signal(id)

KSpec == KInit /\ [][KNext]_kvars

(******************************************************************************)
(* Properties.                                                                *)
(******************************************************************************)
KKarta == [tur : {"karta"}, id : KIdlar, son : Nat \ {0},
           harakat : {"pending", "active", "market", "limit"}, daraja : Terilgan, narx : Int]

\* The rows and the screens keep their shape.
KTypeOK ==
    /\ kqatorlar \in [KIdlar -> KQator \cup {KYoq}]
    /\ ktarix \in Seq({d \in Terilgan : signal_levels(d)})
    /\ kxabarlar \subseteq KKarta /\ ksorov \subseteq KKarta
    /\ kekran \in {Menyu} \cup KKarta \cup
          [tur : {"royxat"}, kirish : SUBSET KIdlar, kech : SUBSET KIdlar]
    /\ kadmin \in {Menyu} \cup [tur : {"ochiqlar"}, idlar : SUBSET KIdlar] \cup
          [tur : {"tasdiq"}, id : KIdlar, son : Nat \ {0}]
    /\ knusxa \in [KIdlar -> KQator \cup {KYoq}]
    /\ kqaytgan \subseteq KIdlar

Kartalar == kxabarlar \cup ksorov \cup {e \in {kekran} : e.tur = "karta"}

\* Row `id` is the signal `son`, or is gone, or has an id that was given again.
Oshami(id, son) == KBor(id) => kqatorlar[id].son = son \/ id \in kqaytgan

\* Prices are shown only of a signal one could enter when they were asked for:
\* the card a stale list opens is of an enterable row, with the levels of one
\* signal, and its buttons are that signal's unless its id was given again.
KartaButun ==
    /\ \A k \in Kartalar :
          /\ k.son \in DOMAIN ktarix /\ k.daraja = ktarix[k.son]
          /\ Oshami(k.id, k.son)
    /\ \A k \in Kartalar \ kxabarlar : is_enterable(k.harakat)
    /\ kekran.tur = "royxat" => kekran.kirish \cap kekran.kech = {}

\* The admin cancels a signal only if it is the one the question named, though it
\* was asked and answered on different rows, and the watcher moves a signal only
\* by what it found of that signal, though it reads and writes on different rows
\* (but for a reused id, either of them).
OziniOzgartiradi ==
    \A id \in KIdlar \ kqaytgan : KBor(id) =>
        /\ kqatorlar[id].tasdiq \in {0, kqatorlar[id].son}
        /\ ~kqatorlar[id].begona

\* A closed trade lost no more than its stop and won no more than its last
\* target.  What was sold at TP1 counts: once TP1 is recorded neither the stop
\* nor the time limit makes a loss of it; without it a stop is never a gain.
NatijaTogri(r) ==
    /\ r.holat \in Yopiqlar =>
          /\ (r.daraja.stop - r.daraja.entry) * 100 <= r.natija
          /\ r.natija <= (final_tp(r.daraja) - r.daraja.entry) * 100
    /\ r.holat = "tp2_hit" => r.natija > 0
    /\ r.holat = "timed_out" /\ r.tp1 => r.natija > 0
    /\ r.holat = "stopped" /\ r.tp1 /\ TP1_ULUSH > 0 => r.natija > 0
    /\ r.holat = "stopped" /\ ~r.tp1 => r.natija <= 0

\* Of every row, also one whose cancellation was overwritten, unless a run wrote to
\* it at the levels of another.
NatijaOraligi ==
    \A id \in KIdlar : KBor(id) /\ ~kqatorlar[id].begona => NatijaTogri(kqatorlar[id])

\* What people are shown and what the books say is of one signal and true.
KartochkaRost == KTypeOK /\ KartaButun /\ OziniOzgartiradi /\ NatijaOraligi
=============================================================================
