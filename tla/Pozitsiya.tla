------------------------------- MODULE Pozitsiya -------------------------------
(******************************************************************************)
(* "I have entered": a user's position on a signal.  The bot asks for the     *)
(* amount in a form that remembers the signal's id and entry price; the site  *)
(* takes both from the row.  Neither process sees the other: the database has *)
(* two guards of its own (one position per user and signal; a position's      *)
(* signal exists, for the bot's connection).  Signal ids are plain rowids:    *)
(* the id of a deleted highest row is given again.                            *)
(******************************************************************************)
EXTENDS Naturals, Sequences, SequencesExt, FiniteSets, FiniteSetsExt

CONSTANTS
    Odamlar,    \* users
    Idlar,      \* 1..n, the ids the table can hand out
    Narxlar,    \* entry prices
    Yoq,        \* no row, no form, no day
    MaxSignal,  \* signals ever written
    MaxXabar    \* messages of one user being handled at once

ASSUME PozitsiyaFarazi ==
    /\ IsFiniteSet(Idlar) /\ Idlar = 1..Cardinality(Idlar)
    /\ Yoq \notin Narxlar /\ Yoq \notin Nat /\ {MaxSignal, MaxXabar} \subseteq Nat

VARIABLES
    signallar,      \* signals: id -> row or Yoq
    pozitsiyalar,   \* user_positions: user, signal id -> sequence of entry prices
    formalar,       \* the bot's FSM memory: user -> [signal, narx] or Yoq
    saqlash,        \* user -> sequence of save_position calls under way
    kun,            \* the day
    yozilgan,       \* signals written so far (a bound)
    qaytgan         \* ids deleted at least once

pvars == <<signallar, pozitsiyalar, formalar, saqlash, kun, yozilgan, qaytgan>>

Holatlar == {"pending", "active", "tp1_hit", "tp2_hit", "stopped"}
yopilgan(h) == h \in {"tp2_hit", "stopped"}
is_enterable(h) == h \in {"pending", "active"}

Qator == [holat : Holatlar, narx : Narxlar, tarqatildi : Nat \cup {Yoq},
          tp1 : Nat \cup {Yoq}, tp2 : Nat \cup {Yoq}]

ASSUME YoqFarazi == Yoq \notin Qator

Bor(id) == signallar[id] # Yoq

PInit ==
    /\ signallar = [id \in Idlar |-> Yoq]
    /\ pozitsiyalar = [o \in Odamlar |-> [id \in Idlar |-> <<>>]]
    /\ formalar = [o \in Odamlar |-> Yoq]
    /\ saqlash = [o \in Odamlar |-> <<>>]
    /\ kun = 0 /\ yozilgan = 0 /\ qaytgan = {}

(* A new row takes the highest id in use plus one. *)
YangiId == 1 + Max({0} \cup {id \in Idlar : Bor(id)})

signalYarat(n) ==
    /\ yozilgan < MaxSignal /\ YangiId \in Idlar
    /\ signallar' = [signallar EXCEPT ![YangiId] =
           [holat |-> "pending", narx |-> n, tarqatildi |-> Yoq, tp1 |-> Yoq, tp2 |-> Yoq]]
    /\ yozilgan' = yozilgan + 1
    /\ UNCHANGED <<pozitsiyalar, formalar, saqlash, kun, qaytgan>>

(* One transaction takes the events, the positions and the row. *)
signalOchir(id) ==
    /\ Bor(id)
    /\ signallar' = [signallar EXCEPT ![id] = Yoq]
    /\ pozitsiyalar' = [o \in Odamlar |-> [pozitsiyalar[o] EXCEPT ![id] = <<>>]]
    /\ qaytgan' = qaytgan \cup {id}
    /\ UNCHANGED <<formalar, saqlash, kun, yozilgan>>

(* The broadcast marks an open row; the watcher moves it, each event with its *)
(* day in signal_events.                                                      *)
Tarqatiladi(id) ==
    /\ Bor(id) /\ signallar[id].tarqatildi = Yoq /\ ~yopilgan(signallar[id].holat)
    /\ signallar' = [signallar EXCEPT ![id].tarqatildi = kun]
    /\ UNCHANGED <<pozitsiyalar, formalar, saqlash, kun, yozilgan, qaytgan>>

apply_event(id, h) ==
    /\ Bor(id) /\ ~yopilgan(signallar[id].holat)
    /\ CASE h = "active"  -> signallar[id].holat = "pending"
         [] h = "tp1_hit" -> is_enterable(signallar[id].holat)
         [] OTHER         -> TRUE
    /\ signallar' = [signallar EXCEPT
           ![id].holat = h,
           ![id].tp1 = IF h = "tp1_hit" THEN kun ELSE @,
           ![id].tp2 = IF h = "tp2_hit" THEN kun ELSE @]
    /\ UNCHANGED <<pozitsiyalar, formalar, saqlash, kun, yozilgan, qaytgan>>

(******************************************************************************)
(* The bot's form.                                                            *)
(******************************************************************************)
\* Mutant: a form that is already open keeps the price it was opened with.
FormaEskiNarx(o, id) ==
    [signal |-> id, narx |-> IF formalar[o] = Yoq THEN signallar[id].narx ELSE formalar[o].narx]

FormaMalumoti(o, id) == [signal |-> id, narx |-> signallar[id].narx]

(* The button is refused on a closed signal, on a late one and on one the     *)
(* user is already in.                                                        *)
ask_position_amount(o, id) ==
    /\ Bor(id) /\ is_enterable(signallar[id].holat)
    /\ pozitsiyalar[o][id] = <<>>
    /\ formalar' = [formalar EXCEPT ![o] = FormaMalumoti(o, id)]
    /\ UNCHANGED <<signallar, pozitsiyalar, saqlash, kun, yozilgan, qaytgan>>

(* A message with a good amount reaches the form and reads what it remembers; *)
(* nothing of it is checked again.                                            *)
SaqlashOqiydi(o) ==
    /\ formalar[o] # Yoq /\ Len(saqlash[o]) < MaxXabar
    /\ saqlash' = [saqlash EXCEPT ![o] = Append(@, formalar[o])]
    /\ UNCHANGED <<signallar, pozitsiyalar, formalar, kun, yozilgan, qaytgan>>

(* What the database accepts from the bot: the foreign key and the key        *)
(* (user, signal).                                                            *)
Qabul(o, id) == Bor(id) /\ pozitsiyalar[o][id] = <<>>

(* The insert of one call: written, then the form is closed, whichever form   *)
(* is open by then; or refused by the database, and the form stays.           *)
SaqlashYozadi(o, i) ==
    LET s == saqlash[o][i] IN
    /\ IF s.narx # Yoq /\ Qabul(o, s.signal)
       THEN /\ pozitsiyalar' = [pozitsiyalar EXCEPT ![o][s.signal] = Append(@, s.narx)]
            /\ saqlash' = [saqlash EXCEPT ![o][i].narx = Yoq]
       ELSE /\ s.narx # Yoq
            /\ saqlash' = [saqlash EXCEPT ![o] = RemoveAt(@, i)]
            /\ UNCHANGED pozitsiyalar
    /\ UNCHANGED <<signallar, formalar, kun, yozilgan, qaytgan>>

SaqlashYopadi(o, i) ==
    /\ saqlash[o][i].narx = Yoq
    /\ saqlash' = [saqlash EXCEPT ![o] = RemoveAt(@, i)]
    /\ formalar' = [formalar EXCEPT ![o] = Yoq]
    /\ UNCHANGED <<signallar, pozitsiyalar, kun, yozilgan, qaytgan>>

(* MemoryStorage: a restart forgets the forms and the calls under way. *)
BotQayta ==
    /\ formalar' = [o \in Odamlar |-> Yoq]
    /\ saqlash' = [o \in Odamlar |-> <<>>]
    /\ UNCHANGED <<signallar, pozitsiyalar, kun, yozilgan, qaytgan>>

(* The site's button: synchronous, but against the bot's process the key of   *)
(* the table has the last word.                                               *)
pozitsiyaQayd(o, id) ==
    /\ Bor(id) /\ ~yopilgan(signallar[id].holat)
    /\ Qabul(o, id)
    /\ pozitsiyalar' = [pozitsiyalar EXCEPT ![o][id] = Append(@, signallar[id].narx)]
    /\ UNCHANGED <<signallar, formalar, saqlash, kun, yozilgan, qaytgan>>

SignalQadami ==
    \/ \E n \in Narxlar : signalYarat(n)
    \/ \E id \in Idlar : signalOchir(id)
    \/ \E id \in Idlar, h \in Holatlar \ {"pending"} : apply_event(id, h)

PNext ==
    \/ SignalQadami
    \/ \E o \in Odamlar :
          \/ \E id \in Idlar : ask_position_amount(o, id) \/ pozitsiyaQayd(o, id)
          \/ SaqlashOqiydi(o)
          \/ \E i \in DOMAIN saqlash[o] : SaqlashYozadi(o, i) \/ SaqlashYopadi(o, i)
    \/ BotQayta

PSpec == PInit /\ [][PNext]_pvars

(******************************************************************************)
(* Properties.                                                                *)
(******************************************************************************)
\* The rows, the forms and the calls keep their shape.
PTypeOK ==
    /\ signallar \in [Idlar -> Qator \cup {Yoq}]
    /\ \A o \in Odamlar :
          /\ formalar[o] \in [signal : Idlar, narx : Narxlar] \cup {Yoq}
          /\ Len(saqlash[o]) <= MaxXabar
          /\ \A i \in DOMAIN saqlash[o] :
                saqlash[o][i] \in [signal : Idlar, narx : Narxlar \cup {Yoq}]
          /\ \A id \in Idlar : ToSet(pozitsiyalar[o][id]) \subseteq Narxlar
    /\ kun \in Nat /\ yozilgan \in 0..MaxSignal /\ qaytgan \subseteq Idlar

\* No position is left of a signal that was deleted, also not by a form that
\* was open while the admin deleted it.
YetimYoq == \A o \in Odamlar, id \in Idlar : ~Bor(id) => pozitsiyalar[o][id] = <<>>

\* A user is in a signal once: two messages at once, the bot beside the site,
\* a form opened twice.
BirPozitsiya == \A o \in Odamlar, id \in Idlar : Len(pozitsiyalar[o][id]) <= 1

\* A position's entry price is its signal's, so its result can be trusted; the
\* one exception is an id that was deleted and given again under an open form.
NarxSignaldan ==
    \A o \in Odamlar, id \in Idlar : \A i \in DOMAIN pozitsiyalar[o][id] :
        pozitsiyalar[o][id][i] = signallar[id].narx \/ id \in qaytgan

\* A user is in a signal that exists, once and at its price.
PozitsiyaButun == PTypeOK /\ YetimYoq /\ BirPozitsiya /\ NarxSignaldan

=============================================================================
