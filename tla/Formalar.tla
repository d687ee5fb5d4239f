------------------------------- MODULE Formalar -------------------------------
(***************************************************************************)
(* The bot's dialogs with one person.  A form is a state of aiogram's FSM  *)
(* and the dictionary beside it, in memory only; a button opens a form by  *)
(* set_state and update_data, a message answers it, the last handler saves *)
(* and calls state.clear.  Updates are served as tasks of one loop: what a *)
(* handler does between two awaits is one action, and while it waits for   *)
(* the database or for Telegram other updates of the same person are       *)
(* served.  Which handler a message has is settled by the state it finds;  *)
(* then UserContextMiddleware awaits the database, and the handler runs    *)
(* in whatever state there is by then.  A button asks for no state, so     *)
(* what it waits for shows nothing.  A keyboard once shown stays in the    *)
(* chat, over restarts of the bot too, so any button may be pressed at any *)
(* time.  Of the dictionary only its keys are kept.                        *)
(***************************************************************************)
EXTENDS Naturals, FiniteSets

CONSTANT
    MaxVazifa       \* bound: how many handlers wait at once

ASSUME FormalarFarazi == MaxVazifa \in Nat

VARIABLES
    forma,      \* the state, "yoq" when none
    maydonlar,   \* the keys of its data
    vazifalar,  \* the handlers that wait
    admin,      \* is the person's id in ADMIN_IDS of this process
    yirtiq      \* since the last clear, has an answer from before a clear gone on
                \* with its form (history)

fvars == <<forma, maydonlar, vazifalar, admin, yirtiq>>

-----------------------------------------------------------------------------
(* The handlers, as what each asks of the form and leaves in it. *)

(* A button: the state it sets, the keys it writes, whose it is. *)
Savol(holat, yozadi, kim) == [holat |-> holat, yozadi |-> yozadi, kim |-> kim]

(* A message in a state: what it writes, the state it sets; none if it is    *)
(* the same.                                                               *)
Javob(holat, yozadi, keyin) == [holat |-> holat, yozadi |-> yozadi, keyin |-> keyin]

(* The message that ends a form: the keys its handler reads. *)
Yakun(holat, oqiydi) == [holat |-> holat, oqiydi |-> oqiydi]

signal_ask_symbol  == Savol("signal_nomi", {}, "admin")
signal_ask_entry   == Javob("signal_nomi", {"symbol"}, "signal_kirish")
signal_ask_stop    == Javob("signal_kirish", {"entry"}, "signal_stop")
signal_ask_tp1     == Javob("signal_stop", {"stop"}, "signal_tp1")
signal_ask_tp2     == Javob("signal_tp1", {"tp1"}, "signal_tp2")
signal_ask_note    == Javob("signal_tp2", {"tp2"}, "signal_izoh")
signal_preview     == Yakun("signal_izoh", {"symbol", "entry", "stop", "tp1", "tp2"})

ask_reject_reason  == Savol("rad_sababi", {"payment_id"}, "admin")
reject_payment     == Yakun("rad_sababi", {"payment_id"})

price_ask_amount   == Savol("narx_summa", {"tier", "period", "currency"}, "admin")
price_ask_details  == Javob("narx_summa", {"amount"}, "narx_rekvizit")
price_save         == Yakun("narx_rekvizit", {"tier", "period", "currency", "amount"})

halal_list         == Savol("coin_nomi", {}, "admin")
coin_choose_status == Javob("coin_nomi", {"symbol"}, "coin_nomi")
coin_ask_reason    == Savol("coin_sabab", {"symbol", "status"}, "admin")
coin_save          == Yakun("coin_sabab", {"symbol", "status"})

violation_ask_user == Savol("buzar_id", {}, "admin")
violation_ask_reason == Javob("buzar_id", {"user_id", "telegram_id"}, "buzar_sabab")
violation_apply    == Yakun("buzar_sabab", {"user_id", "telegram_id"})

broadcast_ask      == Savol("elon", {}, "admin")
broadcast_send     == Yakun("elon", {})

content_ask_title  == Savol("dars_nomi", {}, "admin")
content_ask_tier   == Javob("dars_nomi", {"title"}, "dars_nomi")
content_ask_file   == Savol("dars_fayli", {"min_tier"}, "admin")
content_save       == Yakun("dars_fayli", {"title", "min_tier"})

show_payment_details == Savol("chek", {"tier", "period", "amount", "currency"}, "hamma")
receive_receipt    == Yakun("chek", {"tier", "period", "amount", "currency"})

sig_enter          == Savol("kirim", {"signal_id", "entry_price", "symbol"}, "hamma")
save_position      == Yakun("kirim", {"signal_id", "entry_price", "symbol"})

ask_balance        == Savol("balans", {}, "hamma")
save_balance       == Yakun("balans", {})

(* Those that set the state before they wait for anything, and those that  *)
(* read the database first.                                                *)
Savollar ==
    {signal_ask_symbol, ask_reject_reason, price_ask_amount, coin_ask_reason, violation_ask_user,
     broadcast_ask, content_ask_title, content_ask_file, ask_balance}
KechSavollar == {halal_list, show_payment_details, sig_enter}

Javoblar ==
    {signal_ask_entry, signal_ask_stop, signal_ask_tp1, signal_ask_tp2, signal_ask_note,
     price_ask_details, coin_choose_status, content_ask_tier}

Yakunlar ==
    {reject_payment, price_save, coin_save, violation_apply, broadcast_send, content_save,
     receive_receipt, save_position, save_balance}

SignalFlow == {"signal_nomi", "signal_kirish", "signal_stop", "signal_tp1", "signal_tp2", "signal_izoh"}
AdminFormalar ==
    SignalFlow \cup {"rad_sababi", "narx_summa", "narx_rekvizit", "coin_nomi", "coin_sabab",
                     "buzar_id", "buzar_sabab", "elon", "dars_nomi", "dars_fayli"}
FormaTurlari == AdminFormalar \cup {"chek", "kirim", "balans"}

(* An empty chat with a bot just started. *)
FInit ==
    /\ forma = "yoq"
    /\ maydonlar = {}
    /\ vazifalar = {}
    /\ admin \in BOOLEAN
    /\ yirtiq = FALSE

(* The keys that the rest of a form counts on. *)
SignalYoli == <<signal_ask_entry, signal_ask_stop, signal_ask_tp1, signal_ask_tp2, signal_ask_note>>

KerakliKalitlar(holat) ==
    ((UNION {y.oqiydi : y \in {z \in Yakunlar : z.holat = holat}}) \ {"title"})
        \cup (UNION {s.yozadi : s \in {z \in Savollar \cup KechSavollar : z.holat = holat}})
        \cup (UNION {SignalYoli[k].yozadi :
                        k \in {i \in 1..5 : \E n \in i..5 : SignalYoli[n].keyin = holat}})

-----------------------------------------------------------------------------
(* AdminOnlyMiddleware, on both routers of the admin. *)
Haqli(kim) == kim = "admin" => admin

(* One more task beside those that stay; son tells equal ones apart.        *)
Kutadi(qolgan, ish, holat) ==
    /\ Cardinality(qolgan) < MaxVazifa
    /\ LET band == {v.son : v \in {w \in qolgan : w.ish = ish /\ w.holat = holat}}
       IN  \E n \in 1..MaxVazifa :
              /\ n \notin band /\ 1..(n - 1) \subseteq band
              /\ vazifalar' = qolgan \cup
                    {[ish |-> ish, holat |-> holat, son |-> n, tozalandi |-> FALSE]}

Kutgan(ish, holat) == {v \in vazifalar : v.ish = ish /\ v.holat = holat}

Qoladi(v) == vazifalar \ {v}

Ochadi(holat, yozadi) ==
    /\ forma' = holat
    /\ maydonlar' = maydonlar \cup yozadi

(* An answer goes on with its form, also when a clear came while it waited. *)
DavomEtadi(v, keyin, yozadi) ==
    /\ Ochadi(IF keyin = v.holat THEN forma ELSE keyin, yozadi)
    /\ yirtiq' = (yirtiq \/ (/\ v.tozalandi /\ keyin # v.holat
                             /\ ~(KerakliKalitlar(keyin) \subseteq yozadi)))

(* Mutant: the dictionary is emptied and the state left. *)
YarimTozalash(qolgan) ==
    /\ forma' = forma /\ maydonlar' = {} /\ yirtiq' = FALSE
    /\ vazifalar' = qolgan

(* state.clear(): the state and the whole dictionary, the key of the last   *)
(* menu included; the messages that wait were meant for what it clears.     *)
Tozalangan(qolgan) == {[v EXCEPT !.tozalandi = @ \/ v.ish = "xabar"] : v \in qolgan}

Tozalash(qolgan) ==
    /\ forma' = "yoq" /\ maydonlar' = {} /\ yirtiq' = FALSE
    /\ vazifalar' = Tozalangan(qolgan)

FormaTurgun == UNCHANGED <<forma, maydonlar, admin, yirtiq>>

-----------------------------------------------------------------------------
(* The buttons that ask. *)
Sorab(s) ==
    /\ Haqli(s.kim)
    /\ Ochadi(s.holat, s.yozadi)
    /\ UNCHANGED <<vazifalar, admin, yirtiq>>

KechBoshlaydi(s) ==
    /\ Haqli(s.kim)
    /\ Kutadi(vazifalar, "savol", s.holat)
    /\ FormaTurgun

(* The row is there: the form opens, whatever was opened meanwhile.         *)
KechSoraydi(s) == \E v \in Kutgan("savol", s.holat) :
    /\ vazifalar' = Qoladi(v)
    /\ Ochadi(s.holat, s.yozadi)
    /\ UNCHANGED <<admin, yirtiq>>

(* It is not, or the payment waits already: an alert, and no form. *)
KechRad(s) == \E v \in Kutgan("savol", s.holat) :
    vazifalar' = Qoladi(v) /\ FormaTurgun

-----------------------------------------------------------------------------
(* The messages.  One finds the form open and has its handler ...           *)
XabarKeladi ==
    /\ forma # "yoq"
    /\ Kutadi(vazifalar, "xabar", forma)
    /\ FormaTurgun

(* ... which finds nothing to go on with: what was sent does not parse and  *)
(* is asked for again, a key it reads is not there (a KeyError), or the     *)
(* database refuses.                                                        *)
XabarRad == \E v \in vazifalar :
    v.ish \in {"xabar", "buyruq"} /\ vazifalar' = Qoladi(v) /\ FormaTurgun

JavobOladi(j) == \E v \in Kutgan("xabar", j.holat) :
    /\ vazifalar' = Qoladi(v)
    /\ DavomEtadi(v, j.keyin, j.yozadi)
    /\ UNCHANGED admin

(* violation_ask_reason looks the user up before it goes on. *)
BuzarQidiriladi == \E v \in Kutgan("xabar", violation_ask_reason.holat) :
    Kutadi(Qoladi(v), "javob", violation_ask_reason.holat) /\ FormaTurgun

BuzarTopildi == \E v \in Kutgan("javob", violation_ask_reason.holat) :
    /\ vazifalar' = Qoladi(v)
    /\ DavomEtadi(v, violation_ask_reason.keyin, violation_ask_reason.yozadi)
    /\ UNCHANGED admin

BuzarTopilmadi == \E v \in Kutgan("javob", violation_ask_reason.holat) :
    vazifalar' = Qoladi(v) /\ FormaTurgun

(* The data is read before the database is awaited a second time. *)
Saqlaydi(y) == \E v \in Kutgan("xabar", y.holat) :
    /\ y.oqiydi \subseteq maydonlar
    /\ Kutadi(Qoladi(v), "yakun", y.holat)
    /\ FormaTurgun

(* state.clear() closes whatever form is open by then. *)
Saqlandi(y) == \E v \in Kutgan("yakun", y.holat) :
    Tozalash(Qoladi(v)) /\ UNCHANGED admin

(* The database or the exchange refuses: the form stays as it is. *)
SaqlashYiqiladi(y) == \E v \in Kutgan("yakun", y.holat) :
    vazifalar' = Qoladi(v) /\ FormaTurgun

-----------------------------------------------------------------------------
(* signal_preview.  Levels in the wrong order are asked for anew from the   *)
(* stop on, the symbol unread; else the price is awaited.                   *)
TartibXato == \E v \in Kutgan("xabar", signal_preview.holat) :
    /\ signal_preview.oqiydi \ {"symbol"} \subseteq maydonlar
    /\ vazifalar' = Qoladi(v)
    /\ DavomEtadi(v, "signal_stop", {})
    /\ UNCHANGED admin

NarxSoraladi == \E v \in Kutgan("xabar", signal_preview.holat) :
    /\ signal_preview.oqiydi \subseteq maydonlar
    /\ Kutadi(Qoladi(v), "namoyish", signal_preview.holat)
    /\ FormaTurgun

(* _rule_warnings reads config.trade_rules, which AppConfig does not have:  *)
(* an AttributeError before the note is kept and waiting_confirm set.       *)
NarxKeldi == \E v \in Kutgan("namoyish", signal_preview.holat) :
    vazifalar' = Qoladi(v) /\ FormaTurgun

-----------------------------------------------------------------------------
(* The buttons that go home or cancel. *)
Uyga == Tozalash(vazifalar) /\ UNCHANGED admin

(* Messages go to the first router with a handler for them: a form of the  *)
(* manual signal takes /panel and /start as its answer, the admin's other  *)
(* forms and the position take /start.                                     *)
BuyruqYetadi(buyruq) ==
    \/ buyruq = "start" /\ forma \notin AdminFormalar \cup {"kirim"}
    \/ buyruq = "panel" /\ forma \notin SignalFlow /\ admin

BuyruqKeladi(buyruq) ==
    /\ BuyruqYetadi(buyruq)
    /\ Kutadi(vazifalar, "buyruq", buyruq)
    /\ FormaTurgun

(* show_menu and show_panel clear the form, then call show_screen, which    *)
(* looks for the last menu's id in the data it finds empty and so deletes   *)
(* nothing, sends the menu and keeps its id.                                *)
MenyuOchadi(buyruq) == \E v \in Kutgan("buyruq", buyruq) :
    /\ forma' = "yoq" /\ maydonlar' = {} /\ yirtiq' = FALSE
    /\ Kutadi(Tozalangan(Qoladi(v)), "ekran", buyruq)
    /\ UNCHANGED admin

MenyuChiqadi(buyruq) == \E v \in Kutgan("ekran", buyruq) :
    /\ vazifalar' = Qoladi(v)
    /\ maydonlar' = maydonlar \cup {"oxirgi_ekran_id"}
    /\ UNCHANGED <<forma, admin, yirtiq>>

(* A restart: MemoryStorage is gone, the chat is not, ADMIN_IDS is read     *)
(* anew.                                                                    *)
FQayta ==
    /\ forma' = "yoq" /\ maydonlar' = {} /\ vazifalar' = {} /\ yirtiq' = FALSE
    /\ admin' \in BOOLEAN

FNext ==
    \/ \E s \in Savollar : Sorab(s)
    \/ \E s \in KechSavollar : KechBoshlaydi(s) \/ KechSoraydi(s) \/ KechRad(s)
    \/ XabarKeladi \/ XabarRad
    \/ \E j \in Javoblar : JavobOladi(j)
    \/ BuzarQidiriladi \/ BuzarTopildi \/ BuzarTopilmadi
    \/ \E y \in Yakunlar : Saqlaydi(y) \/ Saqlandi(y) \/ SaqlashYiqiladi(y)
    \/ TartibXato \/ NarxSoraladi \/ NarxKeldi
    \/ Uyga
    \/ \E b \in {"start", "panel"} : BuyruqKeladi(b) \/ MenyuOchadi(b) \/ MenyuChiqadi(b)
    \/ FQayta

FSpec == FInit /\ [][FNext]_fvars

-----------------------------------------------------------------------------
FTypeOK ==
    /\ forma \in FormaTurlari \cup {"yoq"}
    /\ vazifalar \subseteq
          [ish : {"savol", "xabar", "javob", "yakun", "namoyish", "buyruq", "ekran"},
           holat : FormaTurlari \cup {"start", "panel"}, son : 1..MaxVazifa, tozalandi : BOOLEAN]
    /\ yirtiq \in BOOLEAN

(* An open form has every value that its next handlers read, whatever       *)
(* buttons were pressed, whatever ended late and cleared, and after any      *)
(* restart: a form that answers every message with a KeyError comes of one   *)
(* thing alone, an answer that was on its way while its form was cleared and *)
(* went on with it (then price_save finds no tier), and lasts until the next *)
(* clear.  Beside it a lesson's file asked for by a keyboard older than the  *)
(* form has no title (see the README).                                       *)
FormaButun == forma # "yoq" /\ ~yirtiq => KerakliKalitlar(forma) \subseteq maydonlar

(* Nobody but an admin of this process is in one of the admin's forms.      *)
AdminFormasi == forma \in AdminFormalar => admin

(* A dialog can be gone on with, and by whom it is for. *)
DialogButun == FTypeOK /\ FormaButun /\ AdminFormasi

(* The preview of a manual signal ends with its confirmation open           *)
(* (signals.py:3, "Coin -> ... -> preview -> tasdiqlash").                   *)
NamoyishTasdiqqa == [][NarxKeldi => forma' = "signal_tasdiq"]_fvars
=============================================================================
