----------------------------- MODULE ObunaTolov -----------------------------
(***************************************************************************)
(* From a receipt to a subscription and its end.  A user asks for a tier   *)
(* and a period, sends the receipt, and an admin approves or rejects the   *)
(* payment, in Telegram or on the site.  An hourly task closes what has    *)
(* run out and reminds of what soon will.                                  *)
(*                                                                         *)
(* One user is modelled: no operation reads two users' rows.  In the bot   *)
(* a SELECT opens no transaction (sqlite3 begins one at the first write),  *)
(* so a handler that reads a payment and writes it later takes two         *)
(* actions; the site's BEGIN pins the snapshot it read, so its approval is *)
(* one.                                                                    *)
(***************************************************************************)
EXTENDS Integers, FiniteSets

CONSTANTS
    Amallar,        \* the bot's handlers of the admins' presses, running at once
    SAYT,           \* the site's server, which serves one press at a time
    TarifSoni,      \* the tiers are 1..TarifSoni, by rank
    Eslatmalar,     \* subscriptions.expiry_reminder_days
    KUN,            \* the moments of a day
    Oylik, Kunlik,  \* the days of the two periods
    Oraliq,         \* the most moments between two runs of the task that commit
    MaxTolov,       \* bound: payments
    MaxObuna,       \* bound: subscriptions
    MaxVaqt         \* bound: moments

ASSUME ObunaFarazi ==
    /\ SAYT \notin Amallar
    /\ TarifSoni \in Nat \ {0}
    /\ Eslatmalar \subseteq Nat
    /\ KUN \in Nat \ {0}
    /\ Oylik \in Nat \ {0}
    /\ Kunlik \in Nat \ {0}
    /\ Oraliq \in 1..KUN
    /\ \A d \in Eslatmalar : d + 1 <= Oylik
    /\ MaxTolov \in Nat
    /\ MaxObuna \in Nat
    /\ MaxVaqt \in Nat

VARIABLES
    vaqt,       \* now
    tolov,      \* the rows of payments
    obuna,      \* the rows of subscriptions
    shakl,      \* what the user is asked to pay for (PaymentFlow.waiting_receipt), if anything
    chek,       \* how many receipts' handlers have yet to close the form
    amal,       \* the admins' handlers
    vazifa,     \* the reminders the task has yet to send
    yurdi,      \* when the task ran last
    keldi       \* how many times each reminder was sent

vars == <<vaqt, tolov, obuna, shakl, chek, amal, vazifa, yurdi, keldi>>
baza == <<tolov, obuna>>

Tarif == 1..TarifSoni
Tid == 1..MaxTolov
Oid == 1..MaxObuna
Korganlar == Amallar \cup {SAYT}

BoshTolov == [holat |-> "yoq", tarif |-> 0, sinov |-> FALSE, obuna |-> 0]
BoshObuna == [holat |-> "yoq", tarif |-> 0, sinov |-> FALSE, tugash |-> 0, eslatma |-> {}, tolov |-> 0]
BoshAmal == [ish |-> "yoq", tolov |-> 0]

Init ==
    /\ vaqt = 0
    /\ tolov = [p \in Tid |-> BoshTolov]
    /\ obuna = [o \in Oid |-> BoshObuna]
    /\ shakl = {}
    /\ chek = 0
    /\ amal = [h \in Korganlar |-> BoshAmal]
    /\ vazifa = {}
    /\ yurdi = 0
    /\ keldi = [o \in Oid |-> [d \in Eslatmalar |-> 0]]

-----------------------------------------------------------------------------
(* Time passes.  The task is never late by more than Oraliq.                *)
Soat ==
    /\ vaqt < MaxVaqt
    /\ vaqt < yurdi + Oraliq
    /\ vaqt' = vaqt + 1
    /\ UNCHANGED <<baza, shakl, chek, amal, vazifa, yurdi, keldi>>

-----------------------------------------------------------------------------
(* The user. *)
(* show_payment_details: refused while a payment waits. *)
RekvizitKorish ==
    /\ \A p \in Tid : tolov[p].holat # "pending"
    /\ \E t \in Tarif, s \in BOOLEAN : shakl' = {[tarif |-> t, sinov |-> s]}
    /\ UNCHANGED <<vaqt, baza, chek, amal, vazifa, yurdi, keldi>>

(* receive_receipt: the payment is made without looking again ...           *)
ChekKeldi ==
    /\ \E p \in Tid, r \in shakl :
          /\ tolov[p].holat = "yoq"
          /\ \A q \in Tid : q < p => tolov[q].holat # "yoq"
          /\ tolov' = [tolov EXCEPT ![p] = [holat |-> "pending", tarif |-> r.tarif,
                                            sinov |-> r.sinov, obuna |-> 0]]
    /\ chek' = chek + 1
    /\ UNCHANGED <<vaqt, obuna, shakl, amal, vazifa, yurdi, keldi>>

(* ... and the form is closed after it, so a second photo of an album makes *)
(* a second payment.                                                        *)
ShaklYopiladi ==
    /\ chek > 0
    /\ chek' = chek - 1
    /\ shakl' = {}
    /\ UNCHANGED <<vaqt, baza, amal, vazifa, yurdi, keldi>>

-----------------------------------------------------------------------------
(* The admins. *)
Tugash(sinov) == vaqt + KUN * (IF sinov THEN Kunlik ELSE Oylik)

YangiObuna(o) == obuna[o].holat = "yoq" /\ \A k \in Oid : k < o => obuna[k].holat # "yoq"

(* SubscriptionRepository.create and the payment's new columns. *)
Tasdiqlash(p) ==
    \E o \in Oid :
        /\ YangiObuna(o)
        /\ obuna' = [obuna EXCEPT ![o] = [holat |-> "active", tarif |-> tolov[p].tarif,
                                          sinov |-> tolov[p].sinov, tugash |-> Tugash(tolov[p].sinov),
                                          eslatma |-> {}, tolov |-> p]]
        /\ tolov' = [tolov EXCEPT ![p].holat = "approved", ![p].obuna = o]

(* The bot's handlers read the payment: one that was reviewed is answered   *)
(* at once ...                                                              *)
AmalOqiydi(h, ish) ==
    /\ amal[h] = BoshAmal
    /\ \E p \in Tid : tolov[p].holat = "pending" /\ amal' = [amal EXCEPT ![h] = [ish |-> ish, tolov |-> p]]
    /\ UNCHANGED <<vaqt, baza, shakl, chek, vazifa, yurdi, keldi>>

(* ... and one that was pending is written, whatever became of it.          *)
TasdiqYozadi(h) ==
    /\ amal[h].ish = "tasdiq"
    /\ Tasdiqlash(amal[h].tolov)
    /\ amal' = [amal EXCEPT ![h] = BoshAmal]
    /\ UNCHANGED <<vaqt, shakl, chek, vazifa, yurdi, keldi>>

RadYozadi(h) ==
    /\ amal[h].ish = "rad"
    /\ tolov' = [tolov EXCEPT ![amal[h].tolov].holat = "rejected"]
    /\ amal' = [amal EXCEPT ![h] = BoshAmal]
    /\ UNCHANGED <<vaqt, obuna, shakl, chek, vazifa, yurdi, keldi>>

(* The session fails and is rolled back. *)
AmalXatosi(h) ==
    /\ amal[h] # BoshAmal
    /\ amal' = [amal EXCEPT ![h] = BoshAmal]
    /\ UNCHANGED <<vaqt, baza, shakl, chek, vazifa, yurdi, keldi>>

(* Mutant: without a transaction the second statement may be lost. *)
SaytYarim ==
    /\ amal[SAYT] = BoshAmal
    /\ \E p \in Tid :
          /\ tolov[p].holat = "pending"
          /\ \/ Tasdiqlash(p)
             \/ tolov' = [tolov EXCEPT ![p].holat = "approved"] /\ UNCHANGED obuna
    /\ UNCHANGED <<vaqt, shakl, chek, amal, vazifa, yurdi, keldi>>

(* tolovniTasdiqla: one transaction.  A commit of the bot since its BEGIN   *)
(* makes the INSERT fail.                                                   *)
SaytTasdiqlaydi ==
    /\ amal[SAYT] = BoshAmal
    /\ \E p \in Tid : tolov[p].holat = "pending" /\ Tasdiqlash(p)
    /\ UNCHANGED <<vaqt, shakl, chek, amal, vazifa, yurdi, keldi>>

(* active_for: of the highest tier; between equals the database's order     *)
(* decides.                                                                 *)
Faol == {o \in Oid : obuna[o].holat = "active" /\ obuna[o].tugash > vaqt}
Eng == {o \in Faol : \A k \in Faol : obuna[k].tarif <= obuna[o].tarif}

(* violation_apply. *)
Qoidabuzarlik ==
    /\ \E o \in Eng : obuna' = [obuna EXCEPT ![o].holat = "suspended"]
    /\ UNCHANGED <<vaqt, tolov, shakl, chek, amal, vazifa, yurdi, keldi>>

-----------------------------------------------------------------------------
(* The hourly task, _check_subscriptions. *)
Qolgan(o) == obuna[o].tugash - vaqt

(* Mutant: trials are left out, as they are of the reminders. *)
OylikMuddatiOtgan(o) == obuna[o].holat = "active" /\ ~obuna[o].sinov /\ obuna[o].tugash <= vaqt

MuddatiOtgan(o) == obuna[o].holat = "active" /\ obuna[o].tugash <= vaqt

(* expiring_soon and due_reminders: d whole days are left.                  *)
Yaqin(o) ==
    /\ obuna[o].holat = "active" /\ ~obuna[o].sinov
    /\ Qolgan(o) > 0
    /\ \E e \in Eslatmalar : Qolgan(o) <= KUN * e

(* Mutant: days are rounded up. *)
KunYaxlit(o, d) == KUN * (d - 1) < Qolgan(o) /\ Qolgan(o) <= KUN * d

KunQoldi(o, d) == KUN * d <= Qolgan(o) /\ Qolgan(o) < KUN * (d + 1)

Kerak(o, d) == Yaqin(o) /\ KunQoldi(o, d) /\ d \notin obuna[o].eslatma

(* One session: the overdue are closed, the due reminders are marked.       *)
VazifaYuradi ==
    /\ vazifa = {}
    /\ yurdi' = vaqt
    /\ obuna' = [o \in Oid |->
                    IF MuddatiOtgan(o) THEN [obuna[o] EXCEPT !.holat = "expired"]
                    ELSE [obuna[o] EXCEPT !.eslatma = @ \cup {d \in Eslatmalar : Kerak(o, d)}]]
    /\ vazifa' = {e \in Oid \X Eslatmalar : Kerak(e[1], e[2])}
    /\ UNCHANGED <<vaqt, tolov, shakl, chek, amal, keldi>>

(* Then each is sent, and a failure swallowed. *)
EslatmaYuboriladi ==
    /\ \E e \in vazifa :
          /\ vazifa' = vazifa \ {e}
          /\ keldi' \in {keldi, [keldi EXCEPT ![e[1]][e[2]] = @ + 1]}
    /\ UNCHANGED <<vaqt, baza, shakl, chek, amal, yurdi>>

(* The bot restarts: the forms, the handlers and the task are gone.         *)
Uzilish ==
    /\ shakl' = {}
    /\ chek' = 0
    /\ amal' = [h \in Korganlar |-> IF h = SAYT THEN amal[SAYT] ELSE BoshAmal]
    /\ vazifa' = {}
    /\ UNCHANGED <<vaqt, baza, yurdi, keldi>>

-----------------------------------------------------------------------------
Foydalanuvchi == RekvizitKorish \/ ChekKeldi \/ ShaklYopiladi

Admin ==
    \/ \E h \in Amallar : AmalOqiydi(h, "tasdiq")
    \/ \E h \in Korganlar : AmalOqiydi(h, "rad") \/ RadYozadi(h) \/ TasdiqYozadi(h) \/ AmalXatosi(h)
    \/ SaytTasdiqlaydi
    \/ Qoidabuzarlik

Next == Soat \/ Foydalanuvchi \/ Admin \/ VazifaYuradi \/ EslatmaYuboriladi \/ Uzilish

Spec == Init /\ [][Next]_vars

-----------------------------------------------------------------------------
(* The variables hold what the code can put there. *)
TypeOK ==
    /\ vaqt \in Nat /\ yurdi \in Nat
    /\ yurdi <= vaqt /\ vaqt <= yurdi + Oraliq
    /\ tolov \in [Tid -> [holat : {"yoq", "pending", "approved", "rejected"}, tarif : 0..TarifSoni,
                          sinov : BOOLEAN, obuna : 0..MaxObuna]]
    /\ obuna \in [Oid -> [holat : {"yoq", "active", "expired", "suspended"}, tarif : 0..TarifSoni,
                          sinov : BOOLEAN, tugash : Nat, eslatma : SUBSET Eslatmalar, tolov : 0..MaxTolov]]
    /\ shakl \subseteq [tarif : Tarif, sinov : BOOLEAN]
    /\ chek \in Nat
    /\ amal \in [Korganlar -> [ish : {"yoq", "tasdiq", "rad"}, tolov : 0..MaxTolov]]
    /\ \A h \in Korganlar : amal[h].ish # "yoq" => amal[h].tolov \in Tid
    /\ vazifa \subseteq Oid \X Eslatmalar
    /\ keldi \in [Oid -> [Eslatmalar -> Nat]]

(* Whoever approved and whatever raced with it, an approved payment has its *)
(* subscription, of the tier and the kind that was paid for.                *)
TasdiqObunali ==
    \A p \in Tid : tolov[p].holat = "approved" =>
        /\ tolov[p].obuna \in Oid
        /\ LET o == tolov[p].obuna
           IN  /\ obuna[o].holat # "yoq"
               /\ obuna[o].tolov = p
               /\ obuna[o].tarif = tolov[p].tarif /\ obuna[o].sinov = tolov[p].sinov

(* A subscription that has run out is closed by the next run of the task,   *)
(* whenever it was opened.                                                  *)
MuddatidaYopiladi == \A o \in Oid : obuna[o].holat = "active" => vaqt <= obuna[o].tugash + Oraliq

(* No reminder is sent twice, whatever dies in between: the mark is         *)
(* committed before the message goes out.                                   *)
EslatmaBirMarta == \A o \in Oid, d \in Eslatmalar : keldi[o][d] <= 1

(* A monthly subscription does not slip through a day it should be reminded *)
(* on, however the task's runs fall: it is marked before fewer than d days  *)
(* are left.  This holds for every day but the longest one.                 *)
Uzoq(d) == \A e \in Eslatmalar : e <= d
EslatmaOtmaydi ==
    \A o \in Oid, d \in Eslatmalar :
        (obuna[o].holat = "active" /\ ~obuna[o].sinov /\ ~Uzoq(d) /\ Qolgan(o) < KUN * d)
            => d \in obuna[o].eslatma

\* A reminder comes once, and none but the longest day's is missed.
EslatmaTogri == EslatmaBirMarta /\ EslatmaOtmaydi

(* One payment opens one subscription. *)
BirTolovBirObuna ==
    \A o, k \in Oid :
        (obuna[o].holat # "yoq" /\ obuna[k].holat # "yoq" /\ obuna[o].tolov = obuna[k].tolov) => o = k
=============================================================================
