------------------------------ MODULE Tarqatish ------------------------------
(***************************************************************************)
(* How a new signal reaches the subscribers.  A row of `signals` is made   *)
(* by the site or the four-hour cycle, which leave it unmarked for the     *)
(* bot's "web-signals" task (_pickup_web_signals, every minute), or by the *)
(* admin in Telegram, whose handler signal_send sends it itself (its form  *)
(* does not get that far at present: Formalar.NamoyishTasdiqqa).  Both     *)
(* senders are asyncio tasks of one process: they read the subscribers     *)
(* once, send message by message, and mark the row (broadcast_at) in a     *)
(* transaction of its own afterwards.  Each `async with session` block is  *)
(* one action, and so is each message.                                     *)
(*                                                                         *)
(* Before the messages of a row the task builds an EntryPlan.  Its call    *)
(* (scheduler.py:483) names a field, reference_price, that the class       *)
(* (models.py:411) does not have, and leaves four out that it requires:    *)
(* the call raises and the run is over.  That is rejaMos = FALSE, and what *)
(* the code does today; TRUE is the same code with a call that fits.       *)
(***************************************************************************)
EXTENDS Naturals, FiniteSets

CONSTANTS
    Odamlar,        \* the users
    Bosishlar,      \* the presses of "send" under one confirmation of the admin
    MaxSignal,      \* bound: how many signals are made
    MaxUzilish,     \* bound: how many times the bot restarts or a sender dies
    Chegara,        \* pending_broadcast's limit
    Rejalar         \* the calls of EntryPlan looked at: FALSE the one there is

ASSUME TarqatishFarazi ==
    /\ MaxSignal \in Nat
    /\ MaxUzilish \in Nat
    /\ Chegara \in Nat \ {0}
    /\ Rejalar \subseteq BOOLEAN

VARIABLES
    rejaMos,    \* does the call of EntryPlan fit the class
    qatorlar,   \* the status of each row, or that it does not exist
    belgi,      \* the rows whose broadcast_at is set
    obunachi,   \* the users a signal is for: active, subscribed, not blocked
    shakl,      \* is the admin's confirmation open (SignalFlow.waiting_confirm)
    bot,        \* the handlers of signal_send, one per press
    ishchi,     \* the task web-signals
    uzilish,    \* how often it or the bot has died
    keldi,      \* how many times each user was sent each signal
    urindi,     \* the users each signal was sent to, delivered or not
    doimiy,     \* the users who are subscribers ever since the row was made
    boldi       \* the users who were subscribers at some time since then

tvars == <<rejaMos, qatorlar, belgi, obunachi, shakl, bot, ishchi, uzilish, keldi, urindi, doimiy, boldi>>
kuzatuv == <<keldi, urindi>>
azolik == <<obunachi, doimiy, boldi>>

Id == 1..MaxSignal
OchiqQatorlar == {"pending", "active"}
Bor == OchiqQatorlar \cup {"yopiq"}
QatorHolati == Bor \cup {"yoq", "ochirilgan"}

BoshBot == [joy |-> "bosh", id |-> 0, qolgan |-> {}]
BoshIshchi == [joy |-> "bosh", navbat |-> {}, royxat |-> {}, qolgan |-> {}]

TarqInit ==
    /\ rejaMos \in Rejalar
    /\ qatorlar = [i \in Id |-> "yoq"]
    /\ belgi = {}
    /\ obunachi \in SUBSET Odamlar
    /\ shakl = (Bosishlar # {})
    /\ bot = [h \in Bosishlar |-> BoshBot]
    /\ ishchi = BoshIshchi
    /\ uzilish = 0
    /\ keldi = [i \in Id |-> [u \in Odamlar |-> 0]]
    /\ urindi = [i \in Id |-> {}]
    /\ doimiy = [i \in Id |-> {}]
    /\ boldi = [i \in Id |-> {}]

-----------------------------------------------------------------------------
(* Everyone else. *)

YangiId(i) == qatorlar[i] = "yoq" /\ \A j \in Id : j < i => qatorlar[j] # "yoq"

QatorYarat(i) ==
    /\ YangiId(i)
    /\ qatorlar' = [qatorlar EXCEPT ![i] = "pending"]
    /\ doimiy' = [doimiy EXCEPT ![i] = obunachi]
    /\ boldi' = [boldi EXCEPT ![i] = obunachi]

(* signalYarat of the site; the cycle's row is made the same way. *)
SaytYaratadi ==
    /\ \E i \in Id : QatorYarat(i)
    /\ UNCHANGED <<belgi, obunachi, shakl, bot, ishchi, uzilish, kuzatuv>>

(* The watcher opens and closes trades, the admin cancels them; a run of    *)
(* the watcher with an old snapshot opens a cancelled one again.            *)
HolatOzgaradi ==
    /\ \E i \in Id, h \in {"active", "yopiq"} :
          /\ qatorlar[i] \in Bor \ {h}
          /\ qatorlar' = [qatorlar EXCEPT ![i] = h]
    /\ UNCHANGED <<belgi, azolik, shakl, bot, ishchi, uzilish, kuzatuv>>

(* The site deletes the row. *)
SaytOchiradi ==
    /\ \E i \in Id : qatorlar[i] \in Bor /\ qatorlar' = [qatorlar EXCEPT ![i] = "ochirilgan"]
    /\ UNCHANGED <<belgi, azolik, shakl, bot, ishchi, uzilish, kuzatuv>>

ObunaOlindi(u) ==
    /\ u \notin obunachi
    /\ obunachi' = obunachi \cup {u}
    /\ boldi' = [i \in Id |-> IF qatorlar[i] = "yoq" THEN boldi[i] ELSE boldi[i] \cup {u}]
    /\ UNCHANGED <<qatorlar, belgi, doimiy, shakl, bot, ishchi, uzilish, kuzatuv>>

ObunaTugadi(u) ==
    /\ u \in obunachi
    /\ obunachi' = obunachi \ {u}
    /\ doimiy' = [i \in Id |-> doimiy[i] \ {u}]
    /\ UNCHANGED <<qatorlar, belgi, boldi, shakl, bot, ishchi, uzilish, kuzatuv>>

-----------------------------------------------------------------------------
(* Mutant: a message whose answer is late is sent again. *)
QaytaYubor(i, u) ==
    /\ urindi' = [urindi EXCEPT ![i] = @ \cup {u}]
    /\ keldi' \in {[keldi EXCEPT ![i][u] = @ + n] : n \in 0..2}

(* One turn of the loop of broadcast_signal: the message arrives, or the   *)
(* exception is swallowed.                                                 *)
Yubor(i, u) ==
    /\ urindi' = [urindi EXCEPT ![i] = @ \cup {u}]
    /\ keldi' \in {keldi, [keldi EXCEPT ![i][u] = @ + 1]}

(* mark_broadcast: nothing when the row is gone. *)
Belgilanadi(i) == belgi' = IF qatorlar[i] \in Bor THEN belgi \cup {i} ELSE belgi

(* signal_send.  The confirmation is closed (state.clear) only at the very *)
(* end, so a second press meanwhile starts a second handler.               *)
BotBoshlaydi(h) ==
    /\ shakl
    /\ bot[h].joy = "bosh"
    /\ \E i \in Id :
          /\ QatorYarat(i)
          /\ bot' = [bot EXCEPT ![h] = [joy |-> "yuborish", id |-> i, qolgan |-> obunachi]]
    /\ UNCHANGED <<belgi, obunachi, shakl, ishchi, uzilish, kuzatuv>>

BotYuboradi(h) ==
    /\ bot[h].joy = "yuborish"
    /\ \E u \in bot[h].qolgan :
          /\ Yubor(bot[h].id, u)
          /\ bot' = [bot EXCEPT ![h].qolgan = @ \ {u}]
    /\ UNCHANGED <<qatorlar, belgi, azolik, shakl, ishchi, uzilish>>

BotBelgilaydi(h) ==
    /\ bot[h].joy = "yuborish"
    /\ bot[h].qolgan = {}
    /\ Belgilanadi(bot[h].id)
    /\ bot' = [bot EXCEPT ![h].joy = "tamom"]
    /\ shakl' = FALSE
    /\ UNCHANGED <<qatorlar, azolik, ishchi, uzilish, kuzatuv>>

-----------------------------------------------------------------------------
(* _pickup_web_signals. *)
(* Mutant: what is no longer pending is forgotten. *)
FaqatPending == {i \in Id : qatorlar[i] = "pending" /\ i \notin belgi}

Kutayotgan == {i \in Id : qatorlar[i] \in OchiqQatorlar /\ i \notin belgi}

(* The first Chegara of them by created_at. *)
Navbat == {i \in Kutayotgan : Cardinality({j \in Kutayotgan : j < i}) < Chegara}

(* Mutant: subscribers of earlier runs are kept. *)
EskiRoyxat == obunachi \cup UNION {boldi[j] : j \in Id}

Royxat == obunachi

(* Mutant: the rows are marked as soon as they are read. *)
BelgilabOqiydi ==
    /\ ishchi.joy = "bosh"
    /\ Navbat # {}
    /\ ishchi' = [joy |-> "yuborish", navbat |-> Navbat, royxat |-> Royxat, qolgan |-> Royxat]
    /\ belgi' = belgi \cup Navbat
    /\ UNCHANGED <<qatorlar, azolik, shakl, bot, uzilish, kuzatuv>>

IshchiOqiydi ==
    /\ ishchi.joy = "bosh"
    /\ Navbat # {}
    /\ ishchi' = [joy |-> "yuborish", navbat |-> Navbat, royxat |-> Royxat, qolgan |-> Royxat]
    /\ UNCHANGED <<qatorlar, belgi, azolik, shakl, bot, uzilish, kuzatuv>>

Joriy(i) == i \in ishchi.navbat /\ \A j \in ishchi.navbat : i <= j

\* The plan of the next row is built before its first message: _repeat logs the
\* TypeError and starts anew in a minute.
RejaXatosi ==
    /\ ishchi.joy = "yuborish"
    /\ ~rejaMos
    /\ ishchi' = BoshIshchi
    /\ UNCHANGED <<qatorlar, belgi, azolik, shakl, bot, uzilish, kuzatuv>>

IshchiYuboradi ==
    /\ ishchi.joy = "yuborish"
    /\ rejaMos
    /\ \E i \in Id, u \in ishchi.qolgan :
          /\ Joriy(i)
          /\ Yubor(i, u)
          /\ ishchi' = [ishchi EXCEPT !.qolgan = @ \ {u}]
    /\ UNCHANGED <<qatorlar, belgi, azolik, shakl, bot, uzilish>>

IshchiBelgilaydi ==
    /\ ishchi.joy = "yuborish"
    /\ rejaMos
    /\ ishchi.qolgan = {}
    /\ \E i \in Id :
          /\ Joriy(i)
          /\ Belgilanadi(i)
          /\ ishchi' = IF ishchi.navbat = {i} THEN BoshIshchi
                       ELSE [ishchi EXCEPT !.navbat = @ \ {i}, !.qolgan = ishchi.royxat]
    /\ UNCHANGED <<qatorlar, azolik, shakl, bot, uzilish, kuzatuv>>

(* A session fails: _repeat logs it and tries again in a minute. *)
IshchiXatosi ==
    /\ uzilish < MaxUzilish
    /\ ishchi.joy = "yuborish"
    /\ ishchi' = BoshIshchi
    /\ uzilish' = uzilish + 1
    /\ UNCHANGED <<qatorlar, belgi, azolik, shakl, bot, kuzatuv>>

(* A session of the handler fails: the row stays unmarked and the           *)
(* confirmation open.                                                       *)
BotXatosi(h) ==
    /\ uzilish < MaxUzilish
    /\ bot[h].joy = "yuborish"
    /\ bot' = [bot EXCEPT ![h].joy = "tamom"]
    /\ uzilish' = uzilish + 1
    /\ UNCHANGED <<qatorlar, belgi, azolik, shakl, ishchi, kuzatuv>>

(* The bot restarts: tasks are gone, and so is the MemoryStorage with the  *)
(* confirmation.                                                           *)
BotUzildi ==
    /\ uzilish < MaxUzilish
    /\ ishchi' = BoshIshchi
    /\ bot' = [h \in Bosishlar |-> IF bot[h].joy = "bosh" THEN BoshBot
                                   ELSE [bot[h] EXCEPT !.joy = "tamom", !.qolgan = {}]]
    /\ shakl' = FALSE
    /\ uzilish' = uzilish + 1
    /\ UNCHANGED <<qatorlar, belgi, azolik, kuzatuv>>

-----------------------------------------------------------------------------
IshchiQadami == IshchiOqiydi \/ RejaXatosi \/ IshchiYuboradi \/ IshchiBelgilaydi

TarqNext ==
    /\ UNCHANGED rejaMos
    /\ \/ SaytYaratadi
       \/ HolatOzgaradi
       \/ SaytOchiradi
       \/ \E u \in Odamlar : ObunaOlindi(u) \/ ObunaTugadi(u)
       \/ \E h \in Bosishlar : BotBoshlaydi(h) \/ BotYuboradi(h) \/ BotBelgilaydi(h) \/ BotXatosi(h)
       \/ IshchiQadami
       \/ IshchiXatosi
       \/ BotUzildi

TarqSpec == TarqInit /\ [][TarqNext]_tvars
TarqAdolatliSpec == TarqSpec /\ WF_tvars(IshchiQadami /\ UNCHANGED rejaMos)

-----------------------------------------------------------------------------
(* The variables hold what the code can put there, a mark belongs to a row, *)
(* and the worker sends exactly while its queue is not empty.               *)
TarqTypeOK ==
    /\ qatorlar \in [Id -> QatorHolati]
    /\ belgi \subseteq Id
    /\ \A i \in belgi : qatorlar[i] # "yoq"
    /\ obunachi \subseteq Odamlar
    /\ shakl \in BOOLEAN
    /\ bot \in [Bosishlar -> [joy : {"bosh", "yuborish", "tamom"}, id : Id \cup {0}, qolgan : SUBSET Odamlar]]
    /\ ishchi \in [joy : {"bosh", "yuborish"}, navbat : SUBSET Id,
                   royxat : SUBSET Odamlar, qolgan : SUBSET Odamlar]
    /\ ishchi.qolgan \subseteq ishchi.royxat
    /\ ishchi.joy = "yuborish" <=> ishchi.navbat # {}
    /\ uzilish \in 0..MaxUzilish
    /\ keldi \in [Id -> [Odamlar -> Nat]]
    /\ urindi \in [Id -> SUBSET Odamlar]
    /\ doimiy \in [Id -> SUBSET Odamlar]
    /\ boldi \in [Id -> SUBSET Odamlar]

(* A marked signal was sent to everyone who has been a subscriber since it  *)
(* was made: whatever dies in between, nobody is skipped for good, because  *)
(* the mark is written last.                                                *)
BelgilanganUrindi == \A i \in belgi : doimiy[i] \subseteq urindi[i]

(* A signal is received by nobody who was no subscriber at any time since   *)
(* it was made: the list is read anew by every run, in the session that     *)
(* reads the queue.                                                         *)
BegonaOlmaydi ==
    \A i \in Id, u \in Odamlar : keldi[i][u] > 0 => u \in boldi[i]

(* What the mark bounds: a subscriber gets a signal once, once more for     *)
(* every time a sender died, and once more when the admin's handler and the *)
(* worker both send it.                                                     *)
Qolda(i) == \E h \in Bosishlar : bot[h].id = i
TakrorChegarasi ==
    \A i \in Id, u \in Odamlar :
        keldi[i][u] <= 1 + uzilish + (IF Qolda(i) THEN 1 ELSE 0)

(* With the call as it is nothing of the site or the cycle goes out: what was *)
(* sent or marked has been in the hands of the admin's handler.             *)
FaqatQolda == ~rejaMos => \A i \in Id : i \in belgi \/ urindi[i] # {} => Qolda(i)

(* An open signal does not stay unsent: it is marked, or it is closed or    *)
(* deleted first.  Of a task whose plans are refused this is not asked.     *)
OchiqBelgisiz(i) == qatorlar[i] \in OchiqQatorlar /\ i \notin belgi
Tarqatiladi == \A i \in Id : rejaMos /\ OchiqBelgisiz(i) ~> ~OchiqBelgisiz(i)

(* What scheduler.py:453 and web/src/lib/queries.ts:1153 promise: the bot   *)
(* finds the row the site made within a minute and sends it to the          *)
(* subscribers.                                                             *)
ObunachigaYetadi ==
    \A i \in Id, u \in Odamlar :
        OchiqBelgisiz(i) /\ u \in doimiy[i]
            ~> u \in urindi[i] \/ u \notin doimiy[i] \/ qatorlar[i] \notin OchiqQatorlar
=============================================================================
