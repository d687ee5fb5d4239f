# HCS Academy: specifications of the signal system

HCS Academy publishes spot-trading signals, follows each of them candle by
candle until it closes, sells subscriptions against receipts that an admin
confirms by hand, and watches the market for coins that are about to move. This
directory holds TLA+ models of the program, the TLC configurations that check
them on small instances, and TLAPS proofs of what holds for every instance.
Names follow the source: they are Uzbek where the code's are. Paths below are
relative to `src/`.

Contents: 1 the system, 2 the modules, 3 the runs, 4 the proofs, 5 where the
code and its texts disagree, and other facts found while modelling, 6 what is
not modelled and the plan.

## 1. The system

Three processes share one SQLite database in WAL mode; `scripts/start.sh`
brings the schema up and then starts and supervises them.

| process | code | how it runs |
|---|---|---|
| Telegram bot | `bot/`, `core/` | one asyncio process: aiogram serves updates concurrently, `bot/services/scheduler.py` keeps the periodic tasks |
| site | `web/` (Next.js) | one Node process: `node:sqlite` is synchronous, so one query function runs at a time |
| radar | `core/portlash_radari/` | one asyncio process with two slots before every four-hour candle, under a supervisor task of its own |

Periodic tasks of the bot: `subscriptions` (hourly), `web-signals` (every
minute), `web-videos` (5 min), `zanjir` (4 h), `kuzatuv` (5 min) and the watch
panel's `kuzatuv-skan`, `kuzatuv-sorov`, `kuzatuv-jonli`. `_repeat`
(`bot/services/scheduler.py:60`) runs a task again and again and survives every
exception of it; a task never overlaps itself, but different tasks, the admins'
handlers, the site and the radar interleave at every await.

Two facts about transactions decide what is atomic:

- In the bot (aiosqlite through SQLAlchemy) a SELECT opens no transaction; the
  BEGIN comes with the first write. What a handler read before its first write
  may be stale when it writes.
- On the site an explicit BEGIN pins the snapshot that was read; a commit of
  somebody else in between makes the first write fail (SQLITE_BUSY), so such a
  function is one step or nothing.

### Components, their state and what makes them correct

| component | state | operations | interacts with | hard part | correct when |
|---|---|---|---|---|---|
| Signal watcher `core/services/signal_kuzatuvchi.py` | the run's snapshot and `_Holat` | read open rows, fetch candles, apply the candle rules, write | rows of `signals` that the admin cancels and the site deletes | stale snapshot, replay of candles, a candle still forming, interrupted runs | the row tells only what the market did; time limits are kept |
| Signal repository `core/storage/repositories.py` | `signals`, `signal_events` | create, apply_event, cancel, delete, statistics | watcher, cycle, bot, site, radar's statistics | the same fact in two places (`tp1_reached`, the event log) | both agree; a closed row stays closed |
| Broadcast `bot/services/broadcast.py`, `_pickup_web_signals`, `signal_send` | `broadcast_at`, the task's and the handlers' lists | read queue and subscribers, send, mark | site and cycle leave rows unmarked | two senders, restart between sending and marking | nobody skipped, no stranger served, repetitions bounded, nothing left unsent |
| Signal cycle `core/services/zanjir_sikl.py` | open coins and last levels read at the start; `zanjir_holatlari` | for each coin: skip, refuse, ask the AI, make a signal; write all coins' states | watcher, admin, site change the rows meanwhile | one look, then minutes of awaits | no second signal in an open coin, no repetition of a closed one, one coin's error hides no other |
| Payments and subscriptions `bot/handlers/payments.py`, `core/services/subscription.py`, `web/src/lib/queries.ts` | `payments`, `subscriptions`, the user's form | ask, send a receipt, approve, reject, suspend, expire, remind | several admins, bot and site at once; hourly task | check and write apart; marks before messages | an approved payment has its subscription; what ran out is closed; a reminder comes once |
| Explosion radar `core/portlash_radari/` | `radar_*` tables, the worker's memory | two slots a candle, manual run, volume cache, grading | site reads, admin requests | crash, failed session, failed write in the middle of a slot | a slot runs once and is seen; nothing stays "running"; streaks and confirmations are true |
| A session of the radar `sessiya.py`, `manba.py`, `tekshiruvlar.py`, `tartib.py` | its local variables and its journal of the sources | ask, sieve, ask coin by coin, check, place, write | exchange, CoinGecko, `radar_natijalar` | any request may fail or answer with another shape | what is not known is neither plus nor minus; places go by checks; a candidate of A is looked at again in B |
| Watch panel `core/watch_panel/`, scheduler | Top list, live rows, request flag, the stream's list | scan, live refresh, search | admin's request beside the timer | two scans at once, awaits between read and write | the screen shows one scan, and comes right |
| Positions `bot/handlers/portfolio.py`, `queries.ts` | `user_positions`, the amount form | ask an amount, save | the watcher moves the signal, the admin deletes it | asked and written in two messages | one position per user and signal, entered at the signal's price |
| Video lessons | `content`, files, upload queue | upload, replace, send, delete | site and bot | a file replaced while it is sent | the row's file is on the disk; the copy sent is of a file of this lesson |
| Homepage posts `web/src/lib/avtomatik-post.ts` | `homepage_posts` | make from events, delete | site | idempotence by source, ids given again | one post per news, only of what subscribers heard |
| Dialogs of the bot `bot/handlers/` | aiogram's FSM state and data, in memory | open a form, answer, save, cancel, go home | routers, restarts, old keyboards | handlers of one person overlap | an open form has what its next handler reads; admins' forms are admins' |
| Schema and migrations `core/storage/`, `migrations/` | tables, `alembic_version` | upgrade, downgrade, `init_models` | start script, bare start | a death in the middle, two ways up | what runs finds its tables; the version is honest; nothing is dropped |
| Analysis blocks, levels `core/analysis/`, `core/position/` | none; a chart whose last candle forms | swings, breaks, zones, levels | cycle, panel | a forming candle read with closed ones | what closed candles said is not taken back; levels stand in order |
| Chain of blocks `core/analysis/` | none | four blocks, five walkers | cycle, panel, research scripts | several readings of one set of checks, of which one check is asked in the walker's own zone | which walker is the stricter is known, and where not |
| Backtest `core/backtest/` | the trades of a replay, places taken | look at every coin, move trades, give places | chain, exit rules | rules of the watcher written a second time; gaps | measures what the watcher would have done; loses no trade |
| Configuration `core/config/`, `portlash_radari/sozlama.py` | the file, the rows of `radar_sozlamalar` | load, validate, lay the admin's rows over it | every process, the site's own tables of the limits | written twice, in Python and in TypeScript | a whole configuration or none; both sides see the same limits |
| Container `scripts/start.sh`, `scripts/seed.py` | three processes, `price_config`, `coin_rulings` | upgrade, seed, start, start again, deploy | everything above | restarts, deployments with a changed file | one database for all; what an admin decided stays |
| Risk budget `core/position_sizing/` | daily and per-strategy budgets | grant, release, size | sizer, research account | order of grants and releases, rounding | granted is what is at stake and never exceeds the limit |

`PROJECT.json` lists all components with their files, status and reason, and
the hazards of each at their lines.

## 2. Modules

| module | models | checked by |
|---|---|---|
| `ShamQoidalari` | `_sham_qadami`: how one candle moves one signal | (operators used by the next) |
| `SignalKuzatuvchi` | the watcher, the row, the admin's cancellation, the site's deletion, the market | `sikl_kuzatuv`, `signal_hayoti`, `bekor_qaytadi`, `breakeven` |
| `SignalHayoti` | abstract: the life of a row of `signals` as its readers see it | as `HayotSpec` in `sikl_kuzatuv` |
| `Tarqatish`, `MCHayot` | the two senders of a new signal and the mark | `signal_hayoti`, `tarqatilmaydi` |
| `Kartochka` | what a subscriber and an admin see of signals and press on; what a trade comes to | `sikl_kuzatuv` |
| `ZanjirSikl`, `MCSignal` | the four-hour cycle beside every other writer of `signals` | `sikl_kuzatuv` |
| `ObunaTolov`, `MCObunaTolov` | payments, subscriptions, the hourly task | `sayt_bot`, `bir_tolov` |
| `RadarVaqt`, `RadarIshchi`, `MCRadar` | the radar's timetable; its worker | `radar` |
| `RadarTartib`, `RadarTekshiruv`, `RadarManba`, `RadarSessiya`, `RadarAmalga` | sieve, places and streaks; the seven checks; the sources' answers and their journal; one session of the radar from inside; that it does what `RadarIshchi` allows | `radar` |
| `KuzatuvPaneli`, `Qidiruv` | the watch panel's tasks; the daily search | `sikl_kuzatuv`, `signal_hayoti` |
| `Pozitsiya`, `Postlar`, `Darslar`, `MCSaytBot` | positions, homepage posts, lesson videos: rows that bot and site both write | `sayt_bot` |
| `Formalar` | the bot's dialogs with one person | `sayt_bot`, `qolda_signal` |
| `Sxema`, `Modellar`, `Migratsiyalar`, `SxemaYoli` | operations on a schema; the 31 ORM tables; the 27 revisions; how a database is brought up | `sayt_bot` |
| `Sozlama`, `Konteyner`, `MCKonteyner` | the configuration and what it must be; the container: address of the database, seed, supervisors, and the rows an admin sets | `sayt_bot`, `narx` |
| `Grafik`, `Bloklar`, `RiskByudjeti`, `Sinov`, `MCTahlil` | the chart's reader and the levels; the walkers of the block chain; the budgets; the replay over past candles | `tahlil`, `byudjet` |
| `*Isboti` (eight modules) | proofs, section 4 | |

`EXTENDS` carries the composition: `Postlar` and `Pozitsiya` share the table
`signals` (deletion and the reuse of ids in one are those of the other),
`Qidiruv` reads the list that `KuzatuvPaneli` writes, `RadarIshchi` runs the
timetable of `RadarVaqt`, `SxemaYoli` runs the revisions of `Migratsiyalar`
against the tables of `Modellar`, and `SignalKuzatuvchi` applies the rules of
`ShamQoidalari`. Components that share no row are composed side by side in an
MC module as *scenes*: a variable `sahna` picks one at the start, its actions
run and the others' variables stand still. Interleaving parts that share nothing
would multiply the states and show nothing more.

A definition whose comment begins with "Mutant" is no part of a model: it is a
plausible mistake in the definition that follows it, and the property named for
it in `PROJECT.json` fails when it takes that definition's place.

### SignalKuzatuvchi and ShamQoidalari

`yozuv` is one row of `signals`, `hodisalar` the kinds of its `signal_events`,
`nusxa` the row as `yur` read it, `holat` the `_Holat` of `_bitta_signal`,
`kursor` the candle of its loop. `bozor` is the market: the 15-minute candles
since the signal was created, the last of which is still forming and may widen
(`ShamOsadi`), because the exchange serves it before it closes. A candle is its
low (at the stop, at the entry, above) and the number of targets its high
reaches: all that the rules compare. Whether the close price was the stop, the
entry, a target or "the market" is kept; the percentage is kept as which of
the two formulas made it (`natija`).

A run is `Oqish` (the session that reads the rows), `Yuklash` (the candles have
come, `_Holat` is built with its stop, `_shamlar`'s window of `Oyna` candles is
cut), one `Sham...` action per candle, and `Yozish` (`_yoz`, a session of its
own, by id). The loop over the candles has no await, so nobody moves while
`pc = "sham"`. `Uzilish` is a failed fetch or write, which `yur` catches, or a
restart: what was read is lost, what was written is not. The other signals that
a run serves are, for one signal, only the delay between `Oqish` and `Yuklash`.
`Tanaffus` bounds how many candles may open between two completed runs. It is
at most the five-minute interval in the code, unless runs fail.

The status that `closed_since` and the statistics count from events is
`hodisalar`; `tp1_reached` and `reached_tps` are columns. `SignalOchir` removes
both, as the site does.

### Tarqatish

`holat` is what a row has become, `belgi` the rows with `broadcast_at`,
`obunachi` who is a subscriber now. `bot[h]` is a handler `signal_send` per
press of the button, `ishchi` the task `web-signals`; both hold the lists they
read in their first session, send one message per step (delivered or
swallowed) and mark in a session of their own. `shakl` is the confirmation of
the admin, which `signal_send` closes only at its very end. `IshchiXatosi` and
`BotXatosi` are a session that fails, `Uzilish` a restart. `keldi` and `urindi`
count what was delivered and tried; `doimiy` and `boldi` are history
variables: who has been a subscriber ever since the row was made, and who at
some time.

Before the messages of a row the task builds an `EntryPlan`, and its call
(`bot/services/scheduler.py:483`) does not fit the class: it raises, the run is
over and the row stays unmarked. `rejaMos = FALSE` is this code (`RejaXatosi`);
`rejaMos = TRUE` is the same code with a call that fits, kept so that what the
rest of the task does can be told at all. `signal_send` cannot be reached at
this commit either (run `qolda_signal`), so today no signal is sent to anybody
(`tarqatilmaydi`); what holds with the handler and without it holds here, for
its button may simply never be pressed.

### Kartochka

The same rows as people see them. `kqatorlar` is the table, `ktarix` the levels
of every signal ever made; `kxabarlar` are the cards the broadcast has sent,
`kekran` is a subscriber's screen (the list, or a card), `kadmin` an admin's
(the list, or the question whether to cancel). A screen is what it was when it
was drawn; its buttons carry ids (`Tugmalar`), rows move on, are deleted, and an
id may be given again (`kqaytgan` remembers which were free once). Opening a card
is two steps, since the price is awaited (`ksorov`). Beside the people act the
watcher, the site and the cycle. A run of the watcher reads every open row in
one session (`KuzatuvchiOqiydi`, into `knusxa`) and then serves them one by one:
`KuzatuvchiYozadi` makes any event it may report of the row *as it was read*, at
that row's levels, and writes it by id to whatever has the id by then, also to a
row cancelled meanwhile; a row that is gone is left alone. `begona` marks a row
that was written to with what was found of another signal. A result is counted in
hundredths of the entry price, which makes the weighted mean of
`blended_result_pct` exact.

### ZanjirSikl

`qator` is the table; `ochiq`, `oxirgi` and `boshi` are what `yur` reads in its
first session, `navbat` the coins it has not come to, `joriy` the coin the AI
is asked about, `natija` its list of outcomes, `ekran` the coins with a row in
`zanjir_holatlari`. What the analysis says is a choice among the outcomes that
`_bitta_coin` can return; a zone stands for levels up to `_bir_xil_daraja`.
The watcher, the admins and the site act at any time; `"qayta"` is a row that
was closed and opened again by a run of the watcher with an old snapshot (see
section 5). `Uzilish` is a restart anywhere in the run.

### ObunaTolov

One user; no operation reads the rows of two. `shakl` is the form
(`PaymentFlow.waiting_receipt` with its tier and period), `chek` the receipts
whose handlers have made the payment but not yet closed the form: an album of
photos is several of them. `amal[h]` is an admin's handler in the bot that has
read a pending payment and not yet written; `SAYT` is the site, whose approval
is one transaction and whose rejection is two statements. `vazifa` is what the
hourly task has marked and not yet sent. `vaqt` counts moments, `KUN` of them a
day; the task is never late by more than `Oraliq` moments, committed runs
counted. Its reads and writes are one step: what a suspension by an admin in
that instant could change is the row's status only.

### RadarVaqt and RadarIshchi

`RadarVaqt` is `vaqt.py` as arithmetic on instants: which sessions (A
"kashfiyot", B "tasdiq") belong to a candle, when they fall due and how late
they may start, which are due now and in which order. `VaqtFarazi` is what
`radar_muammolari` demands of the settings before the process starts.

`RadarIshchi` is the worker. `sessiyalar` is `radar_sessiyalar` with its
results, `sorov` and `hajm` are the request flag and the mark of the volume
cache in `radar_holati`, `ish` the memory of the process: where its loop stands,
the due sessions not yet looked at, the row it runs, the hours of the last
refresh and grading. A pass is `QadamBoshi` (flag and mark read), `Hajm...`
(the refresh, complete, partial or failed), one `SlotBor`/`SessiyaBoshlanadi`
per due slot, the requested session, the day's refresh, the grading. A session
is two steps, as in the code: its row is committed, then results and end in one
transaction (`SessiyaTugaydi`), or a failure (`SessiyaYiqiladi`), or a failure
whose closing write fails too (`SessiyaYopilmaydi`). `Uziladi` is a death of the
process at any step; `Boshlanadi` closes what the dead life left running.
Of a session's results a coin keeps why it has a row (pool, sample, or left its
place), whether it is a candidate, its state, its streak and its grade; what the
market shows of it is a choice (`Bozor`).

### RadarTartib, RadarTekshiruv, RadarManba and RadarSessiya

What `RadarIshchi` takes as a choice is opened here. `RadarManba` reads rows out
of the answers (`Son`, `Musbat`: a value may be a number, a truth value or
broken), `RadarTekshiruv` has the seven checks, each of them yes, no or "no
data", `RadarTartib` the sieve, the order of places and the streak.
`RadarSessiya` is `_hisobla`: an action for every await, in the code's order,
with `ses` its local variables and `jurnal` its `ManbaJurnali`. A request may
bring nothing, a refusal or a body of another shape, up to `MaxNosoz` times; the
requests that `gather` sends coin by coin fail in any subset. Numbers are small
integers, ratios pairs of them. `BirjaTuri` and `BazaTuri` say what the exchange
and the database may hold; `SessiyaInit` starts from any of it, the run from a
few markets. `qoshni` is whether the last session of the kind was in the
neighbouring slot, which is what a streak asks. `SessiyaAmalga` (`RadarAmalga`)
says that the rows of a session are rows that `RadarIshchi` may choose: `Keng` is
`RadarIshchi` with the sessions the database would hold (`KengSessiyalar`).

### KuzatuvPaneli and Qidiruv

Two tasks may scan: `_kuzatuv_skani` by the clock and `_kuzatuv_sorovi` when it
sees the admin's flag; `vazifa[t]` is where each stands. A scan is four
sessions: the status (`SkanBoshlanadi`), all rows (`SkanYozadi`), the end
and, without an await, the stream's list (`SkanTugaydi`), and the live rows of
coins that left (`JonliOchiriladi`); `SkanUziladi` is a session that fails.
`jonli` is the task that copies the stream's sums: the coins are those of the
stream when it read, written after awaits. `oqim` is memory: a restart empties
it. `Qidiruv` adds the user's day: a search counts only when the coin is found
in the Top list and the tier still allows one.

### Pozitsiya, Postlar and Darslar

`signallar` and `pozitsiyalar` are tables; `formalar` is the bot's memory of
whom it has asked an amount, with the signal and the price it had then;
`saqlash` are `save_position` calls under way, two messages of one user overlap.
The bot's insert meets the database's two guards (`Qabul`); the site's button
reads and writes in one step. Ids are rowids: the highest id, once deleted, is
given again (`YangiId`), so a form may outlive its signal and meet another.

`Postlar` makes posts about broadcast signals when the home page is opened: one
per event of a signal, of the last days, the lowest ids first, a few per
opening. The admin deletes posts, and signals under them.

`Darslar`: `yuklash` are uploads under way on the site (a file written, then the
row, then the old file removed), `navbat` the list the bot's timer read,
`javob` the answer of Telegram that it has not stored yet. Restarts of the site
and of the bot are separate steps.

### Formalar

`forma` is the FSM state of one person, `maydonlar` the keys of the data beside
it, `vazifalar` the handlers waiting for the database or for Telegram. A message
is two steps: the filter finds the state (`XabarKeladi`), `UserContextMiddleware`
awaits the database (`bot/main.py:44`, `bot/middlewares.py:57`), and the handler
runs in whatever state there is by then (`JavobOladi`, `Saqlaydi`, ...), so a
menu or a late save may clear the form between the two. `yirtiq` remembers that
since the last clear an answer from before a clear has gone on with its form. The
handlers are records: a `Savol` is a button (its state, the keys it writes,
whose it is), a `Javob` a message in a state, a `Yakun` the message that ends a
form and the keys it reads. Buttons that set the state first are one step
(`Sorab`); those that read the database first are two (`KechSavollar`), and the
form opens over whatever was opened meanwhile. `Saqlaydi` and `Saqlandi` are the
last handler before and after its write: `state.clear()` closes whatever is open
by then. `FQayta` is a restart: forms are gone, keyboards in the chat are not.

### Sxema, Modellar, Migratsiyalar and SxemaYoli

`Sxema` defines a schema (tables to columns, indexes, unique constraints,
foreign keys) and the operations of Alembic on it. Of a column only what the
database enforces is kept: may it be NULL, does the server fill it in. `Modellar`
is `core/storage/models.py` in these terms, `Migratsiyalar` the 27 revisions,
each the list of its operations up and down in their order. `SxemaYoli` runs
them: `sxema` is the file, `versiya` the recorded revision, `ish` who is at
work (alembic, downgrade, seed, bot), `qoldi` the operations left. Each
operation is a step, as SQLite commits each; `Uziladi` may come between two.
`init_models` is drop, create, add columns and stamp, each a step.

### Sozlama and Konteyner

A file (`Hujjatlar`) is the shipped `default.yaml` with a set of edits: a key of a
section gets another value or goes. `load_config` is what the loader and
`validate` refuse, `radar_muammolari` what the radar refuses on its own,
`chegaralar_qur` and `samarali` the limits of a session as Python and as the
site compute them from the file and from `radar_sozlamalar`. `Konteyner` is
`start.sh`: `jarayon` says how far the start has come and which of the processes
run, `muhit` is the environment (Railway, a volume, an address given by hand).
`Joylashtiriladi` is a deployment with another file; without a volume it empties
the database. Admins write prices, rulings and limits from the bot or from the
site (`narxSaqla`, `qarorSaqla`, `sozlamaSaqla`, ...); `QoldaYozadi` is the table
written by hand, past every check.

### Grafik, Bloklar and RiskByudjeti

`Grafik`: `shamlar` are all candles so far, `bosh` the first that the exchange
still returns. A step moves the price inside the forming candle (`NarxYurdi`) or
closes it (`ShamYopildi`). Everything else is read anew from the window at every
step, as the code does: swings, breaks of structure, direction, zones and what
is laid over them, sweeps, the alternatives' zones, and from the zone the entry,
the stop, the targets or a refusal (`darajalar_qur`). Prices are whole numbers,
zones and levels thousandths of one, so the percentages are exact.

`Bloklar`: a block is the number of its checks that say yes and no, a hard stop
and the least strength asked. Four walkers go through the four blocks side by
side on the same candles: the strategy's rule, the rule of two, the alternative
chain the bot signals by, and the same with one check or one alternative switched
off. Their checks are the same but for `pastki_tf` of the fourth block, which asks
for a confirmation on the lower timeframe inside the walker's own zone (`zona`):
that of the alternative that saved its third block (`zona_bilan`), else the one
`zona_blok` found; in which zones there is one (`tasdiqli`) is a choice. The watch
panel's walker reads other timeframes, another window and fundamentals of its own
(`core/watch_panel/coin_scanner.py`), so it walks alone (`oquvchi`). (TLA+ leaves open which arm of a CASE is taken
when several guards hold; the arms of all CASEs here exclude one another, as the
code's `elif`s do.)

`RiskByudjeti`: `byudjet` is the day's `DailyRiskBudget`, `strategiya` what a
strategy holds of it, `ochiq` the open trades of the account that replays them,
`kunXavfi` what today's trades would lose if all are stopped. `SavdoOchildi`
makes a new day's budget while older trades are open, as the account does.
`ObunachiKirdi` is the size a subscriber is shown: measured on a new budget
every time. Money is whole.

### Sinov

A step (`Qadam`) is one moment of the timeline: each coin shows its last candle
opened by then (`Korinadi`), open trades move by it (`_yangila`), then the
candidates get places (`_joylashtir`), the strongest first. `OynaTugaydi` ends the
window. Which coins are candidates is a choice. The loop over the sorted
candidates is the recursive function `Navbatlar`, one turn (`Navbat`) at a time.
`guvohi` is a witness: the
watcher's rules, taken from `ShamQoidalari`, applied to the same candles in one
run that began at the signal.

## 3. Runs

### What must hold

`sikl_kuzatuv` — six scenes over the rows of `signals` and the screens, 2.4
million states. The watcher: 2 targets, time limits 3 and 2 candles, window 3,
gap 2, 4 candles; the admin may cancel, and the site delete, at any moment of a
run. The cycle: 2 coins, 2 zones, 3 rows, all writers. The cards of a subscriber,
then those of an admin, each beside the watcher: 2 ids, 2 signals, 2 cards being
opened. The watch panel: 2 coins, lists of one place each, one press, one fault;
the search: 3 tiers, 2 days. Coins and zones are interchangeable (symmetry).

- `NatijaBozordan`: open, stopped, timed out or won only with a fill, targets
  only if met after the fill, a stop at the entry only after TP1.
- `BekorHaqiqiy`: a filled limit is never cancelled as "reached TP1 unfilled".
- `SavdoIzchil`: no completed run leaves a trade past its limit
  (`MuddatOtmagan`), and event log and column agree on TP1 (`Tp1IkkiManba`).
- `HayotSpec`: the watched row implements `SignalHayoti` (the refinement), whenever
  it is cancelled: what the watcher closed stays closed, and a cancelled row is
  moved on by the one run that had read it before, forward from what it had read.
- `ZanjirBitta`: a signal of the cycle that has been open ever since has no
  younger one of the cycle in its coin.
- `TakrorEmas`: two consecutive signals of the cycle in a coin differ in level.
- `YurishButun`: the report is what was written (`HisobotTogri`), and one coin's
  failure hides no other (`EkranButun`).
- `KartochkaRost`: a card, however late it is drawn, shows the levels of one
  signal, its buttons are that signal's unless the id was given again, and none
  is opened from a list for a signal one can no longer enter (`KartaButun`); the
  admin cancels the signal he was asked about and the watcher writes to the signal
  it has read, unless the id was given again (`OziniOzgartiradi`); a closed trade
  lost no more than its stop and won no more than its last target, and a TP1 that
  was recorded counts, also in a row whose cancellation was overwritten
  (`NatijaOraligi`). A TP1 met in the run that also closes the trade is not
  recorded and not counted (section 5): no property here excludes it.
- `RoyxatButun`: the watch panel's screen shows the lists of one scan
  (`RoyxatBirSkandan`), its "running" is true or broke off (`YurmoqdaRost`), one
  scan per press.
- `BugunChegarada`: no more coins are shown on a day than the highest tier held
  on it allows, and a refusal is not charged.

`signal_hayoti` — what must happen in the end: three scenes under fairness, 0.19
million states. The watcher with cancellations at any time: 4 candles, limits 2
and 1, window 2, gap 1. The broadcast: one user, one press of the
admin, 2 rows, 1 failure, a queue limit of 1, with a plan that fits and one that
does not. The watch panel: one coin, one press, one fault.

- `SavdoYopiladi`: an open trade is closed in the end.
- `BelgilanganUrindi`: what is marked was sent to everyone subscribed since it
  was made. `BegonaOlmaydi`: nobody else gets it.
- `TakrorChegarasi`: repetitions are bounded by failures and by the admin's own
  sending.
- `Tarqatiladi`: with a plan that fits no open row stays unmarked (liveness).
- `EkranTiklanadi`, `SorovOlingan` (liveness): the panel's stream comes back to the
  list on the screen and rows that nothing feeds go; a request is taken.

`radar` — six scenes, 0.40 million states. Five of the worker on a timetable of
four instants a candle:
`zanjir` (three candles, every result of every session), `uzilish` (two candles,
a crash and a failed write), `sorov` (one candle, requests), `hajm` (the volume
cache and its faults), `baho` (the grading and its faults). One coin: sessions
treat coins alike but for the places, which are a choice. And `bozor`, one
session over small markets of three symbols, with one failed request:
a few coins that pass everything, nothing or one thing, each with one answer
missing, zero, broken or of another project.

- `SlotlarTogri`: whatever crashes or fails, a slot has one row at most
  (`SlotBirMarta`) and every slot that was due when the timetable was read has
  one once the pass is past it (`SlotOlinadi`); a press of the button makes one
  session at most (`SorovBirMarta`).
- `KorinishTogri`: the streak written is the number of consecutive candles
  (`KetmaTogri`), "confirmed" needs two finished sessions (`TasdiqIkkiKorik`), a
  coin that held a place is seen leaving (`ChiqdiKorinadi`), what shows as
  running runs (`YurmoqdaRost`), a result is closed empty only for a coin the
  exchange dropped (`BahoBoshRost`).
- `SessiyaTogri`: every candidate of A has its row in B (`QaytaQaraldi`), places
  are 1, 2, ... by checks and then by confirmation (`OrinTogri`), a silent source
  never adds a check and takes nobody out of the pool (`BilmaslikJim`), the journal
  says what happened (`JurnalRost`), and the session does what the worker's model
  lets it do (`SessiyaAmalga`).
- `HajmOraligi`: refreshes of one life are apart, whatever became of them.
- `YurmoqdaYopiladi`, `SorovOlinadi` (liveness): a running row is closed, a
  request taken.

`sayt_bot` — seven scenes; 2.2 million states.

- `PozitsiyaButun`: no position without its signal, one per user and signal, at
  the signal's price, unless its id was given again under an open form.
- `PostButun`: one post per source, only of news that were broadcast, none told
  late.
- `DarsButun`: the file a row names is on the disk at every moment, the copy sent
  is of a file of this lesson, sent once in a life of the bot.
- `TasdiqObunali`: an approved payment has its own subscription of the tier and
  kind paid for. `MuddatidaYopiladi`: what ran out is closed by the next run of
  the task. `EslatmaTogri`: a reminder is sent at most once, and none but the
  longest day's is missed.
- `SxemaButun`: the running program finds every table and column
  (`KodTopadi`), a container runs on exactly the models' schema
  (`KonteynerToliq`), the recorded version is honest (`VersiyaRost`).
- `DialogButun`: an open form has every key that its next handlers read, unless an
  answer that was on its way when its form was cleared has gone on with it
  (`FormaButun`; section 5); nobody but an admin is in an admin's form (`AdminFormasi`).
- `KonteynerButun`: nothing in the radar's section stops the bot or the site as
  long as its keys are known (`RadarYolgiz`), the windows of A and B are apart
  (`OynalarAjralgan`), a session's limits are in their ranges and those the site
  shows (`ChegaraOraliqda`), the radar calls halal only what an admin or the
  checked list does (`RadarHalol`), a ruling of an admin stays (`QarorSaqlanadi`),
  all processes open one database (`BazaBir`), the warning of temporary data is
  true (`OgohlantirishRost`).
- `MalumotSaqlanadi`: outside a downgrade no table or column of the models is
  dropped.

`tahlil` — five scenes: ten charts with two or three further candles, the
counts of votes of four blocks with the zones they are confirmed in, budgets of 100 and 101 over two days, a
subscriber's sizes, a replay of two coins over four moments.

- `TuzilmaTogri`: no candle breaks the structure both ways (`BirShamBirBuzilish`),
  no crossing is read before its swing is known (`KesishTasdiqdanKeyin`).
- `DarajalarTogri`: the zone is not empty and lies in the impulse it corrects,
  levels stand in order, the stop is under the liquidity, the parts sold add up.
- `QarorBarqaror`: what closed candles said is not taken back (`SwinglarQotgan`,
  `YonalishSakramaydi`, `SweepSaqlanadi`).
- `YuruvchilarTogri`: the alternative chain is weaker than the rule of two and
  stricter than the strategy's, but for a coin of unknown fundamentals whose
  alternative zone is confirmed while the zone found is not (`AltOraliqda`); the
  panel's walker never breaks off (`KuzatuvUzilmaydi`); switching a failed check
  off costs no candidate whose zone stays the same (`AblatsiyaHalol`), a candidate has two fifths of the votes after the first
  block (`IshonchPoli`), the last block's free vote (`TasdiqBepulOvoz`).
- `ByudjetTogri`: the ledger agrees with those it lends to (`HisobTeng`), all
  stops together stay within the day's limit (`KunlikLimit`), a strategy within
  its share (`UlushChegarasi`). `QarzsizOchiladi`: over any number of days no
  trade opens on borrowed money.
- `SinovTogri`: the replay has a trade where the watcher would have it, with the
  same stop, targets and closing price (`KuzatuvchiKabi`; gaps and time limits
  excepted, section 5); every trade that got a place is counted once
  (`HisobotButun`); places go by strength, within the limits, and none is left
  empty (`SigimTogri`).

The type invariants of `SignalKuzatuvchi`, `Tarqatish`, `ZanjirSikl` and
`ObunaTolov`, and `FaqatQolda` of `Tarqatish`, are proved (section 4) and not run; the other modules' are a part
of the first property named for each. Deadlock is checked in
`sikl_kuzatuv` (where a watched row that is over, and the panel, may rest); the others stop
where a bound ends the market, the rows or the
events, which says nothing about the program.

### What a text of the repository says and the code does not do

Each of these runs ends with a counterexample; `PROJECT.json` quotes the text
under "findings".

| run | property | what happens |
|---|---|---|
| `bekor_qaytadi` | `BekorQaytmaydi` | A run of the watcher that had read the row writes by id over the admin's cancellation: the signal is open again, or closed at another price, though the admin was told that it cannot be undone |
| `breakeven` | `BreakevenHaqiqiy` | A run replays every candle since the fill with the stop already at the entry, so the candle that filled the limit stops the trade; the backtest, said to have the same rules, applies a candle once |
| `tarqatilmaydi` | `ObunachigaYetadi` | The task that is to send a new row within a minute calls `EntryPlan` with a field it does not have and without four it requires: every run ends in a TypeError before the first message |
| `bir_tolov` | `BirTolovBirObuna` | Two handlers read one payment as pending; both open a subscription |
| `qolda_signal` | `NamoyishTasdiqqa` | The preview of a manual signal reads a settings block that no longer exists and raises: its confirmation is never reached |
| `byudjet` | `KirganlarLimitda` | Every size is measured on a whole budget: a day's signals together lose more than the day's limit |
| `narx` | `NarxAdminniki` | The seed, which every start runs, writes its price over the one the admin set |

### Bounds, and why they are enough

- `MaxSham = 4` with a window of 3 and limits of 3 and 2 lets a candle leave
  the window, the limit fill, TP1 come and the time run out in one behaviour,
  and a run be late or interrupted in between. `TPSoni = 2` is the least with a
  partial close. For liveness `signal_hayoti` has limits of 2 and 1, a window of
  2 and a gap of 1: in four candles a trade is still filled, partly sold and timed
  out, each in a candle of its own, and a candle leaves the window.
- One user in `signal_hayoti`: the senders treat every subscriber alike and only
  the set of those not yet served ties them together; what happens to a user
  is what happens in the instance with that user alone, the other messages
  being stutter. Two rows and a queue limit of one make a row wait behind
  another; one press beside the task makes two senders, of which either may die; the
  safety properties are proved for any number of presses. In `tarqatilmaydi`
  nobody presses: its rows are the site's and the cycle's.
- Three rows over two coins in `sikl_kuzatuv`: a signal of the cycle, one made
  by hand meanwhile and the cycle's next; coins and zones are interchangeable.
- Two ids and two signals in `Kartochka`: the second signal has an id of its own
  or, when the first was deleted, the first's, under screens that still name it.
  The levels typed are in order, with two targets, or out of order; two cards
  being opened overtake each other.
- Four moments, limits of 3 and 2 in `Sinov`: a signal, its fill, TP1 and the
  stop at the entry, or a time limit, each at a candle of its own. The second coin
  takes a place in the group and has gaps; the first sees every candle.
- One payment and room for two subscriptions: two approvals of it may both
  succeed. Eight moments pass the end of a subscription opened at once (6) by
  `Oraliq`, so that one that the task forgets is seen.
- `radar`: three candles are a streak, a break of it and the next; one crash
  and one failed write meet in every order within a scene, and a queue limit of
  one makes a result wait for another's hour.
- The panel in `sikl_kuzatuv`: lists of one place over two coins make every arrival
  an eviction. One coin in `signal_hayoti` comes, goes and comes back.
- `sayt_bot`: two ids and three signals written make an id come back; three
  files over two lessons make one replaced twice; three events (`MaxHodisa`) put a
  bare start, a death and a downgrade into one life of a database; two waiting
  handlers (`MaxVazifa`) are an answer and what clears its form meanwhile, and
  meet only in the form, so a third makes no new outcome. Of the container: one
  edit of the file at a time, with a value of each kind for every key of every
  section and the limits of the radar with their neighbours; deployed over rows
  that the shipped file or no file left; an admin has one thing of his own at a
  time; other environments than Railway with a volume go with the shipped file.
- `tahlil`: the ten charts are chosen so that a break, two zones that meet,
  three targets, a price inside the zone, a double bottom, one whose neck lies under
  its bottoms, a chart without
  structure and a coin listed today each occur, and the next candles may take
  each apart; `MaxYangi = 3` closes one swing's right wing (two candles on the charts of
  `UZUN` candles and more, which are long for the levels' sake). The window of 22
  holds the longest chart, and the last candles push its first ones out. Two balances stand on
  either side of a tier; three trades and a strategy may exceed a day together.

Every property of a passing run has a mutant that breaks it under the very
bounds of that run, so none of them holds because its case is out of reach.

### Fairness

- `signal_hayoti` (`MCSpec` of `MCHayot`), the watcher: candles go on coming (strong: not while a run is
  in its loop, which lasts no time on the clock); a run is started again and
  again, and its loop goes on (weak; `_repeat` catches every exception); fetching
  and writing are not cut off every single time (strong). Nobody has to cancel,
  delete or succeed at once.
- `signal_hayoti`, the broadcast, and `tarqatilmaydi` (`TarqAdolatliSpec`): the task `web-signals` goes on (weak); the number
  of its failures is bounded by `MaxUzilish`, and admins, users and the site owe
  nothing.
- `radar` (`MCSpec`): the process's own steps go on (weak): asyncio runs its one
  loop, the supervisor starts it again. Clock, admin, exchange and crashes owe
  nothing.
- `signal_hayoti`, the panel: each of the three tasks goes on (weak; `_repeat` per task);
  a scan's write is not refused every single time (strong: the sources do not
  fail for ever). The admin owes nothing. A scene's steps are never enabled in
  another, so `MCSpec` puts one condition of each scene into one WF or SF.
- The other runs check safety only.

## 4. Proofs

TLAPS checks the following for every value of the constants: any number of
coins, users, rows, candles, failures, any lengths of the lists. The assumptions
are the named ones of the modules, which TLC evaluates on every run: `QoidaFarazi`,
`KuzatuvFarazi`, `TarqatishFarazi`, `ZanjirFarazi`, `ObunaFarazi`, `VaqtFarazi`,
`IshchiFarazi`, `PanelFarazi`, `QidiruvFarazi`, `PozitsiyaFarazi`, `YoqFarazi`,
`PostFarazi`, `DarsFarazi`, `FormalarFarazi`, `GrafikFarazi`, `BloklarFarazi`,
`RiskFarazi`, `SinovFarazi`, `SozlamaFarazi`, `KonteynerFarazi`, `KartaFarazi`,
`KYoqFarazi`, `ChegaraFarazi`, `SessiyaFarazi`, `SxemaFarazi`. They give
ranges of numbers, say that a null is none of the values it stands beside, that
a reminder day is shorter than a month, that a task runs at least once a day,
that candles are candles, that a block has four checks, that the file's and the
table's numbers are numbers, and (`VaqtFarazi`) what `radar_muammolari` demands
of the two windows.

**`SignalIsboti`**, the watcher: `InvTeoremasi`, `TurTeoremasi`,
`NatijaTeoremasi` (`NatijaBozordan`), `SavdoTeoremasi` (`SavdoIzchil`). What the row says is not inductive: a run writes it from its
working state, made from a snapshot and from candles that have passed. `IInv`
therefore says of the row, of the snapshot and of the working state what the
market must have done (`QatorAsosi`, `HolatAsosi`, `NatijaAsosi`), and that
while a run holds its snapshot the row differs from it by a cancellation or a
deletion only (`NusxaBogliq`). `TpKirgandan` is the part that makes replays
harmless: among the candles that a later run reads again, a target is met only
after the fill. A forming candle only widens (`Osish`), so what was seen stays
true. One lemma per action, one per kind of candle.
`BekorTeoremasi` (`BekorHaqiqiy`) assumes
`Tanaffus < Oyna`, and must: a pending row that no completed run has looked at
for longer than the window is cancelled for a target although the fill was
before. `BekorAsosi` says that the completed runs have left no candle unseen.
`HayotTeoremasi` proves `Spec => HayotSpec`, cancellations in the middle of runs
included: initial state to initial state, every step to a step of `SignalHayoti` or
a stutter. The abstract row has a fourth variable, the status that the run under
way has read (`oqilgan`, mapped to the snapshot): a write goes forward from it,
whatever the row is by then, and ends it. So a row that the watcher closed is
never opened again, and a cancelled one once at most, which `bekor_qaytadi` shows
to happen.

The cycle, in the same module, with `SiklInv`: `SiklTurTeoremasi`, `TakrorTeoremasi` (`TakrorEmas`),
`BittaTeoremasi` (`ZanjirBitta`), `YurishTeoremasi` (`YurishButun`). The snapshot
goes stale, but not for the cycle's own signals: in the coins a run may still
make a signal for, none of the cycle's is open (`OchiqTogri`), and if the newest
row is the cycle's, its zone is the one remembered (`OxirgiTogri`). The report
agrees with the table because a coin without a result is one that is still to
come (`NatijaTogri`) and "signal" is the result of exactly the coins with a row of
the cycle younger than the run (`HisobotInv`).

**`TarqatishIsboti`**: `TurTeoremasi`, `UrinishTeoremasi`
(`BelgilanganUrindi`), `BegonaTeoremasi` (`BegonaOlmaydi`), `TakrorTeoremasi`
(`TakrorChegarasi`). `IInv` says of every sender at work that whoever must get
the row has been sent it or is still in the sender's list, for the rows behind
the present one too. The bound on repetitions needs `SanoqInv`, which counts
what has arrived together with what a sender at work is still going to send,
and one less while the row is neither marked nor in the task's queue.
`RejasizTeoremasi` (`FaqatQolda`) says in general what `tarqatilmaydi` shows: as
long as the call does not fit, nothing is sent or marked that the admin's handler
had not in hand.

`KartochkaTeoremasi` (`KartochkaRost`), in the same module: for any number of ids,
screens being drawn and signals, any levels an admin may type and any share sold
at TP1. `KInv` adds to the property that a row's levels are those of the signal
it is and its result is in range (`QatorlarSoz`), that what a run has read was open
and is of that row or of a deleted one, so that what it writes from there is in
range of that row (`NusxalarSoz`), and for every id that a card,
drawn or being drawn, or the admin's question carries, that its row is that
signal or was deleted once (`EkranlarSoz`, `KEski`). A new row takes an id that
no row has (`KYangiL`): if a screen names that id, the row it meant was deleted.
The bounds of a result are those of a weighted mean.

**`ObunaTolovIsboti`**: `TurTeoremasi`, `TasdiqTeoremasi` (`TasdiqObunali`),
`MuddatTeoremasi` (`MuddatidaYopiladi`), `BirMartaTeoremasi`,
`OtmaydiTeoremasi`, `EslatmaTeoremasi` (`EslatmaTogri`). Properties that
speak of now are tied to the last run of the task: what is active had not run
out then (`MuddatInv`), a reminder that is not marked was not due then
(`OtmaydiInv`); what waits to be sent is marked and was not sent
(`EslatmaInv`).

**`RadarIshchiIsboti`**. `BittaSessiya`: at no instant are two sessions due; the
windows of A and B of one candle, and those of neighbouring candles, do not
overlap, for every length of a candle and every pair of windows that
`radar_muammolari` accepts. `SlotlarTeoremasi` (`SlotlarTogri`),
`KorinishTeoremasi` (`KorinishTogri`), `HajmTeoremasi` (the action property
`HajmOraligi`), from `RadarInvTeoremasi`. A slot runs once not because the worker
looks whether it has a row, but because what it looks at cannot be stale: the
rows of a kind are in the order of their candles (`Tartibli`), none of them
belongs to an instant after the timetable in hand (`VaqtTogri`), and between
reading the timetable and the grading the list holds open windows of that
instant, each of which is on it or has its row (`RejaTogri`). The streak needs
that a candidate's is never zero (`ElakKetma`), else a first and an interrupted one
could not be told apart; "one session per press" that a press is the flag, or
what the process has taken, or a row (`SorovSoni`); and that a crash leaves no
half-written results, that only finished rows have any (`JoriyTogri`).

**`RadarSessiyaIsboti`**: `SessiyaTeoremasi` (`SessiyaTogri`), for every market,
database, limit of the sieve and of the sample, and any number of failed
requests. `SesInv` says what is known wherever the session stands: what the
dictionaries read from the exchange can hold (`SesBozori`), that A's candidates
passed the sieve and the sample is drawn from the rest (`SesElagi`), that what
leaves the pool leaves it for its capitalisation (`SesSarasi`), and what a
verdict of the journal stands for (`SesJurnali`). Of CoinGecko only this can be known: a coin's supply is what some
row with its ticker says (`Rivoyat`), since batches and pages may each be
missing. Then the four parts of the property are about one state.

- Places: `Oldin` is a strict total order (`OldinTartibL`); its keys are
  fractions, compared by cross-multiplication (`KattaL`), with "unknown" below all
  of them (`NKattaL`). In a finite set with such an order one and the number of
  those before are 1, 2, ... without a gap (`OrinL`).
- A silent source: with an answer taken away no check turns from "no" or "no
  data" to "yes", and the sieve's facts do not change (`TaminotSizL`, `SizL`,
  `ManbasizL`), check by check, for the seven checks.
- Refinement: what the session wrote is the worker's `Natija` of the pool, sample,
  candidates and hidden coins it had (`KengL`, `KengJavobL`): same rows, states,
  streaks and grades.

**`PanelIsboti`**: `RoyxatTeoremasi` (`RoyxatButun`) and `QidiruvTeoremasi`
(`BugunChegarada`), from `PanelInv`: beside the types and the lists of one scan, a
press is counted once, as the flag, as the task that took it or as the scan made
for it (`Sorovlar`). That two tasks scan at once is harmless because each
writes all rows in one session, and the rows of a result hold each place once
(`NatijaL` and the lemmas after it).

**`SaytIsboti`**: rows that bot and site both write, the dialogs, the container
and its schema.

- `PozitsiyaTeoremasi` (`PozitsiyaButun`). `PInv` says of open forms and of calls
  under way what the property says of rows: their price is the signal's, or the
  id was given again.
- `PostTeoremasi` (`PostButun`). `PostInv` adds that nothing is dated later than
  today (`KunlarOtgan`) and that a post's source was broadcast or its id was
  deleted once (`PostManbasi`).
- `DarsTeoremasi` (`DarsButun`). `DInv` adds whose a file is, from its writing to
  its removal (`FaylEgasi`), and of the timer's list that what it names was the
  row's once and is sent at most once, also while Telegram's answer is not
  stored yet (`NavbatTogri`).
- `DialogTeoremasi` (`DialogButun`): every form has what its next handlers read,
  but for the one exception, whichever handlers of one person overlap and whenever
  the bot is restarted. `KutganTogri` has to be added: a task of an admin's form
  that waits is an admin's (`Haq`), and a message still finds the keys of the form
  it came to unless a clear came between (`Topadi`), also when the form has gone on
  meanwhile, since nothing but a clear takes keys away. The work is in the tables: the keys a form needs do not
  shrink along a way through it (`YolJadvalL` and its neighbours).
- `KonteynerTeoremasi` (`KonteynerButun`): for every set of files and every
  environment. Two parts are about reachable states: `KInv` says that a radar that
  runs has found no problem in the very file that is in force (`JarayonTogri`; a
  deployment changes the file and ends the process in one), and that a row which
  says halal is the admin's (`QatorlarTogri`), since the seed writes only where
  there is no row and never writes halal. The rest is about the file alone: which
  sections `validate` and the seed read (`RadarsizL`, `ValidateL`, `BuildL`: taking
  the radar's section out changes nothing they see), that the two programs'
  tables of limits are the same and their readings meet (`OraliqlarL`,
  `ChegaraL`), and that an absolute address means one place from every directory
  (`BazaL`).
- `ModellarTeoremasi` (`KodTopadi`), `VersiyaTeoremasi` (`VersiyaRost`) and
  `MalumotTeoremasi` (the action property `MalumotSaqlanadi`): the schema, for any
  number of crashes, bare starts and downgrades, where the run has three. First
  the 27 revisions, one lemma each (`TartibL`): no operation, up or down, drops a
  column that the program must supply, none on the way up drops a table or a
  column of a model, and a model's table is made with every column that must be
  supplied; the columns are those of `Modellar` (`MajburiyL`). Then what one
  operation does to a schema (`BajarL`), a list of them (`AmallardanL`) and the
  chain (`SxemalarL`): what version k has more than version k - 1 was made by an
  operation of revision k. `SxInv` needs two things beside the properties: that no
  table of a model ever misses a column that `init_models` cannot add (`Shakl`: so
  the step that adds columns ends with all of them, also after a downgrade that
  was cut short), and that while a revision is under way all that it owes is
  in the file or still to be made by the operations that are left (`Yetadi`: so the
  version is honest at the moment it is written).

**`TahlilIsboti`**: the parts behind a signal.

- The budget: `RTurTeoremasi`, `HisobTeoremasi`, `LimitTeoremasi`,
  `UlushTeoremasi` and their conjunction `ByudjetTeoremasi` (`ByudjetTogri`), for
  every tier table, share and rounding. The limit alone is not inductive: what is
  at stake (`kunXavfi`) is bounded by the limit because it is exactly what the
  ledger has written (`HisobTeng`), and what is written is bounded because a grant
  is cut to the remainder. That the size written never runs more risk than was
  granted is the rounding lemma `HajmL`: a size is a whole quotient of the grant,
  so size times stop is within it. `QarzsizTeoremasi` (the action property
  `QarzsizOchiladi`) is about capital: `KapitalInv` says that what is bound is the
  sum over the open trades, taken in the order of their ids, of which no two are
  equal. A trade that opens adds its size to the sum and one that closes takes it
  out whole (`QoshishL`, `AyirishL`), so the cut to zero in `release_capital` never
  cuts.
- The chart: `GTurTeoremasi`, `KesishTeoremasi`, `BuzilishTeoremasi`,
  `TuzilmaTeoremasi` (`TuzilmaTogri`), and the action property `SwingTeoremasi`
  (`SwinglarQotgan`): for every window, wing and history of candles no swing whose
  wings have closed is repainted. `GInv` says that every candle is one (its low
  under its open and close, its high above) and where the window stands; a swing
  is then decided by candles that no later step touches.
- `QarorTeoremasi` (the action property `QarorBarqaror`). The direction is read from
  the last two swings of each kind. When a candle closes, swings are lost at the
  window's left end only and it confirms at most one kind of swing
  (`YopilganSwingL`); the kind that gains none keeps its last two, or falls below
  two (`IkkitaQoladiL`), and cannot rise and fall at once (`IkkiXilEmasL`): for the
  direction to flip both kinds would have to turn.
  A swept low stays swept because the sweep and its reclaim are closed candles
  after it (`SweepL`).
- `DarajalarTeoremasi` (`DarajalarTogri`), for every chart: the Fibonacci zone and the
  zones laid over it stay inside the impulse (`FibL`, `QatlamL`), the nearest low
  below is a greatest one of a finite set (`LikvidlikL`), a target follows the last by
  one percent at least (`TpL`), so the levels stand in order.
- The walkers: `YuruvchilarTeoremasi` (`YuruvchilarTogri`), for every set of votes
  a block may have and every set of zones that are confirmed. How the walkers end
  is not inductive. `BInv` says what ties them at every block: they have read the
  same checks of the first (`BirinchiBlok`); the strategy and the rule of two stay
  in the zone found, and so does the alternative chain before its third block and
  wherever the rule of two goes on, for a block strong enough for that rule asks no
  alternative (`ZonaTogri`); of two walkers the stricter breaks off no later, but at
  the fourth block in another zone, and then the first was not measured
  (`Oraliqda`): had it been, `fundamental_mos` would have given the strategy the one
  yes it needs. The shadow goes on wherever the chain does in the same zone when a
  "no" was switched off, and never breaks at a block that is switched off whole
  (`Soyada`), and an unbroken alternative chain has two fifths of the votes in
  every block after the first, not only in their sum (`IshonchHozir`). The
  comparison of shares is arithmetic over the counts of four checks; it is in
  lemmas about numbers alone.
- The replay: `SinovTeoremasi` (`SinovTogri`), for every list of coins, grouping,
  candles, limits and number of targets. `SInv` adds what a trade needs to be
  moved at all: a candle, a witness and no end yet (`OchiqButun`). That replay and
  watcher agree is then one candle's work, compared case by case (`MosL`): while
  both wait, when the limit fills, and after it, stop before targets. That places
  go by strength is an induction over the turns of the loop (`NavbatL`,
  `JoylashtirL`): those who have had their turn are no weaker than those who have
  not, and whoever was refused stays without a place to take (`RadL`), since the
  limits only fill up.

Only model-checked:

- the liveness properties (`SavdoYopiladi`, `Tarqatiladi`, those of the
  panel and of `radar`): liveness under fairness is out of this prover's reach, like ENABLED;
- `KonteynerToliq`, one part of the invariant `SxemaButun`: that the schema a
  container runs on *equals* the models', index by index. The theorems above speak
  of tables and columns; this part is the value that 27 lists of operations
  compute, also when one of them is begun a second time on its own half, and TLC
  computes it. Every other invariant and action property of a passing run is a
  theorem. Where data are numbered, as the turns of a loop, the operations of a
  revision or the ids of trades, the proofs get by with the least number of a set
  (`EngKichikL`): by it such a function exists and its values are related.

No module declares a RECURSIVE operator; recursive functions and folds are used
instead, so that all of them can be proved about.

## 5. Where the code and its texts disagree, and other facts

Besides the seven runs above, modelling met the following. None of it has a run:
each is decided by reading a few lines, or was seen in a counterexample of a
property that has since been given the form the code does satisfy.

### Signals

- A run that sees TP1 and the last target together counts the whole position at
  the last target (`core/storage/repositories.py:605`, against the comment at 588),
  and one that sees TP1 and the stop counts it at the entry. The row does not tell
  such a trade from one that never reached TP1.
- `_yoz` writes by id: what a run found of a deleted signal goes to the signal that
  got its id, at levels of another (`begona` of `Kartochka`).
- The watcher lets a pending limit wait for ever
  (`core/services/signal_kuzatuvchi.py:194`), while the backtest, whose rules are
  said to be the same (`core/backtest/zanjir_engine.py:379`), gives it up after a
  time (line 391). In one run of the watcher the age counts from `created_at`, in
  the backtest from the fill.
- `reached_tps` never exceeds 1 (`core/storage/repositories.py:599`), although the
  column is described as the number of targets reached
  (`core/storage/models.py:363`).
- The cycle looks for open signals once, at its start
  (`core/services/zanjir_sikl.py:118`); one made by hand meanwhile gets a second.
- `signal_send` commits the row unmarked (`bot/handlers/signals.py:289`), so the
  minute task would send it too while the handler sends; unreachable today.
- `expiring_soon` takes what ends within the longest day
  (`core/storage/repositories.py:189`), `due_reminders` counts whole days rounded
  down: the reminder of the longest day goes out at one instant only
  (`core/storage/models.py:87`, `config/default.yaml:151`).
- Nothing in the program closes a position: `open_for_signal`, `close` and
  `compute_outcome` have no caller outside the tests, so the portfolio's profit is
  always empty.
- `tp1_close_pct` weighs every result (50 %), while the card of a signal with three
  targets shows 40 % for the first, under a comment that the number shown is the
  one used (`bot/formatting.py:59`); the share of the second of three targets is in
  no result.
- `decide_entry_plan` says of a plan whether it still makes sense
  (`core/services/kirish_rejasi.py:60`); the cycle reads it
  (`core/services/zanjir_sikl.py:309`), the bot's two callers, of which one broadcasts
  a card and one shows it, do not.
- A pending signal cancelled because TP1 was met is written with TP1's result, as if
  it had been entered, and the weekly report averages it. An admin's
  cancellation of a signal past TP1 is written with 0
  (`bot/handlers/signals.py:441`): what was sold is forgotten.
- An entry is offered on the site under other rules than in the bot: the site's
  `pozitsiyaQayd` does not ask whether the entry is late.

### Analysis

- The right wing of a swing includes the candle that still forms
  (`core/analysis/structure/swing_detector.py:60`), against its docstring
  (9-12); `OngQanotYopiq` of `Grafik` states it.
- A retest counts a candle that has not closed
  (`core/analysis/confirmation/tasdiq.py:65`, against 85).
- `_impuls_boshi` takes the last low even when it comes after the impulse's high
  (`core/analysis/zone_quality/zone_block.py:154`).
- `core/analysis/zone_quality/fvg.py:55` speaks of the lower edge and compares
  with the upper one.
- `_burilish` of `uptrend_filter.py` goes on to older highs when the latest does
  not qualify; the neck of a double bottom is not required to lie above the
  bottoms (`core/analysis/alternatives/double_pattern.py:3` has it higher), so its zone
  may be turned round and the entry under both edges: the exception in
  `DarajalarTartibi`.
- Inside a forming candle the direction can flip, and the votes of a break or a
  sweep can vanish; between closed candles they do not (`QarorBarqaror`).
- The alternative chain is not always the stricter one. An alternative that saves
  the third block replaces the zone
  (`core/analysis/alternatives/alternative_chain.py:152`), and the fourth block's
  `pastki_tf` looks for a confirmation there: a coin may pass that the strategy,
  which looks into the zone found, refuses. It takes a first block without data,
  as the live cycle and the backtest have it, since both hand the chain no
  fundamentals (`core/services/zanjir_sikl.py:220`).
  `docs/BACKTEST_NATIJA_2026-09-10_toxtash.md:110` says the alternative chain is
  the harder one, and the docstring of `alternative_chain.py` (1-8) that the only
  difference is what becomes of a weak block. `AltOraliqda` has the exception.
- The panel is said to be unable to show something else than the chain
  (`core/analysis/observation_mode.py:14-21`, "same routines"). The routines are the
  same, the timeframes, the window and the fundamentals are not, so no property here says that the two agree.
- A check that fails and is switched off may make a weak third block strong; no
  alternative is asked then, the zone is another and the chain may break at the
  fourth block: the exception in `AblatsiyaHalol`.
- The first block has no alternatives, so one yes in four is enough in it;
  `fundamental_mos` of the last block is a vote the first block has won already;
  `eng_kam_ishonch` is 0 in the settings, so confidence refuses nobody.
- The zone of alternative 3B passes only because `stop_eng_kam_pct` is 1.5.
- Shares sold: 50/30/20 in `core/position/scaling_out.py`, 40/30/30 in the
  settings' `tp_close_shares`, 50/50 in the research account.
- The research account sizes a closed trade by its last stop
  (`scripts/zanjir_hisob.py:74`), which TP1 moved to the entry: `SignalLevels` refuses
  it, so every trade that reached a target is skipped. The comment there thinks of
  timed-out trades only, and `tests/test_zanjir_hisob.py:54` of a winner with an
  unmoved stop. `YutganHisobda` of `Sinov` states it.
- `core/backtest/dataset.py:10` promises candles closed by the moment; `up_to`
  takes those opened by it, whole: at the moment a candle opens its close is known.
- A coin whose series has a gap, or ends early, gets its last candle again at every
  moment (`core/backtest/zanjir_engine.py:202`): after TP1 the candle that reached it
  may stop the trade at the entry.
- In the research account (`scripts/zanjir_hisob.py`) a new day's budget does not
  know the risk of trades still open, and a trade that enters and exits at one
  instant locks its capital. That all stops together stay within the limit is
  tested, and true, of one budget.

### Dialogs

- An answer that has passed its state filter and waits for the middleware's
  database goes on with its form after a menu or a late save has cleared it: the
  state it sets stands without the keys of the earlier questions
  (`bot/handlers/signals.py:109`), and the form's last handler (as
  `bot/handlers/admin.py:309`) raises a KeyError at every message until the form is
  left. It is the
  exception `yirtiq` in `FormaButun`.
- `bot/ui.py` says that a new menu replaces the last; `show_menu` and
  `show_panel` clear the data in which `show_screen` looks for the last menu's
  id, so none is ever deleted.
- `/start` and `/menu` typed into an admin's form are its answer, because of the
  order of the routers: in the announcement's form they are sent to everyone. In
  the signal's form `/panel` is an answer too.
- A text typed while an announcement is being sent is sent as well: the form is
  closed last.
- A lesson form's old tier keyboard, pressed after a restart, opens the question
  for the file without a title; every message is then a KeyError until the form
  is left. It is the exception in `FormaButun`.
- Screens without a form (payments, prices, tariffs) leave an older form open,
  and the `state.clear()` of a late save closes a newer one.
- A wrong entry price of a manual signal cannot be corrected: it is asked again
  from the stop on.
- An album of two photos makes two payments; a suspension takes the highest tier
  only; a pending payment is looked for when the form opens, not when the receipt
  comes.

### Schema

- A bare start of the bot on an older database (`README.md:78`) adds tables and
  columns and leaves the recorded version where it was; `alembic upgrade head`
  then fails with "already exists", although `scripts/start.sh:46` calls both
  steps safe to repeat and `core/storage/database.py` sends the operator there
  (`YangilashOtadi` of `SxemaYoli`).
- `init_models` adds no index to a table that exists, so `uq_post_manba` may be
  missing; the columns it adds may be NULL where the migration forbids it; what
  two revisions fill in is not filled.
- `_stamp_if_fresh` writes head on a database whose first migration died.
- The chain of downgrades breaks at `f3a7c15d8e29`, because the downgrade of
  `a1f4e07c9b62` makes `market_health_log` with two columns only, against its
  docstring. A downgrade that dies leaves half a schema under the old version.
- `DEFAULT {arg}` is written unquoted: `""`, `"{}"` and `now()` would be errors
  in SQLite, `"[]"` becomes `''`; no missing column has them today.
- Foreign keys are enforced on the bot's connection only
  (`core/storage/database.py:69`; `web/src/lib/db.ts` does not ask for it).
- `tests` compare the migrated schema by the names of indexes only.

### Configuration, seed and start

- The rulings on coins decide nothing in trading. `coin_rulings` is read by the
  radar's sessions, the seed and the admin's list only; `verdict_for`,
  `is_tradable`, `StaticRulingRegistry` and `merge_overrides` have no caller
  outside the tests, against `docs/ARXITEKTURA.md` (section 6), the text
  `admin.halol_izoh` and the docstring of `rulings.py`.
- A ruling that the admin removes comes back with the next seed; one that he
  changes stays. A coin in both lists of the seed becomes mashbooh, since the
  second list is laid over the first.
- `warn_if_data_is_temporary` says nothing when a volume is mounted and the
  address given by hand points beside it.
- `start.sh` counts the bot's starts over the container's whole life, although
  its comment speaks of attempts in a row: after the last one the container
  ends, and the site, which is said to answer always, with it.
- The loader passes null and scalars of a wrong type (`core/config/loader.py:9`
  promises to refuse them), and an unknown key or a section that is no mapping
  in the radar's part stops the seed, the bot and the site, against
  `core/config/loader.py:190`.
- Not validated: `hajm_yangilash_soat`, `kashfiyot_daqiqa` of 240 and more,
  negative delays, NaN, the sum of `tp_close_shares`. `exchange: bybit` is
  accepted and Binance used. `zanjir:` is absent from `default.yaml`.
- A truth value for one of the radar's numbers is 1 in Python and the standard
  value on the site; YAML 1.1 and the site's parser differ in such words. A text
  in `radar_sozlamalar` makes `repository.sozlamalar` raise, against the
  docstring of `sozlama.py`; the site reads "10,000" as 10.
- `PriceRepository.get` sees active rows only. Without a caller: `closed_since`
  (which would raise for a timed-out row), `to_domain`, `net_result_pct_since`,
  `consecutive_stops`, `BtcDominanceConfig`, `SettingsEditor`.

### Others

- When `fundingInfo` fails, the funding of a coin that pays every four hours is
  read as if it paid every eight: the check says no where it should say "no data".
- An answer with code 200 and a body of another shape is journalled as "ok" while
  the session reports that the source gave nothing.
- CoinGecko's row is trusted when the price of the coin is not known.

- Five lessons whose file is gone hold the queue of the upload task for ever; a
  lesson replaced after its upload is never sent again.
- A deleted signal's post stays and blocks the post of a signal with its id; a
  deleted post comes back within the news window.
- The radar grades the 200 oldest records first: those that fail stand in front.
- A coin whose evaluation fails keeps its old place in the Top list.
- The loader's docstring describes a third layer, `AppConfig.apply_overrides()`,
  that does not exist (`core/config/loader.py:1-14`).

## 6. What is not modelled, and the plan

Left out on purpose: texts, formats and layout; measurements over real numbers
whose verdict a block's counts stand for (volume profile, RSI, the
panel's measures); the AI and the exchanges, whose answers and failures are choices;
identification; PostgreSQL; rows in the migrations. Percentages are not computed
in the watcher: its properties are about which formula was used.

Partly modelled: the measurements of volume and momentum in the blocks, the
panel's sources, posts about lessons, `aggregate.py`. Not modelled, with the
reason in `PROJECT.json`: the AI and the halal lookup (answers of the outside,
taken as choices), market data clients, identification, calculators and
interface (of which `Kartochka` has the cards and lists of signals), scripts.

What is left to prove is `KonteynerToliq`, for the reason given in section 4.
