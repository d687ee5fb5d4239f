------------------------------ MODULE SxemaYoli ------------------------------
(***************************************************************************)
(* How the database of the program gets its schema.  There are two ways.   *)
(* A container runs scripts/start.sh: `alembic upgrade head`, then         *)
(* scripts/seed.py, then the bot, and both of these call init_models       *)
(* (core/storage/database.py).  An operator may also start the bot alone   *)
(* (README.md:78): then init_models is all that touches the schema.  It    *)
(* makes the missing tables, adds the missing columns it safely can, and   *)
(* writes a version only where there is none.                              *)
(*                                                                         *)
(* SQLite commits each DDL statement by itself, so a process that dies in  *)
(* a migration leaves a part of it behind; the version is written after    *)
(* the last operation of a revision.                                       *)
(***************************************************************************)
EXTENDS Modellar, Migratsiyalar

CONSTANT MaxHodisa  \* bound on what befalls the database: see Hodisalar

ASSUME SxemaFarazi == MaxHodisa \in Nat

OXIRGI == Len(Tartib)

VARIABLES
    sxema,    \* the schema in the database file
    versiya,  \* alembic_version: the index of a revision, 0 for no row
    ish,      \* what runs: see Ishlar
    qoldi,    \* what is left of the revision at hand, or of init_models
    maqsad,   \* the version to write when they are done
    yol       \* what has befallen the database: see Hodisalar

sxvars == <<sxema, versiya, ish, qoldi, maqsad, yol>>

Ishlar == {"tinch", "alembic", "pastga", "seed", "bot", "ishlayapti", "yiqildi"}

(* A bare start of the bot; a process that died at its work; a downgrade, *)
(* and one that was cut short.                                            *)
Hodisalar == {"bevosita", "uzildi", "tushirildi", "yarim"}

Boldi(hodisa) ==
    /\ Len(yol) < MaxHodisa
    /\ yol' = Append(yol, hodisa)

(* The schema after the first i operations, and after the first k revisions. *)
Amallardan(s, amallar) ==
    LET f[i \in 0..Len(amallar)] == IF i = 0 THEN s ELSE Bajar(f[i - 1], amallar[i])
    IN  f[Len(amallar)]

SxemaGacha[k \in 0..OXIRGI] ==
    IF k = 0 THEN <<>>
    ELSE CHOOSE s \in {Amallardan(oldin, Tartib[k].yuqori) : oldin \in {SxemaGacha[k - 1]}} : TRUE
Sxemalar == [k \in 0..OXIRGI |-> SxemaGacha[k]]

SXInit ==
    /\ versiya \in 0..OXIRGI
    /\ sxema = Sxemalar[versiya]
    /\ ish = "tinch" /\ qoldi = <<>> /\ maqsad = versiya /\ yol = <<>>

(* init_models, statement by statement: every one of them may be the last  *)
(* one of a process.                                                       *)
BOSQICHLAR == << "eski", "yarat", "ustun", "belgi" >>

(* ------------------------------- alembic ------------------------------- *)
(* upgrade() of the revision that drops the old module's tables looks at   *)
(* what is there; every other revision is the same on every database.      *)
Borlari(k) == IF EskiModul[k] \in DOMAIN sxema THEN << Tashla(EskiModul[k]) >> ELSE <<>>

YuqoriAmallar(k) ==
    IF Tartib[k] = M_a1f4e07c9b62
    THEN Borlari(1) \o Borlari(2) \o Borlari(3) \o Borlari(4) \o Borlari(5)
    ELSE Tartib[k].yuqori

(* scripts/start.sh: the container begins with `alembic upgrade head`. *)
KonteynerBoshlanadi ==
    /\ ish \in {"tinch", "yiqildi"}
    /\ ish' = "alembic"
    /\ UNCHANGED <<sxema, versiya, qoldi, maqsad, yol>>

(* Mutant: the version is written before the operations. *)
VersiyaOldin ==
    /\ ish = "alembic" /\ qoldi = <<>> /\ maqsad = versiya /\ versiya < OXIRGI
    /\ versiya' = versiya + 1 /\ maqsad' = versiya'
    /\ qoldi' = YuqoriAmallar(versiya + 1)
    /\ UNCHANGED <<sxema, ish, yol>>

(* The next revision after the recorded version. *)
MigratsiyaOladi ==
    /\ ish = "alembic" /\ qoldi = <<>> /\ maqsad = versiya /\ versiya < OXIRGI
    /\ maqsad' = versiya + 1
    /\ qoldi' = YuqoriAmallar(versiya + 1)
    /\ UNCHANGED <<sxema, versiya, ish, yol>>

AmalBajariladi ==
    /\ ish \in {"alembic", "pastga"} /\ qoldi # <<>> /\ Otadi(sxema, Head(qoldi))
    /\ sxema' = Bajar(sxema, Head(qoldi))
    /\ qoldi' = Tail(qoldi)
    /\ UNCHANGED <<versiya, ish, maqsad, yol>>

(* The database refuses the operation: alembic stops, and with it the      *)
(* container (set -e).                                                     *)
AmalYiqiladi ==
    /\ ish \in {"alembic", "pastga"} /\ qoldi # <<>> /\ ~Otadi(sxema, Head(qoldi))
    /\ ish' = "yiqildi" /\ qoldi' = <<>> /\ maqsad' = versiya
    /\ UNCHANGED <<sxema, versiya, yol>>

VersiyaYoziladi ==
    /\ ish \in {"alembic", "pastga"} /\ qoldi = <<>> /\ maqsad # versiya
    /\ versiya' = maqsad
    /\ ish' = IF ish = "pastga" THEN "tinch" ELSE ish
    /\ UNCHANGED <<sxema, qoldi, maqsad, yol>>

AlembicTugaydi ==
    /\ ish = "alembic" /\ qoldi = <<>> /\ versiya = OXIRGI /\ maqsad = OXIRGI
    /\ ish' = "seed" /\ qoldi' = BOSQICHLAR
    /\ UNCHANGED <<sxema, versiya, maqsad, yol>>

(* `alembic downgrade -1`, by hand. *)
PastgaOladi ==
    /\ ish = "tinch" /\ versiya > 0
    /\ ish' = "pastga"
    /\ maqsad' = versiya - 1
    /\ qoldi' = Tartib[versiya].pastga
    /\ Boldi("tushirildi")
    /\ UNCHANGED <<sxema, versiya>>

(* ----------------------------- init_models ----------------------------- *)
(* Mutant: a live table is on the list of the old module's. *)
EskiVaChiqishlar(s) == [t \in DOMAIN s \ (ToSet(EskiModul) \cup {"position_exits"}) |-> s[t]]

(* The tables of the old module go. *)
EskiOlibTashla(s) == [t \in DOMAIN s \ ToSet(EskiModul) |-> s[t]]

(* Base.metadata.create_all: every missing table, with its indexes. *)
YaratHammasi(s) ==
    [t \in DOMAIN s \cup DOMAIN Modellar |-> IF t \in DOMAIN s THEN s[t] ELSE Modellar[t]]

(* A missing column is added when it may be NULL or has a server default;  *)
(* it is added without NOT NULL.  Indexes are not looked at.               *)
Qoshiladi(t) == {u \in DOMAIN Modellar[t].ustun : Modellar[t].ustun[u] # "X"}

UstunQosh(s) ==
    [t \in DOMAIN s |->
        IF t \notin DOMAIN Modellar THEN s[t]
        ELSE [s[t] EXCEPT !.ustun =
                [u \in DOMAIN @ \cup Qoshiladi(t) |->
                    IF u \in DOMAIN @ THEN @[u]
                    ELSE IF Modellar[t].ustun[u] = "D" THEN "ND" ELSE "N"]]]

InitJadvallar ==
    /\ ish \in {"seed", "bot"} /\ Head(qoldi) # "belgi"
    /\ sxema' = CASE Head(qoldi) = "eski"  -> EskiOlibTashla(sxema)
                  [] Head(qoldi) = "yarat" -> YaratHammasi(sxema)
                  [] Head(qoldi) = "ustun" -> UstunQosh(sxema)
    /\ qoldi' = Tail(qoldi)
    /\ UNCHANGED <<versiya, ish, maqsad, yol>>

(* _stamp_if_fresh: only an empty alembic_version is filled, with head.    *)
(* The seed has done its work; the bot comes next, or runs.                *)
BelgilaYangi ==
    /\ ish \in {"seed", "bot"} /\ Head(qoldi) = "belgi"
    /\ versiya' = IF versiya = 0 THEN OXIRGI ELSE versiya
    /\ maqsad' = versiya'
    /\ IF ish = "seed" THEN ish' = "bot" /\ qoldi' = BOSQICHLAR
                       ELSE ish' = "ishlayapti" /\ qoldi' = <<>>
    /\ UNCHANGED <<sxema, yol>>

(* python -m bot.main, with no migration before it. *)
BotBevosita ==
    /\ ish \in {"tinch", "yiqildi"}
    /\ ish' = "bot" /\ qoldi' = BOSQICHLAR
    /\ Boldi("bevosita")
    /\ UNCHANGED <<sxema, versiya, maqsad>>

(* The program stops: a new deployment, or a restart. *)
Toxtaydi ==
    /\ ish = "ishlayapti"
    /\ ish' = "tinch"
    /\ UNCHANGED <<sxema, versiya, qoldi, maqsad, yol>>

(* The process dies at its work: what was done to the schema stays. *)
Uziladi ==
    /\ ish \notin {"tinch", "ishlayapti", "yiqildi"}
    /\ ish' = "tinch" /\ qoldi' = <<>> /\ maqsad' = versiya
    /\ Boldi(IF ish = "pastga" THEN "yarim" ELSE "uzildi")
    /\ UNCHANGED <<sxema, versiya>>

SXNext ==
    \/ KonteynerBoshlanadi \/ MigratsiyaOladi \/ AmalBajariladi \/ AmalYiqiladi
    \/ VersiyaYoziladi \/ AlembicTugaydi \/ PastgaOladi
    \/ InitJadvallar \/ BelgilaYangi \/ BotBevosita \/ Toxtaydi \/ Uziladi

SXSpec == SXInit /\ [][SXNext]_sxvars

(* ------------------------------ properties ----------------------------- *)
SXTypeOK ==
    /\ versiya \in 0..OXIRGI /\ maqsad \in 0..OXIRGI /\ ish \in Ishlar /\ yol \in Seq(Hodisalar)
    /\ ish \notin {"alembic", "pastga"} => maqsad = versiya
    /\ ish \in {"tinch", "ishlayapti", "yiqildi"} => qoldi = <<>>

(* The running program finds every table and every column its models name, *)
(* however its database was brought up, whatever crash or downgrade came   *)
(* before: a column a migration adds must be one init_models can add too.  *)
KodTopadi ==
    ish = "ishlayapti" =>
        \A t \in DOMAIN Modellar :
            t \in DOMAIN sxema /\ DOMAIN Modellar[t].ustun \subseteq DOMAIN sxema[t].ustun

(* A container that came up, from any version and after any crash, runs on *)
(* exactly the models' schema: the chain of migrations and the models say  *)
(* the same of every column, index, unique constraint and foreign key, and *)
(* the half of a migration is never taken for the whole.                   *)
KonteynerToliq ==
    ish = "ishlayapti" /\ ToSet(yol) \cap {"bevosita", "yarim"} = {} =>
        sxema = Modellar /\ versiya = OXIRGI

(* Without a downgrade the recorded version is honest whenever init_models *)
(* is not at work, also where it stamped a database that a dead migration  *)
(* left without a version: every table and column of the models that the   *)
(* recorded revisions make is there.                                       *)
VersiyaRost ==
    "tushirildi" \notin ToSet(yol) /\ ish \notin {"seed", "bot"} =>
        \A t \in DOMAIN Sxemalar[versiya] \cap DOMAIN Modellar :
            /\ t \in DOMAIN sxema
            /\ DOMAIN Sxemalar[versiya][t].ustun \cap DOMAIN Modellar[t].ustun
                  \subseteq DOMAIN sxema[t].ustun

(* Bringing the schema up destroys nothing the program uses: outside a     *)
(* downgrade no table and no column of the models is ever dropped, by a    *)
(* migration, by init_models or by a crash between two operations.         *)
MalumotSaqlanadi ==
    [][ish # "pastga" =>
        \A t \in DOMAIN Modellar \cap DOMAIN sxema :
            /\ t \in DOMAIN sxema'
            /\ DOMAIN Modellar[t].ustun \cap DOMAIN sxema[t].ustun
                  \subseteq DOMAIN sxema'[t].ustun]_sxvars

(* The schema is whole for the code that runs, and the version says so.    *)
SxemaButun == SXTypeOK /\ KodTopadi /\ KonteynerToliq /\ VersiyaRost

(* scripts/start.sh:46 calls both steps of the start safe to repeat, and   *)
(* core/storage/database.py:186 sends the operator to `alembic upgrade     *)
(* head` for what init_models could not add: the upgrade must then pass.   *)
YangilashOtadi == ish # "yiqildi"
=============================================================================
