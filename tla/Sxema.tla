-------------------------------- MODULE Sxema --------------------------------
(***************************************************************************)
(* A database schema and the operations migrations are made of.  A schema  *)
(* is a function from the names of its tables; a table is its columns, its *)
(* plain and its unique indexes (named unique constraints among them) and  *)
(* its foreign keys.  A column is                                          *)
(*   "X"   NOT NULL, the program supplies the value;                       *)
(*   "D"   NOT NULL with a server default;                                 *)
(*   "N"   may be NULL;                                                    *)
(*   "ND"  may be NULL, with a server default.                             *)
(***************************************************************************)
EXTENDS Naturals, Sequences, SequencesExt

VaqtUstunlari == {"created_at", "updated_at"}

(* A column that refers to a row of another table, and what happens to it  *)
(* when that row goes: ondelete="CASCADE" or "SET NULL".                   *)
Kaskad(ustun, jadval) == <<ustun, jadval, "CASCADE">>
Boshatadi(ustun, jadval) == <<ustun, jadval, "SET NULL">>

Ustunlar(majburiy, standartli, boshliq) ==
    [u \in majburiy \cup standartli \cup boshliq |->
        IF u \in majburiy THEN "X" ELSE IF u \in standartli THEN "D" ELSE "N"]

(* The class of a model: id, the two timestamps (TimestampMixin) and its   *)
(* own columns, with its indexes and unique constraints.                   *)
Jadval(majburiy, standartli, boshliq, indekslar, yagonalar, kalitlar) ==
    [ustun  |-> Ustunlar(majburiy \cup {"id"}, standartli \cup VaqtUstunlari, boshliq),
     indeks |-> indekslar, yagona |-> yagonalar, kalit |-> kalitlar]

(* A table as op.create_table makes it, before any op.create_index: with   *)
(* the server default of the timestamps, and without it.                   *)
Asosiy(majburiy, standartli, boshliq, yagonalar, kalitlar) ==
    Jadval(majburiy, standartli, boshliq, {}, yagonalar, kalitlar)
Vaqtsiz(majburiy, standartli, boshliq, yagonalar, kalitlar) ==
    [Asosiy(majburiy, standartli, boshliq, yagonalar, kalitlar) EXCEPT
        !.ustun = Ustunlar(majburiy \cup {"id"} \cup VaqtUstunlari, standartli, boshliq)]

(* ------------------------------ operations ----------------------------- *)
Yarat(jadval, ta) == [amal |-> "create_table", jadval |-> jadval, tarif |-> ta]
Tashla(jadval) == [amal |-> "drop_table", jadval |-> jadval]
Qosh(jadval, ustun, tur) ==
    [amal |-> "add_column", jadval |-> jadval, nom |-> ustun, tur |-> tur]
UstunTashla(jadval, ustun) == [amal |-> "drop_column", jadval |-> jadval, nom |-> ustun]
Ozgartir(jadval, ustun, tur) ==
    [amal |-> "alter_column", jadval |-> jadval, nom |-> ustun, tur |-> tur]
Indeks(jadval, nom) == [amal |-> "create_index", jadval |-> jadval, nom |-> nom, yagona |-> FALSE]
Yagona(jadval, nom) == [amal |-> "create_index", jadval |-> jadval, nom |-> nom, yagona |-> TRUE]
IndeksTashla(jadval, nom) == [amal |-> "drop_index", jadval |-> jadval, nom |-> nom]

(* Several columns of one kind, added one after another. *)
HarBirini(jadval, nomlar, tur) == [k \in DOMAIN nomlar |-> Qosh(jadval, nomlar[k], tur)]

Qoshuvchi == {"create_table", "add_column", "create_index"}

(* The operation that undoes one that adds. *)
TeskariAmal(a) ==
    CASE a.amal = "create_table" -> Tashla(a.jadval)
      [] a.amal = "add_column"   -> UstunTashla(a.jadval, a.nom)
      [] a.amal = "create_index" -> IndeksTashla(a.jadval, a.nom)

Teskari(amallar) == [k \in DOMAIN amallar |-> TeskariAmal(amallar[Len(amallar) + 1 - k])]

(* A revision whose downgrade() is its upgrade() undone, backwards. *)
Qaytariladi(amallar) == [yuqori |-> amallar, pastga |-> Teskari(amallar)]

(* Does the database accept the operation? *)
Otadi(s, a) ==
    IF a.amal = "create_table" THEN a.jadval \notin DOMAIN s
    ELSE /\ a.jadval \in DOMAIN s
         /\ a.amal = "add_column" => a.nom \notin DOMAIN s[a.jadval].ustun
         /\ a.amal \in {"drop_column", "alter_column"} => a.nom \in DOMAIN s[a.jadval].ustun
         /\ a.amal = "create_index" => a.nom \notin s[a.jadval].indeks \cup s[a.jadval].yagona
         /\ a.amal = "drop_index" => a.nom \in s[a.jadval].indeks \cup s[a.jadval].yagona

(* The schema after the operation. *)
Bajar(s, a) ==
    CASE a.amal = "create_table" ->
            [t \in DOMAIN s \cup {a.jadval} |-> IF t = a.jadval THEN a.tarif ELSE s[t]]
      [] a.amal = "drop_table"   -> [t \in DOMAIN s \ {a.jadval} |-> s[t]]
      [] a.amal \in {"add_column", "alter_column"} ->
            [s EXCEPT ![a.jadval].ustun =
                [u \in DOMAIN @ \cup {a.nom} |-> IF u = a.nom THEN a.tur ELSE @[u]]]
      [] a.amal = "drop_column"  ->
            [s EXCEPT ![a.jadval].ustun = [u \in DOMAIN @ \ {a.nom} |-> @[u]]]
      [] a.amal = "create_index" ->
            IF a.yagona THEN [s EXCEPT ![a.jadval].yagona = @ \cup {a.nom}]
                        ELSE [s EXCEPT ![a.jadval].indeks = @ \cup {a.nom}]
      [] a.amal = "drop_index"   ->
            [s EXCEPT ![a.jadval].indeks = @ \ {a.nom}, ![a.jadval].yagona = @ \ {a.nom}]
=============================================================================
