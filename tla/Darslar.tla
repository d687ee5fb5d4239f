-------------------------------- MODULE Darslar --------------------------------
(******************************************************************************)
(* A lesson's video: the site writes the file and names it in the row; the    *)
(* bot's timer sends the file to Telegram once and stores the file_id it got. *)
(* The site may replace or delete a lesson in the middle of either.           *)
(******************************************************************************)
EXTENDS Naturals, Sequences, SequencesExt, FiniteSets, FiniteSetsExt

CONSTANTS
    DarsIdlar,   \* 1..n, lesson ids
    Fayllar,    \* file names, each new (yangiNom)
    Hech,       \* null
    LIMIT       \* pending_upload's limit

ASSUME DarsFarazi ==
    /\ IsFiniteSet(DarsIdlar) /\ DarsIdlar = 1..Cardinality(DarsIdlar)
    /\ Hech \notin Fayllar /\ LIMIT \in Nat \ {0}

VARIABLES
    darslar,    \* content: id -> [video, file_id] or Hech
    disk,       \* the files of the video directory
    yuklash,    \* uploads under way: [dars, fayl, ish] with ish "yozildi" or "eski"
    navbat,     \* the timer's list: <<id, file name>> read before any sending
    javob,      \* the file_id Telegram returned for Head(navbat), or Hech
    nomlangan,  \* names given so far
    tarix,      \* id -> files the row of this id ever named
    yuborilgan  \* id -> times the present row was sent in this life of the bot

dvars == <<darslar, disk, yuklash, navbat, javob, nomlangan, tarix, yuborilgan>>

DInit ==
    /\ darslar = [d \in DarsIdlar |-> Hech]
    /\ disk = {} /\ yuklash = {} /\ navbat = <<>> /\ javob = Hech /\ nomlangan = {}
    /\ tarix = [d \in DarsIdlar |-> {}]
    /\ yuborilgan = [d \in DarsIdlar |-> 0]

(* A new lesson has no video yet and takes the highest id plus one. *)
darsSaqla ==
    LET d == 1 + Max({0} \cup {x \in DarsIdlar : darslar[x] # Hech}) IN
    /\ d \in DarsIdlar
    /\ darslar' = [darslar EXCEPT ![d] = [video |-> Hech, file_id |-> Hech]]
    /\ yuborilgan' = [yuborilgan EXCEPT ![d] = 0]
    /\ UNCHANGED <<disk, yuklash, navbat, javob, nomlangan, tarix>>

(* Only the row goes: its file stays on the disk. *)
darsOchir(d) ==
    /\ darslar[d] # Hech
    /\ darslar' = [darslar EXCEPT ![d] = Hech]
    /\ UNCHANGED <<disk, yuklash, navbat, javob, nomlangan, tarix, yuborilgan>>

(******************************************************************************)
(* The upload.                                                                *)
(******************************************************************************)
(* The body is streamed under a new name; a broken stream removes what was    *)
(* written and is no step here.  The lesson may have any id, also none's.     *)
FaylYoziladi(d, f) ==
    /\ f \notin nomlangan
    /\ nomlangan' = nomlangan \cup {f}
    /\ disk' = disk \cup {f}
    /\ yuklash' = yuklash \cup {[dars |-> d, fayl |-> f, ish |-> "yozildi"]}
    /\ UNCHANGED <<darslar, navbat, javob, tarix, yuborilgan>>

(* The row names the new file; file_id is left as it was.  The old name comes *)
(* back to be removed after.                                                  *)
videoBiriktir(y) ==
    LET eski == darslar[y.dars].video IN
    /\ y.ish = "yozildi" /\ darslar[y.dars] # Hech
    /\ darslar' = [darslar EXCEPT ![y.dars].video = y.fayl]
    /\ tarix' = [tarix EXCEPT ![y.dars] = @ \cup {y.fayl}]
    /\ yuklash' = (yuklash \ {y}) \cup
           (IF eski = Hech THEN {} ELSE {[dars |-> y.dars, fayl |-> eski, ish |-> "eski"]})
    /\ UNCHANGED <<disk, navbat, javob, nomlangan, yuborilgan>>

\* Mutant: the old file goes before the row names the new one.
AvvalOchadi(y) ==
    /\ darslar[y.dars] # Hech
    /\ disk' = disk \ {darslar[y.dars].video}
    /\ UNCHANGED <<darslar, yuklash, navbat, javob, nomlangan, tarix, yuborilgan>>

(* unlink: of the file that was replaced, or of a new one whose lesson is no  *)
(* longer there.                                                              *)
FaylOchadi(y) ==
    /\ y.ish = "eski" \/ darslar[y.dars] = Hech
    /\ disk' = disk \ {y.fayl}
    /\ yuklash' = yuklash \ {y}
    /\ UNCHANGED <<darslar, navbat, javob, nomlangan, tarix, yuborilgan>>

(* The site's restart forgets the upload; the file stays. *)
YuklashUziladi(y) ==
    /\ yuklash' = yuklash \ {y}
    /\ UNCHANGED <<darslar, disk, navbat, javob, nomlangan, tarix, yuborilgan>>

(******************************************************************************)
(* The bot's timer, one pass at a time.                                       *)
(******************************************************************************)
Kutayotganlar ==
    {d \in DarsIdlar : darslar[d] # Hech /\ darslar[d].video # Hech /\ darslar[d].file_id = Hech}

(* The lowest ids first, at most the limit. *)
Navbatdagilar ==
    {d \in Kutayotganlar : Cardinality({x \in Kutayotganlar : x < d}) < LIMIT}

pending_upload ==
    /\ navbat = <<>> /\ Kutayotganlar # {}
    /\ \E ids \in SetToSeqs(Navbatdagilar) :
          /\ \A i, k \in DOMAIN ids : i < k => ids[i] < ids[k]
          /\ navbat' = [i \in DOMAIN ids |-> <<ids[i], darslar[ids[i]].video>>]
    /\ UNCHANGED <<darslar, disk, yuklash, javob, nomlangan, tarix, yuborilgan>>

(* A file that is gone, a sending that failed or an answer without a video:   *)
(* the lesson is left for the next pass.                                      *)
Yuborilmaydi ==
    /\ navbat # <<>> /\ javob = Hech
    /\ navbat' = Tail(navbat)
    /\ UNCHANGED <<darslar, disk, yuklash, javob, nomlangan, tarix, yuborilgan>>

Yuboriladi ==
    /\ navbat # <<>> /\ javob = Hech
    /\ Head(navbat)[2] \in disk
    /\ javob' = Head(navbat)[2]
    /\ yuborilgan' = [yuborilgan EXCEPT ![Head(navbat)[1]] = @ + 1]
    /\ UNCHANGED <<darslar, disk, yuklash, navbat, nomlangan, tarix>>

Egasi(d) == d

(* set_file_id: by id, whatever the row is by now. *)
set_file_id ==
    LET d == Egasi(Head(navbat)[1]) IN
    /\ navbat # <<>> /\ javob # Hech
    /\ darslar' = IF darslar[d] = Hech THEN darslar
                  ELSE [darslar EXCEPT ![d].file_id = javob]
    /\ navbat' = Tail(navbat)
    /\ javob' = Hech
    /\ UNCHANGED <<disk, yuklash, nomlangan, tarix, yuborilgan>>

DBotQayta ==
    /\ navbat' = <<>> /\ javob' = Hech
    /\ yuborilgan' = [d \in DarsIdlar |-> 0]
    /\ UNCHANGED <<darslar, disk, yuklash, nomlangan, tarix>>

DNext ==
    \/ darsSaqla
    \/ \E d \in DarsIdlar : darsOchir(d) \/ \E f \in Fayllar : FaylYoziladi(d, f)
    \/ \E y \in yuklash : videoBiriktir(y) \/ FaylOchadi(y) \/ YuklashUziladi(y)
    \/ pending_upload \/ Yuborilmaydi \/ Yuboriladi \/ set_file_id
    \/ DBotQayta

DSpec == DInit /\ [][DNext]_dvars

(******************************************************************************)
(* Properties.                                                                *)
(******************************************************************************)
\* The video the site plays is on the disk at every moment of a replacement,
\* with two replacements of one lesson at once and a restart in the middle.
VideoDiskda ==
    \A d \in DarsIdlar : darslar[d] # Hech =>
        darslar[d].video = Hech \/ darslar[d].video \in disk

\* The copy the bot sends is of a file that stood under this lesson's id, never
\* of another lesson of the same pass.
NusxaOzidan ==
    \A d \in DarsIdlar : darslar[d] # Hech =>
        darslar[d].file_id = Hech \/ darslar[d].file_id \in tarix[d]

\* A lesson goes to Telegram once in a life of the bot, although the list was
\* read before the sendings and each answer is stored on its own.
BirMartaYuboriladi == \A d \in DarsIdlar : yuborilgan[d] <= 1

\* A lesson has its file and its own copy in Telegram, sent once.
DarsButun == VideoDiskda /\ NusxaOzidan /\ BirMartaYuboriladi

=============================================================================
