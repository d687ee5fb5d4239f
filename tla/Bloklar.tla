-------------------------------- MODULE Bloklar --------------------------------
(* The chain of four blocks: core/analysis/turlar.py and the functions that     *)
(* walk it, over one coin's checks.                                             *)
(*                                                                              *)
(* A block is what it counts: checks that say yes, checks that say no (a check  *)
(* with no data is in neither), a hard stop, and the least strength asked of it. *)
(* Four walkers read the same candles side by side:                             *)
(*    asosiy      zanjir_yur, the strategy's rule: one yes is enough            *)
(*    ikkilik     zanjir_yur with eng_kam_kuch = 2                              *)
(*    alternativ  zanjir_yur_alternativ, the one the bot signals by             *)
(*    soya        the same with a check or an alternative switched off          *)
(*                (ablation)                                                    *)
(* Their checks are the same but for one: pastki_tf of the fourth block looks   *)
(* for a confirmation in the walker's own zone, that of the alternative that    *)
(* saved its third block or the one zona_blok found.  The watch panel's walker, *)
(* kuzatuv_yur, reads candles of other timeframes and fundamentals of its own   *)
(* and never breaks off: it walks alone.                                        *)
EXTENDS Integers, Sequences, FiniteSets

CONSTANT Sanoqlar       \* what the checks of a block may say: [ha |-> n, yoq |-> m]

\* Four checks a block, some of them without data.
ASSUME BloklarFarazi ==
    \A s \in Sanoqlar : s \in [ha : 0..4, yoq : 0..4] /\ s.ha + s.yoq <= 4

VARIABLES
    tosiq,          \* a delisting, an unlock or a harmful event: the hard stop
    oquvchi,        \* whose candles these are: the chain's or the panel's
    ochirilgan,     \* what is switched off in the shadow: a kind of check of a
                    \* block, or an alternative (of block 0: of whichever has it)
    otadi,          \* whether the direction filter lets the coin through
    bosqich,        \* blocks walked so far
    zanjir          \* per walker, its blocks, where it broke (0: nowhere), its zone

bvars == <<tosiq, oquvchi, ochirilgan, otadi, bosqich, zanjir>>

Yuruvchilar == {"asosiy", "ikkilik", "alternativ", "soya", "kuzatuv"}

Alternativli == {"alternativ", "soya", "kuzatuv"}

\* The alternatives of a block, in the order they are tried.
alternativlar ==
    <<<<>>, <<"trend_flag", "qosh_tub">>, <<"qosh_tub", "oldingi_swing">>,
      <<"hajm_sakrashi", "tez_harakat", "qayta_sinov">>>>

AltNomlari == UNION {{alternativlar[n][i] : i \in DOMAIN alternativlar[n]} : n \in 1..4}

\* Where a zone comes from.
Manbalar == {"fibonacci", "qosh_tub", "oldingi_swing"}

BInit ==
    /\ tosiq \in BOOLEAN
    /\ oquvchi \in {"zanjir", "kuzatuv"}
    /\ ochirilgan \in [blok : 1..4, nima : {"ha", "yoq", "hammasi"}] \cup
                        [blok : {0}, nima : AltNomlari]
    /\ otadi \in BOOLEAN
    /\ bosqich = 0
    /\ zanjir = [y \in Yuruvchilar |-> [bloklar |-> <<>>, uzildi |-> 0, zona |-> "fibonacci"]]

------------------------------------------------------------------------------
(* Blok                                                                         *)

maxraj(b) == b.ha + b.yoq
olchanmadi(b) == maxraj(b) = 0

otdi(b) ==
    /\ ~b.tosiq
    /\ olchanmadi(b) \/ b.ha >= b.kam \/ b.ha = maxraj(b)

KUCHLI_ENG_KAM == 2

\* Mutant: an empty block is a weak one.
BoshHamZaif(b) == ~olchanmadi(b) /\ b.ha <= 1

blok_tasnifi_zaif(b) ==
    /\ ~olchanmadi(b)
    /\ ~(b.ha >= KUCHLI_ENG_KAM \/ b.ha = maxraj(b))
    /\ b.ha = 1

\* Mutant: the checks switched off are counted as failed.
OchirilganYoq(b) ==
    CASE ochirilgan.nima = "ha" /\ b.ha > 0   -> [b EXCEPT !.ha = @ - 1, !.yoq = @ + 1]
      [] ochirilgan.nima = "hammasi"          -> [b EXCEPT !.ha = 0, !.yoq = maxraj(b)]
      [] OTHER                                -> b

\* blok_sozla: what is switched off has no data, the rest is as it was.
Ochirilgani(b) ==
    CASE ochirilgan.nima = "ha" /\ b.ha > 0   -> [b EXCEPT !.ha = @ - 1]
      [] ochirilgan.nima = "yoq" /\ b.yoq > 0 -> [b EXCEPT !.yoq = @ - 1]
      [] ochirilgan.nima = "hammasi"          -> [b EXCEPT !.ha = 0, !.yoq = 0]
      [] OTHER                                -> b

blok_sozla(y, n, b) ==
    IF y = "soya" /\ n = ochirilgan.blok THEN Ochirilgani(b)
    ELSE [b EXCEPT !.kam = IF y = "ikkilik" THEN 2 ELSE 1]

\* The first alternative of the block that holds and is not switched off.
Golib(y, n, topilgan) ==
    LET bor == {i \in DOMAIN alternativlar[n] :
                   /\ alternativlar[n][i] \in topilgan
                   /\ ~(y = "soya" /\ ochirilgan.nima = alternativlar[n][i])}
    IN  IF bor = {} THEN "yoq" ELSE alternativlar[n][CHOOSE i \in bor : \A k \in bor : i <= k]

Qutqariladi(y, n, b) == n > 1 /\ y \in Alternativli /\ blok_tasnifi_zaif(b)

\* A weak block is saved by an alternative or fails; any other is as it was.
qutqar(y, n, b, topilgan) ==
    IF ~Qutqariladi(y, n, b) THEN b
    ELSE IF Golib(y, n, topilgan) # "yoq" THEN [b EXCEPT !.ha = @ + 1]
    ELSE [b EXCEPT !.kam = KUCHLI_ENG_KAM]

\* The alternatives of the third block have a zone, which takes the place of the found.
zona_bilan(y, n, b, topilgan) ==
    IF n = 3 /\ Qutqariladi(y, n, b) /\ Golib(y, n, topilgan) # "yoq"
    THEN Golib(y, n, topilgan) ELSE zanjir[y].zona

------------------------------------------------------------------------------
(* fundamental_recheck.py: the verdict of the first block, then and now.  No    *)
(* caller hands an older one, so both are the block of this walk.               *)

fundamental_hamon_mos(eski, yangi) ==
    IF olchanmadi(eski) \/ olchanmadi(yangi) THEN "malumot_yoq"
    ELSE IF ~yangi.tosiq /\ otdi(yangi) /\ yangi.ha >= eski.ha - 1 THEN "ha" ELSE "yoq"

\* The check of a zone: a mini break of structure or a mini sweep in it.
pastki_tf_tasdigi(y, tasdiqli) == zanjir[y].zona \in tasdiqli

\* The fourth block: sweep and RSI, the walker's own zone, and fundamental_mos.
tasdiqlash_blok(y, xom, b1, tasdiqli) ==
    LET mos    == fundamental_hamon_mos(b1, b1)
        pastki == pastki_tf_tasdigi(y, tasdiqli)
    IN  [xom EXCEPT !.ha = @ + (IF pastki THEN 1 ELSE 0) + (IF mos = "ha" THEN 1 ELSE 0),
                    !.yoq = @ + (IF pastki THEN 0 ELSE 1) + (IF mos = "yoq" THEN 1 ELSE 0)]

\* Block n of walker y as its checks make it, before any alternative.
Blok(y, n, sanoq, tasdiqli) ==
    LET xom == [ha |-> sanoq.ha, yoq |-> sanoq.yoq, tosiq |-> n = 1 /\ tosiq, kam |-> 1]
    IN  blok_sozla(y, n, IF n = 4 THEN tasdiqlash_blok(y, xom, zanjir[y].bloklar[1], tasdiqli)
                         ELSE xom)

\* Whether walker y makes its next block at all.
Yuradi(y) ==
    /\ y = "kuzatuv" <=> oquvchi = "kuzatuv"
    /\ zanjir[y].uzildi = 0
    /\ y = "kuzatuv" => otadi

Uzilish(y, n, b) == IF y = "kuzatuv" \/ otdi(b) THEN 0 ELSE n

\* One block more: what its checks say, which alternatives hold, and, in the fourth,
\* in which zones the lower timeframe confirms.
BlokYurildi ==
    /\ bosqich < 4
    /\ bosqich' = bosqich + 1
    /\ \E sanoq \in Sanoqlar, topilgan \in SUBSET AltNomlari, tasdiqli \in SUBSET Manbalar :
          LET n == bosqich + 1 IN
          /\ topilgan \subseteq {alternativlar[n][i] : i \in DOMAIN alternativlar[n]}
          /\ n < 4 => tasdiqli = {}
          /\ n = 4 => sanoq.ha + sanoq.yoq \in 1..2
          /\ zanjir' = [y \in Yuruvchilar |->
                 IF ~Yuradi(y) THEN zanjir[y]
                 ELSE LET xom == Blok(y, n, sanoq, tasdiqli)
                          b   == qutqar(y, n, xom, topilgan) IN
                      [bloklar |-> Append(zanjir[y].bloklar, b),
                       uzildi |-> Uzilish(y, n, b),
                       zona |-> zona_bilan(y, n, xom, topilgan)]]
    /\ UNCHANGED <<tosiq, oquvchi, ochirilgan, otadi>>

BNext == BlokYurildi

BSpec == BInit /\ [][BNext]_bvars

------------------------------------------------------------------------------
(* What must hold of the walkers.                                               *)

toliq(y) == y # "kuzatuv" /\ zanjir[y].uzildi = 0 /\ Len(zanjir[y].bloklar) = 4

\* A walker has as many blocks as steps were taken before it broke, and only its
\* last block may be one that failed.
BTypeOK ==
    \A y \in Yuruvchilar \ {"kuzatuv"} :
        /\ Len(zanjir[y].bloklar) = IF oquvchi = "kuzatuv" THEN 0
                                    ELSE IF zanjir[y].uzildi = 0 THEN bosqich ELSE zanjir[y].uzildi
        /\ \A n \in 1..Len(zanjir[y].bloklar) : otdi(zanjir[y].bloklar[n]) <=> n # zanjir[y].uzildi
        /\ zanjir[y].zona \in Manbalar

\* The alternatives make the chain stricter (alternative_chain.py, "KUCHLI = >=2/N"):
\* every candidate of the rule "two of four" is one of the alternative chain's, and
\* every candidate of the alternative chain is one of the strategy's, but for one that
\* an alternative zone has confirmed, where the last block was the strategy's whole
\* trouble and the fundamentals of the coin are not known.
AltOraliqda ==
    /\ toliq("alternativ") =>
          \/ toliq("asosiy")
          \/ /\ zanjir["asosiy"].uzildi = 4
             /\ zanjir["alternativ"].zona # "fibonacci"
             /\ olchanmadi(zanjir["asosiy"].bloklar[1])
    /\ toliq("ikkilik") => toliq("alternativ")

\* The panel shows a coin that passed the filter with all its blocks, a hard stop
\* or an empty block notwithstanding; a coin the filter stopped has none.
KuzatuvUzilmaydi ==
    Len(zanjir["kuzatuv"].bloklar) = IF oquvchi = "kuzatuv" /\ otadi THEN bosqich ELSE 0

\* Switching off a failed check costs a candidate only where it changes the zone (the
\* weak third block has become a strong one and no alternative is asked), and a block
\* switched off whole is silent: it neither breaks the chain nor speaks for it.  A hard
\* stop is no check and cannot be switched off.
AblatsiyaHalol ==
    /\ /\ ochirilgan.nima = "yoq" /\ toliq("alternativ")
       /\ zanjir["soya"].zona = zanjir["alternativ"].zona
       => toliq("soya")
    /\ ochirilgan.nima = "hammasi" => tosiq \/ zanjir["soya"].uzildi # ochirilgan.blok
    /\ tosiq => ~toliq("soya")

\* A complete alternative chain has at least two fifths of the votes in every
\* block it measured after the first, hence that much confidence in them; the first
\* has no alternatives, and one yes in four is enough there.
IshonchPoli ==
    toliq("alternativ") =>
        \A n \in 2..4 : LET b == zanjir["alternativ"].bloklar[n] IN 5 * b.ha >= 2 * maxraj(b)

\* The last block can stop the strategy's chain only for a coin whose first block
\* was not measured: fundamental_mos is a vote the first block has already won.
TasdiqBepulOvoz ==
    zanjir["asosiy"].uzildi = 4 => olchanmadi(zanjir["asosiy"].bloklar[1])

\* The walkers of the same candles agree on what a candidate is, and a candidate has
\* the votes it is said to have.
YuruvchilarTogri ==
    /\ BTypeOK /\ AltOraliqda /\ KuzatuvUzilmaydi
    /\ AblatsiyaHalol /\ IshonchPoli /\ TasdiqBepulOvoz

=============================================================================
