---------------------------- MODULE SignalIsboti ----------------------------
(***************************************************************************)
(* Proofs about the two writers of a signal's row: the cycle that makes    *)
(* signals (ZanjirSikl) and the watcher that moves them                    *)
(* (SignalKuzatuvchi). First the watcher, for every number of targets,     *)
(* every time limit, every window and every length of the market; then the *)
(* cycle, for every number of coins, zones and signals.                    *)
(*                                                                         *)
(* What the watched row says is not inductive: the run writes it from its  *)
(* working state, which it built from a snapshot and from the candles it   *)
(* passed. IInv therefore speaks of the row, of the snapshot and of the    *)
(* working state at once, and ties them together while a run holds a       *)
(* snapshot.                                                               *)
(***************************************************************************)
EXTENDS ZanjirSikl, SignalKuzatuvchi, FiniteSetTheorems, TLAPS


Savdoda == {"active", "tp1_hit"}
Kirgan == Savdoda \cup {"tp2_hit", "stopped", "timed_out"}

(* The limit was filled at or before candle j. *)
Oldin(j) == \E f \in 1..j : Kirdi(f)

Kirildi == \E f \in 1..Len(bozor) : Kirdi(f)

(* The first candle a run that starts now from the row y would read. *)
Boshi(y) ==
    IF Len(bozor) - Oyna + 1 > Bosh(y) THEN Len(bozor) - Oyna + 1 ELSE Bosh(y)

(* Among the candles a run from y reads, a target is met only once the      *)
(* limit was filled: replaying them cannot count a target of before.        *)
TpKirgandan(y) ==
    \A j \in Boshi(y)..Len(bozor) : bozor[j].high >= 1 => Oldin(j)

(* A row of the database, or a snapshot of one. *)
QatorAsosi(y) ==
    /\ y.activated_at = YOQ \/ y.activated_at >= 1
    /\ y.status = "pending" => y.activated_at = YOQ
    /\ y.reached_tps = IF y.tp1_reached THEN 1 ELSE 0
    /\ y.status = "tp1_hit" => y.tp1_reached
    /\ y.status \in {"pending", "active"} => ~y.tp1_reached
    /\ y.status \in Savdoda => Kirildi /\ TpKirgandan(y)
    /\ y.tp1_reached => TpKorildi(1)

(* While a run holds a snapshot, the row moves only by a cancellation or a  *)
(* deletion.                                                               *)
NusxaBogliq ==
    pc # "kutish" =>
        /\ nusxa.status \in OchiqHolatlar
        /\ yozuv.status # OCHIRILGAN =>
              /\ yozuv.status \in {nusxa.status, "cancelled"}
              /\ yozuv.activated_at = nusxa.activated_at
              /\ yozuv.tp1_reached = nusxa.tp1_reached

(* A stop is where the price was; a stop at the entry follows TP1. *)
StopAsosi(narx) ==
    \/ narx = STOP /\ \E j \in 1..Len(bozor) : bozor[j].low = STOP
    \/ narx = ENTRY /\ TpKorildi(1)

(* What a working state knows of the market. *)
HolatAsosi(h) ==
    /\ h.status \in Kirgan => Kirildi
    /\ h.status \in Savdoda => TpKirgandan(nusxa)
    /\ h.olingan_tp >= 1 => TpKorildi(h.olingan_tp)
    /\ h.stop = ENTRY => TpKorildi(1)
    /\ h.status \in {"pending", "active"} => h.olingan_tp = 0
    /\ h.status = "tp1_hit" => h.olingan_tp >= 1
    /\ h.status = "pending" => nusxa.status = "pending"
    /\ h.status = "active" => nusxa.status \in {"pending", "active"}

(* What a working state knows of its last candle. *)
NatijaAsosi(h) ==
    /\ h.vaqt = kursor
    /\ h.status = "tp2_hit" => TpKorildi(TPSoni)
    /\ h.status = "stopped" => StopAsosi(h.narx)
    /\ h.status \in Savdoda => kursor - Bosh(nusxa) < Muddat(h.olingan_tp)

(* From the first candle to the write. *)
YurishAsosi ==
    pc \in {"sham", "yozish"} => kursor \in 1..Len(bozor) /\ HolatAsosi(holat)

(* While the limit waits, no candle that was passed met a target. *)
TpUchramagan(t) == \A j \in Boshi(nusxa)..(t - 1) : bozor[j].high = 0

(* In the loop the trade is still open. *)
SiklAsosi ==
    pc = "sham" =>
        /\ kursor >= Boshi(nusxa)
        /\ holat.status \in OchiqHolatlar
        /\ holat.status = "pending" => TpUchramagan(kursor)

(* After it there is something to write. *)
YozishAsosi ==
    pc = "yozish" =>
        /\ holat.status \notin {nusxa.status, "pending"}
        /\ NatijaAsosi(holat)

IInv ==
    /\ TypeOK
    /\ QatorAsosi(yozuv)
    /\ QatorAsosi(nusxa)
    /\ NusxaBogliq
    /\ YurishAsosi
    /\ SiklAsosi
    /\ YozishAsosi
    /\ NatijaBozordan
    /\ MuddatOtmagan
    /\ Tp1IkkiManba
    /\ korilgan <= Len(bozor)

----------------------------------------------------------------------------
(* The market: what was once seen on it stays seen. *)

(* A candle of the market may be added, and the last one may widen. *)
Osish ==
    /\ bozor' \in Seq(Sham)
    /\ Len(bozor') \in {Len(bozor), Len(bozor) + 1}
    /\ \A i \in 1..Len(bozor) :
          bozor'[i].low <= bozor[i].low /\ bozor'[i].high >= bozor[i].high
    /\ \A i \in 1..(Len(bozor) - 1) : bozor'[i] = bozor[i]

(* The prices of a candle are comparable numbers. *)
LEMMA ShamTuri ==
    ASSUME NEW s \in Sham
    PROVE  s.low \in Int /\ s.low >= STOP /\ s.high \in Int /\ s.high \in 0..TPSoni
<1>1. s.low \in 0..2 /\ s.high \in 0..TPSoni
    BY DEF Sham, STOP, ENTRY
<1>2. 0..TPSoni \subseteq Int
    BY QoidaFarazi
<1>. QED BY <1>1, <1>2 DEF STOP

(* Both moves of the market, a new candle and a wider newest one, do so. *)
LEMMA BozorOsadi ==
    ASSUME TypeOK, NEW s \in Sham, YangiSham(s) \/ ShamOsadi(s)
    PROVE  Osish
<1>. USE DEF TypeOK, Osish
<1>1. CASE YangiSham(s)
    <2>1. /\ bozor' \in Seq(Sham)
          /\ Len(bozor') = Len(bozor) + 1
          /\ \A i \in 1..Len(bozor) : bozor'[i] = bozor[i]
        BY <1>1 DEF YangiSham
    <2>2. \A i \in 1..Len(bozor) : bozor[i].low \in Int /\ bozor[i].high \in Int
        BY ShamTuri
    <2>. QED BY <2>1, <2>2
<1>2. CASE ShamOsadi(s)
    <2>0. bozor \in Seq(Sham) /\ bozor # <<>>
        BY <1>2 DEF ShamOsadi
    <2>. DEFINE n == Len(bozor)
    <2>1. n \in Nat \ {0}
        BY <2>0
    <2>2. bozor' = [bozor EXCEPT ![n] = s]
        BY <1>2 DEF ShamOsadi
    <2>3. /\ bozor' \in Seq(Sham)
          /\ Len(bozor') = n
          /\ \A i \in 1..(n - 1) : bozor'[i] = bozor[i]
          /\ bozor'[n] = s
        BY <2>0, <2>1, <2>2
    <2>4. s.low <= bozor[n].low /\ s.high >= bozor[n].high
        BY <1>2 DEF ShamOsadi
    <2>5. \A i \in 1..n : bozor[i].low \in Int /\ bozor[i].high \in Int
        BY <2>0, ShamTuri
    <2>. QED BY <2>1, <2>3, <2>4, <2>5
<1>. QED BY <1>1, <1>2

(* Fills, targets and stops seen on the market are not undone by it. *)
LEMMA Saqlanadi ==
    ASSUME TypeOK, Osish
    PROVE  /\ \A f : Kirdi(f) => Kirdi(f)'
           /\ \A j : Oldin(j) => Oldin(j)'
           /\ Kirildi => Kirildi'
           /\ \A k \in Int : TpKorildi(k) => TpKorildi(k)'
           /\ \A x : StopAsosi(x) => StopAsosi(x)'
<1>1. \A i \in 1..Len(bozor) :
        /\ bozor[i].low \in Int /\ bozor[i].high \in Int
        /\ bozor'[i].low \in Int /\ bozor'[i].high \in Int
        /\ bozor'[i].low >= STOP
    BY ShamTuri DEF TypeOK, Osish
<1>2. 1..Len(bozor) \subseteq 1..Len(bozor')
    BY DEF TypeOK, Osish
<1>3. \A f : Kirdi(f) => Kirdi(f)'
    BY <1>1, <1>2 DEF Kirdi, LimitgaTegdi, Osish, STOP, ENTRY
<1>4. \A j : Oldin(j) => Oldin(j)'
    BY <1>3 DEF Oldin
<1>5. Kirildi => Kirildi'
    BY <1>2, <1>3 DEF Kirildi
<1>6. \A k \in Int : TpKorildi(k) => TpKorildi(k)'
    <2>. SUFFICES ASSUME NEW k \in Int, TpKorildi(k)
                  PROVE  TpKorildi(k)'
        OBVIOUS
    <2>1. PICK j \in 1..Len(bozor) : bozor[j].high >= k /\ \E f \in 1..j : Kirdi(f)
        BY DEF TpKorildi
    <2>2. bozor'[j].high >= k /\ j \in 1..Len(bozor')
        BY <1>1, <1>2, <2>1 DEF Osish
    <2>. QED BY <1>3, <2>1, <2>2 DEF TpKorildi
<1>7. ASSUME NEW j \in 1..Len(bozor), bozor[j].low = STOP
      PROVE  \E i \in 1..Len(bozor') : bozor'[i].low = STOP
    BY <1>1, <1>2, <1>7 DEF Osish, STOP, ENTRY
<1>8. \A x : StopAsosi(x) => StopAsosi(x)'
    BY <1>6, <1>7 DEF StopAsosi
<1>. QED BY <1>3, <1>4, <1>5, <1>6, <1>8

(* A run starts where the row says, never before the signal was created. *)
LEMMA BoshTuri ==
    ASSUME NEW y \in Yozuv, y.activated_at = YOQ \/ y.activated_at >= 1
    PROVE  Bosh(y) \in Nat \ {0}
BY DEF Yozuv, Bosh, YARATILGAN, YOQ

(* A replay that meets no target before the fill still meets none. *)
LEMMA TpSaqlanadi ==
    ASSUME TypeOK, Osish,
           NEW y \in Yozuv, y.activated_at = YOQ \/ y.activated_at >= 1,
           Kirildi, TpKirgandan(y)
    PROVE  TpKirgandan(y)'
<1>1. Bosh(y) \in Nat \ {0} /\ Len(bozor) \in Nat /\ Len(bozor') \in Nat /\ Oyna \in Nat
    BY BoshTuri, KuzatuvFarazi DEF TypeOK, Osish
<1>2. Len(bozor') = Len(bozor) \/ Len(bozor') = Len(bozor) + 1
    BY DEF Osish
<1>3. \A j \in Int : j >= Len(bozor) => Oldin(j)
    BY <1>1 DEF Kirildi, Oldin
<1>4. SUFFICES ASSUME NEW j \in Boshi(y)'..Len(bozor'), bozor'[j].high >= 1
               PROVE  Oldin(j)'
    BY DEF TpKirgandan
<1>5. j \in Int /\ j >= 1 /\ j \in Boshi(y)..Len(bozor')
    BY <1>1, <1>2 DEF Boshi
<1>6. CASE j < Len(bozor)
    <2>1. bozor'[j] = bozor[j]
        BY <1>1, <1>5, <1>6 DEF Osish
    <2>2. Oldin(j)
        BY <1>1, <1>4, <1>5, <1>6, <2>1 DEF TpKirgandan
    <2>. QED BY <2>2, Saqlanadi
<1>7. CASE j >= Len(bozor)
    BY <1>3, <1>5, <1>7, Saqlanadi
<1>. QED BY <1>1, <1>5, <1>6, <1>7

(* A snapshot or a row keeps its grounds while the market moves. *)
LEMMA QatorSaqlanadi ==
    ASSUME TypeOK, Osish, NEW y \in Yozuv, QatorAsosi(y)
    PROVE  QatorAsosi(y)'
<1>1. y.tp1_reached => TpKorildi(1)'
    BY Saqlanadi DEF QatorAsosi
<1>2. y.status \in Savdoda => Kirildi' /\ TpKirgandan(y)'
    BY Saqlanadi, TpSaqlanadi DEF QatorAsosi
<1>. QED BY <1>1, <1>2 DEF QatorAsosi

(* No move of the market breaks the invariant. *)
LEMMA BozorQadami ==
    ASSUME IInv, NEW s \in Sham, YangiSham(s) \/ ShamOsadi(s)
    PROVE  IInv'
<1>1. TypeOK /\ Osish
    BY BozorOsadi DEF IInv
<1>2. /\ yozuv' = yozuv /\ hodisalar' = hodisalar /\ pc' = pc /\ nusxa' = nusxa
      /\ holat' = holat /\ kursor' = kursor /\ korilgan' = korilgan
      /\ pc # "sham"
    BY DEF YangiSham, ShamOsadi, yurish
<1>3. TypeOK'
    BY <1>1, <1>2 DEF TypeOK, Osish
<1>4. QatorAsosi(yozuv)' /\ QatorAsosi(nusxa)'
    BY <1>1, <1>2, QatorSaqlanadi DEF IInv, TypeOK
<1>5. NusxaBogliq'
    BY <1>2 DEF IInv, NusxaBogliq
<1>6. Len(bozor) \in Nat /\ Len(bozor') \in Nat /\ Len(bozor') >= Len(bozor)
    BY <1>1 DEF TypeOK, Osish
<1>7. YurishAsosi'
    <2>. SUFFICES ASSUME pc = "yozish" PROVE YurishAsosi'
        BY <1>2 DEF YurishAsosi
    <2>1. /\ HolatAsosi(holat) /\ kursor \in 1..Len(bozor)
          /\ QatorAsosi(nusxa) /\ nusxa \in Yozuv /\ holat.olingan_tp \in Int
        BY <1>1, QoidaFarazi DEF IInv, YurishAsosi, TypeOK, Holat
    <2>2. holat.status \in Savdoda => TpKirgandan(nusxa)'
        <3>1. holat.status \in Savdoda => Kirildi /\ TpKirgandan(nusxa)
            BY <2>1 DEF HolatAsosi, Kirgan
        <3>. QED BY <1>1, <1>2, <2>1, <3>1, TpSaqlanadi DEF QatorAsosi
    <2>3. /\ holat.olingan_tp >= 1 => TpKorildi(holat.olingan_tp)'
          /\ holat.status \in Kirgan => Kirildi'
          /\ holat.stop = ENTRY => TpKorildi(1)'
        BY <1>1, <1>2, <2>1, Saqlanadi DEF HolatAsosi
    <2>4. kursor \in 1..Len(bozor')
        BY <1>6, <2>1
    <2>. QED BY <1>2, <2>1, <2>2, <2>3, <2>4 DEF YurishAsosi, HolatAsosi
<1>8. SiklAsosi'
    BY <1>2 DEF SiklAsosi
<1>9. YozishAsosi'
    <2>1. TPSoni \in Int
        BY QoidaFarazi
    <2>. QED BY <1>1, <1>2, <2>1, Saqlanadi DEF IInv, YozishAsosi, NatijaAsosi
<1>10. NatijaBozordan'
    <2>1. TPSoni \in Int
        BY QoidaFarazi
    <2>2. yozuv.status = "stopped" => StopAsosi(yozuv.close_price)'
        BY <1>1, <1>2, Saqlanadi DEF IInv, NatijaBozordan, StopAsosi
    <2>3. yozuv.status \in Kirgan => Kirildi'
        BY <1>1, Saqlanadi DEF IInv, NatijaBozordan, Kirildi, Kirgan, Savdoda
    <2>4. /\ yozuv.tp1_reached => TpKorildi(1)'
          /\ yozuv.status = "tp2_hit" => TpKorildi(TPSoni)'
        BY <1>1, <2>1, Saqlanadi DEF IInv, NatijaBozordan
    <2>. QED BY <1>2, <2>2, <2>3, <2>4
             DEF NatijaBozordan, StopAsosi, Kirildi, Kirgan, Savdoda
<1>11. MuddatOtmagan' /\ Tp1IkkiManba'
    BY <1>2 DEF IInv, MuddatOtmagan, Tp1IkkiManba
<1>12. korilgan' <= Len(bozor')
    BY <1>1, <1>2, <1>6 DEF IInv, TypeOK
<1>. QED
    BY <1>3, <1>4, <1>5, <1>7, <1>8, <1>9, <1>10, <1>11, <1>12 DEF IInv

----------------------------------------------------------------------------
(* Everyone else leaves the market alone. *)

(* What rests on the market only is untouched. *)
LEMMA BozorTinch ==
    ASSUME UNCHANGED bozor
    PROVE  /\ Kirildi' <=> Kirildi
           /\ \A y : TpKirgandan(y)' <=> TpKirgandan(y)
           /\ \A k : TpKorildi(k)' <=> TpKorildi(k)
           /\ \A x : StopAsosi(x)' <=> StopAsosi(x)
BY DEF Kirildi, Kirdi, TpKirgandan, Boshi, Oldin, TpKorildi, StopAsosi

(* So are the grounds of a row. *)
LEMMA QatorTinch ==
    ASSUME UNCHANGED bozor, NEW y, QatorAsosi(y)
    PROVE  QatorAsosi(y)'
BY BozorTinch DEF QatorAsosi

(* And of a working state, as long as the snapshot is the same. *)
LEMMA HolatTinch ==
    ASSUME UNCHANGED bozor, UNCHANGED nusxa, NEW h, HolatAsosi(h)
    PROVE  HolatAsosi(h)'
BY BozorTinch DEF HolatAsosi

(* What apply_event writes. *)
LEMMA ApplyEventTuri ==
    ASSUME NEW y \in Yozuv, NEW st \in Holatlar, NEW price \in Narx,
           NEW at \in Int, NEW foizli
    PROVE  LET z == ApplyEvent(y, st, price, at, foizli)
           IN  /\ z \in Yozuv
               /\ z.status = st
               /\ z.tp1_reached <=> (y.tp1_reached \/ st = "tp1_hit")
               /\ z.reached_tps = IF st = "tp1_hit" /\ y.reached_tps = 0
                                  THEN 1 ELSE y.reached_tps
               /\ z.activated_at = IF st = "active" /\ y.activated_at = YOQ
                                   THEN at ELSE y.activated_at
               /\ z.closed_at = IF st \in YopiqHolatlar THEN at ELSE y.closed_at
               /\ z.close_price = IF st \in YopiqHolatlar THEN price ELSE y.close_price
<1>. DEFINE z == ApplyEvent(y, st, price, at, foizli)
<1>1. 1 \in 0..TPSoni
    BY QoidaFarazi
<1>2. /\ z.status \in Holatlar /\ z.tp1_reached \in BOOLEAN
      /\ z.reached_tps \in 0..TPSoni /\ z.activated_at \in Int /\ z.closed_at \in Int
      /\ z.close_price \in Narx /\ z.natija \in {"yoq", "toliq", "qismli"}
    BY <1>1 DEF ApplyEvent, Yozuv
<1>3. z \in Yozuv
    BY <1>2 DEF ApplyEvent, Yozuv
<1>. QED BY <1>3 DEF ApplyEvent

(* A fresh row and its prices are well formed. *)
LEMMA BoshYozuvTuri ==
    /\ BoshYozuv \in Yozuv
    /\ [BoshYozuv EXCEPT !.status = OCHIRILGAN] \in Yozuv
    /\ YOQ \in Narx /\ ENTRY \in Narx /\ STOP \in Narx
    /\ TpNarxi(1) \in Narx /\ TpNarxi(TPSoni) \in Narx /\ BOZOR \in Narx
<1>1. YOQ \in Narx /\ ENTRY \in Narx /\ STOP \in Narx
    BY QoidaFarazi DEF Narx, YOQ, ENTRY, STOP, BOZOR
<1>2. TpNarxi(1) \in Narx /\ TpNarxi(TPSoni) \in Narx /\ BOZOR \in Narx
    BY QoidaFarazi DEF Narx, YOQ, BOZOR, TpNarxi
<1>3. 0 \in 0..TPSoni /\ YOQ \in Int
    BY QoidaFarazi DEF YOQ
<1>4. BoshYozuv \in Yozuv
    BY <1>1, <1>3 DEF BoshYozuv, Yozuv, Holatlar, OchiqHolatlar
<1>5. [BoshYozuv EXCEPT !.status = OCHIRILGAN] \in Yozuv
    BY <1>1, <1>3 DEF BoshYozuv, Yozuv
<1>. QED BY <1>1, <1>2, <1>4, <1>5

(* A cancelled or deleted row says nothing of the market.  The bot's admin  *)
(* and the site break no part of the invariant, whatever a run is doing.    *)
LEMMA YozuvQadami ==
    ASSUME IInv, AdminBekor \/ SignalOchir
    PROVE  IInv'
<1>1. /\ bozor' = bozor /\ pc' = pc /\ nusxa' = nusxa /\ holat' = holat
      /\ kursor' = kursor /\ korilgan' = korilgan /\ pc # "sham"
    BY DEF AdminBekor, SignalOchir, yurish
<1>2. /\ TypeOK /\ QatorAsosi(yozuv) /\ QatorAsosi(nusxa) /\ NusxaBogliq
      /\ YurishAsosi /\ YozishAsosi /\ Tp1IkkiManba /\ NatijaBozordan
      /\ yozuv \in Yozuv /\ Len(bozor) \in Nat
    BY DEF IInv, TypeOK
<1>3. /\ yozuv' \in Yozuv /\ hodisalar' \subseteq Holatlar
      /\ QatorAsosi(yozuv)'
      /\ NusxaBogliq' /\ NatijaBozordan' /\ MuddatOtmagan' /\ Tp1IkkiManba'
    <2>1. CASE AdminBekor
        <3>. DEFINE z == ApplyEvent(yozuv, "cancelled", ENTRY, Len(bozor), FALSE)
        <3>1. /\ yozuv' = z /\ hodisalar' = hodisalar \cup {"cancelled"}
              /\ yozuv.status \in OchiqHolatlar
            BY <2>1 DEF AdminBekor
        <3>2. "cancelled" \in Holatlar
            BY DEF Holatlar, YopiqHolatlar
        <3>3. /\ z \in Yozuv /\ z.status = "cancelled"
              /\ z.tp1_reached <=> yozuv.tp1_reached
              /\ z.reached_tps = yozuv.reached_tps
              /\ z.activated_at = yozuv.activated_at
            <4>1. Len(bozor) \in Int /\ ENTRY \in Narx
                BY <1>2, BoshYozuvTuri
            <4>2. z \in Yozuv
                BY <1>2, <3>2, <4>1, ApplyEventTuri
            <4>. QED BY <4>2 DEF ApplyEvent
        <3>4. z.tp1_reached = yozuv.tp1_reached
            BY <1>2, <3>3 DEF Yozuv
        <3>5. QatorAsosi(yozuv)'
            BY <1>1, <1>2, <3>1, <3>3, <3>4, BozorTinch DEF QatorAsosi, Savdoda
        <3>6. NusxaBogliq'
            BY <1>1, <1>2, <3>1, <3>3, <3>4
            DEF NusxaBogliq, OchiqHolatlar, OCHIRILGAN
        <3>7. NatijaBozordan'
            BY <1>1, <1>2, <3>1, <3>3, <3>4, BozorTinch DEF NatijaBozordan
        <3>8. MuddatOtmagan'
            BY <3>1, <3>3 DEF MuddatOtmagan
        <3>9. Tp1IkkiManba'
            BY <1>2, <3>1, <3>3 DEF Tp1IkkiManba
        <3>10. hodisalar' \subseteq Holatlar
            BY <1>2, <3>1, <3>2 DEF TypeOK
        <3>. QED BY <3>1, <3>3, <3>5, <3>6, <3>7, <3>8, <3>9, <3>10
    <2>2. CASE SignalOchir
        <3>1. yozuv' = [BoshYozuv EXCEPT !.status = OCHIRILGAN] /\ hodisalar' = {}
            BY <2>2 DEF SignalOchir
        <3>2. yozuv' \in Yozuv
            BY <3>1, BoshYozuvTuri
        <3>3. /\ yozuv'.status = OCHIRILGAN /\ yozuv'.tp1_reached = FALSE
              /\ yozuv'.reached_tps = 0 /\ yozuv'.activated_at = YOQ
            BY <3>1 DEF BoshYozuv
        <3>4. QatorAsosi(yozuv)'
            BY <3>3 DEF QatorAsosi, OCHIRILGAN, Savdoda
        <3>5. /\ NusxaBogliq' /\ NatijaBozordan' /\ MuddatOtmagan' /\ Tp1IkkiManba'
            BY <1>1, <1>2, <3>1, <3>3
            DEF NusxaBogliq, NatijaBozordan, MuddatOtmagan, Tp1IkkiManba, OCHIRILGAN
        <3>. QED BY <3>1, <3>2, <3>4, <3>5
    <2>. QED BY <2>1, <2>2
<1>4. TypeOK'
    BY <1>1, <1>2, <1>3 DEF TypeOK
<1>5. QatorAsosi(nusxa)' /\ YurishAsosi' /\ SiklAsosi' /\ YozishAsosi'
    <2>1. QatorAsosi(nusxa)'
        BY <1>1, <1>2, QatorTinch
    <2>2. YurishAsosi'
        BY <1>1, <1>2, BozorTinch DEF YurishAsosi, HolatAsosi
    <2>3. SiklAsosi'
        BY <1>1 DEF SiklAsosi
    <2>4. YozishAsosi'
        BY <1>1, <1>2, BozorTinch DEF YozishAsosi, NatijaAsosi
    <2>. QED BY <2>1, <2>2, <2>3, <2>4
<1>6. (korilgan <= Len(bozor))'
    BY <1>1 DEF IInv
<1>. QED BY <1>3, <1>4, <1>5, <1>6 DEF IInv

----------------------------------------------------------------------------
(* The run: its beginning and its ends. *)

(* The working state of a run that has not begun. *)
LEMMA BoshHolatTuri ==
    BoshHolat \in Holat /\ QatorAsosi(BoshYozuv)
<1>1. BoshHolat \in Holat
    BY BoshYozuvTuri, QoidaFarazi
    DEF BoshHolat, Holat, Holatlar, OchiqHolatlar
<1>2. QatorAsosi(BoshYozuv)
    BY DEF QatorAsosi, BoshYozuv, Savdoda
<1>. QED BY <1>1, <1>2

(* However a run ends, only the row it leaves behind has to be looked at. *)
LEMMA TinchQadami ==
    ASSUME IInv, Tinch, UNCHANGED bozor,
           yozuv' \in Yozuv, hodisalar' \subseteq Holatlar,
           korilgan' \in Nat, korilgan' <= Len(bozor),
           QatorAsosi(yozuv)', NatijaBozordan', MuddatOtmagan', Tp1IkkiManba'
    PROVE  IInv'
<1>1. pc' = "kutish" /\ nusxa' = BoshYozuv /\ holat' = BoshHolat /\ kursor' = 0
    BY DEF Tinch
<1>2. TypeOK'
    BY <1>1, BoshYozuvTuri, BoshHolatTuri DEF TypeOK, IInv
<1>3. QatorAsosi(nusxa)'
    <2>1. QatorAsosi(BoshYozuv)'
        BY BoshHolatTuri, QatorTinch
    <2>. QED BY <1>1, <2>1
<1>4. NusxaBogliq' /\ YurishAsosi' /\ SiklAsosi' /\ YozishAsosi'
    BY <1>1 DEF NusxaBogliq, YurishAsosi, SiklAsosi, YozishAsosi
<1>. QED BY <1>2, <1>3, <1>4 DEF IInv

(* A run that ends without a write leaves the row as it was. *)
LEMMA YozuvsizTugash ==
    ASSUME IInv, ShamYoq \/ YozuvYoq \/ Uzilish
    PROVE  IInv'
<1>1. Tinch /\ UNCHANGED <<bozor, yozuv, hodisalar, korilgan>>
    BY DEF ShamYoq, YozuvYoq, Uzilish
<1>2. /\ TypeOK /\ QatorAsosi(yozuv) /\ NatijaBozordan /\ MuddatOtmagan
      /\ Tp1IkkiManba /\ korilgan <= Len(bozor)
    BY DEF IInv
<1>3. QatorAsosi(yozuv)'
    BY <1>1, <1>2, QatorTinch
<1>4. NatijaBozordan' /\ MuddatOtmagan' /\ Tp1IkkiManba'
    BY <1>1, <1>2, BozorTinch
    DEF NatijaBozordan, MuddatOtmagan, Tp1IkkiManba, Kirdi
<1>. QED BY <1>1, <1>2, <1>3, <1>4, TinchQadami DEF TypeOK

(* A run takes the row as it is. *)
LEMMA OqishQadami ==
    ASSUME IInv, Oqish
    PROVE  IInv'
<1>1. /\ UNCHANGED <<bozor, yozuv, hodisalar, holat, kursor, korilgan>>
      /\ pc' = "oqildi" /\ nusxa' = yozuv /\ yozuv.status \in OchiqHolatlar
    BY DEF Oqish
<1>2. /\ TypeOK /\ QatorAsosi(yozuv) /\ NatijaBozordan /\ MuddatOtmagan
      /\ Tp1IkkiManba /\ korilgan <= Len(bozor)
    BY DEF IInv
<1>3. TypeOK'
    BY <1>1, <1>2 DEF TypeOK
<1>4. QatorAsosi(yozuv)' /\ QatorAsosi(nusxa)'
    BY <1>1, <1>2, QatorTinch
<1>5. NusxaBogliq' /\ YurishAsosi' /\ SiklAsosi' /\ YozishAsosi'
    BY <1>1 DEF NusxaBogliq, YurishAsosi, SiklAsosi, YozishAsosi
<1>6. NatijaBozordan' /\ MuddatOtmagan' /\ Tp1IkkiManba' /\ (korilgan <= Len(bozor))'
    BY <1>1, <1>2, BozorTinch
    DEF NatijaBozordan, MuddatOtmagan, Tp1IkkiManba, Kirdi
<1>. QED BY <1>3, <1>4, <1>5, <1>6 DEF IInv

(* The snapshot's grounds become the working state's. *)
LEMMA YuklashQadami ==
    ASSUME IInv, Yuklash
    PROVE  IInv'
<1>1. /\ UNCHANGED <<bozor, yozuv, hodisalar, nusxa, korilgan>>
      /\ pc = "oqildi" /\ pc' = "sham" /\ kursor' = BirinchiSham
      /\ BirinchiSham <= Len(bozor)
      /\ holat' = [BoshHolat EXCEPT !.status = nusxa.status,
                                    !.stop = BoshlangichStop(nusxa),
                                    !.olingan_tp = nusxa.reached_tps]
    BY DEF Yuklash
<1>2. /\ TypeOK /\ QatorAsosi(yozuv) /\ QatorAsosi(nusxa) /\ NusxaBogliq
      /\ NatijaBozordan /\ MuddatOtmagan /\ Tp1IkkiManba /\ korilgan <= Len(bozor)
      /\ nusxa \in Yozuv /\ Len(bozor) \in Nat /\ nusxa.status \in OchiqHolatlar
    BY <1>1 DEF IInv, TypeOK, NusxaBogliq
<1>3. BirinchiSham = Boshi(nusxa) /\ BirinchiSham \in Nat \ {0}
    BY <1>2, BoshTuri, KuzatuvFarazi DEF BirinchiSham, Boshi, QatorAsosi
<1>4. /\ holat' \in Holat
      /\ holat'.status = nusxa.status
      /\ holat'.stop = BoshlangichStop(nusxa)
      /\ holat'.olingan_tp = nusxa.reached_tps
    <2>1. nusxa.status \in Holatlar /\ BoshlangichStop(nusxa) \in {STOP, ENTRY}
          /\ nusxa.reached_tps \in 0..TPSoni
        BY <1>2 DEF Holatlar, BoshlangichStop, Yozuv
    <2>. QED BY <1>1, <2>1, BoshHolatTuri DEF BoshHolat, Holat
<1>5. TypeOK'
    BY <1>1, <1>2, <1>3, <1>4 DEF TypeOK
<1>6. QatorAsosi(yozuv)' /\ QatorAsosi(nusxa)'
    BY <1>1, <1>2, QatorTinch
<1>7. NusxaBogliq'
    BY <1>1, <1>2 DEF NusxaBogliq
<1>8. YurishAsosi'
    <2>1. HolatAsosi(holat')
        BY <1>2, <1>4
        DEF HolatAsosi, QatorAsosi, BoshlangichStop, OchiqHolatlar, Savdoda,
            Kirgan, STOP, ENTRY
    <2>2. HolatAsosi(holat)'
        BY <1>1, <2>1, BozorTinch DEF HolatAsosi
    <2>. QED BY <1>1, <1>2, <1>3, <2>2 DEF YurishAsosi
<1>9. SiklAsosi'
    BY <1>1, <1>2, <1>3, <1>4 DEF SiklAsosi, TpUchramagan, Boshi
<1>10. YozishAsosi'
    BY <1>1 DEF YozishAsosi
<1>11. NatijaBozordan' /\ MuddatOtmagan' /\ Tp1IkkiManba' /\ (korilgan <= Len(bozor))'
    BY <1>1, <1>2, BozorTinch
    DEF NatijaBozordan, MuddatOtmagan, Tp1IkkiManba, Kirdi
<1>. QED BY <1>5, <1>6, <1>7, <1>8, <1>9, <1>10, <1>11 DEF IInv

----------------------------------------------------------------------------
(* The loop over the candles. *)

(* What a candle must leave for the loop to go on or end well. *)
ShamdanKeyin(h) ==
    /\ h \in Holat
    /\ HolatAsosi(h)
    /\ NatijaAsosi(h)
    /\ h.status = "pending" => TpUchramagan(kursor + 1)

(* The end of a candle keeps the invariant, whatever the candle did. *)
LEMMA OtishQadami ==
    ASSUME IInv, pc = "sham", NEW h, ShamdanKeyin(h), Otish(h)
    PROVE  IInv'
<1>1. UNCHANGED <<bozor, yozuv, hodisalar>>
    BY DEF Otish
<1>2. /\ TypeOK /\ QatorAsosi(yozuv) /\ QatorAsosi(nusxa) /\ NusxaBogliq
      /\ NatijaBozordan /\ MuddatOtmagan /\ Tp1IkkiManba
      /\ korilgan \in Nat /\ korilgan <= Len(bozor)
      /\ kursor \in Nat /\ kursor \in 1..Len(bozor) /\ Len(bozor) \in Nat
      /\ yozuv \in Yozuv /\ hodisalar \subseteq Holatlar /\ kursor >= Boshi(nusxa)
    BY DEF IInv, TypeOK, YurishAsosi, SiklAsosi
<1>3. h \in Holat /\ HolatAsosi(h) /\ NatijaAsosi(h)
    BY DEF ShamdanKeyin
<1>4. QatorAsosi(yozuv)' /\ NatijaBozordan' /\ Tp1IkkiManba'
    BY <1>1, <1>2, QatorTinch, BozorTinch DEF NatijaBozordan, Tp1IkkiManba, Kirdi
<1>5. CASE /\ ~(h.status \in YopiqHolatlar \/ kursor = Len(bozor))
           /\ holat' = h /\ kursor' = kursor + 1
           /\ UNCHANGED <<pc, nusxa, korilgan>>
    <2>1. TypeOK' /\ kursor' \in 1..Len(bozor')
        BY <1>1, <1>2, <1>3, <1>5 DEF TypeOK
    <2>2. QatorAsosi(nusxa)' /\ NusxaBogliq'
        BY <1>1, <1>2, <1>5, QatorTinch DEF NusxaBogliq
    <2>3. HolatAsosi(holat)'
        BY <1>1, <1>3, <1>5, BozorTinch DEF HolatAsosi
    <2>4. h.status \in OchiqHolatlar
        BY <1>3, <1>5 DEF Holat, Holatlar
    <2>5. Bosh(nusxa) \in Nat
        BY <1>2, BoshTuri DEF TypeOK, QatorAsosi
    <2>6. SiklAsosi'
        <3>1. (kursor >= Boshi(nusxa))'
            BY <1>1, <1>2, <1>5, <2>5, KuzatuvFarazi DEF Boshi
        <3>2. (holat.status = "pending" => TpUchramagan(kursor))'
            BY <1>1, <1>5 DEF ShamdanKeyin, TpUchramagan, Boshi
        <3>. QED BY <1>5, <2>4, <3>1, <3>2 DEF SiklAsosi
    <2>7. YurishAsosi' /\ YozishAsosi' /\ MuddatOtmagan' /\ (korilgan <= Len(bozor))'
        BY <1>1, <1>2, <1>5, <2>1, <2>3, pc = "sham"
        DEF YurishAsosi, YozishAsosi, MuddatOtmagan
    <2>. QED BY <1>4, <2>1, <2>2, <2>6, <2>7 DEF IInv
<1>6. CASE /\ h.status \in YopiqHolatlar \/ kursor = Len(bozor)
           /\ h.status # nusxa.status
           /\ holat' = h /\ pc' = "yozish"
           /\ UNCHANGED <<nusxa, kursor, korilgan>>
    <2>1. TypeOK'
        BY <1>1, <1>2, <1>3, <1>6 DEF TypeOK
    <2>2. QatorAsosi(nusxa)' /\ NusxaBogliq'
        BY <1>1, <1>2, <1>6, QatorTinch, pc = "sham" DEF NusxaBogliq
    <2>3. HolatAsosi(holat)' /\ NatijaAsosi(holat)'
        BY <1>1, <1>3, <1>6, BozorTinch DEF HolatAsosi, NatijaAsosi
    <2>4. h.status # "pending"
        BY <1>3, <1>6 DEF HolatAsosi
    <2>5. YurishAsosi' /\ SiklAsosi' /\ YozishAsosi'
        BY <1>1, <1>2, <1>6, <2>3, <2>4 DEF YurishAsosi, SiklAsosi, YozishAsosi
    <2>6. MuddatOtmagan' /\ (korilgan <= Len(bozor))'
        BY <1>1, <1>2, <1>6 DEF MuddatOtmagan
    <2>. QED BY <1>4, <2>1, <2>2, <2>5, <2>6 DEF IInv
<1>7. CASE /\ h.status = nusxa.status
           /\ korilgan' = kursor
           /\ Tinch
    <2>1. ASSUME yozuv.status \in {"active", "tp1_hit"}
          PROVE  kursor - Bosh(yozuv)
                    < IF yozuv.tp1_reached THEN QoldiqMuddat ELSE UmumiyMuddat
        <3>1. yozuv.status = nusxa.status /\ Bosh(yozuv) = Bosh(nusxa)
            BY <1>2, <2>1, pc = "sham" DEF NusxaBogliq, OCHIRILGAN, Bosh
        <3>2. kursor - Bosh(nusxa) < Muddat(h.olingan_tp)
            BY <1>3, <1>7, <2>1, <3>1 DEF NatijaAsosi, Savdoda
        <3>3. h.olingan_tp \in Int
            BY <1>3, QoidaFarazi DEF Holat
        <3>4. CASE yozuv.status = "active"
            BY <1>2, <1>3, <1>7, <3>1, <3>2, <3>4 DEF QatorAsosi, HolatAsosi, Muddat
        <3>5. CASE yozuv.status = "tp1_hit"
            BY <1>2, <1>3, <1>7, <3>1, <3>2, <3>3, <3>5
            DEF QatorAsosi, HolatAsosi, Muddat
        <3>. QED BY <2>1, <3>4, <3>5
    <2>2. MuddatOtmagan'
        BY <1>1, <1>7, <2>1 DEF MuddatOtmagan, Bosh
    <2>. QED BY <1>1, <1>2, <1>4, <1>7, <2>2, TinchQadami
<1>. QED BY <1>5, <1>6, <1>7 DEF Otish

(* The candle the run is at, and the state it is in. *)
LEMMA SikldaTuri ==
    ASSUME IInv, pc = "sham"
    PROVE  /\ bozor[kursor] \in Sham /\ holat \in Holat
           /\ kursor \in Nat /\ kursor \in 1..Len(bozor) /\ Len(bozor) \in Nat
           /\ holat.status \in OchiqHolatlar /\ HolatAsosi(holat)
           /\ holat.olingan_tp \in Int /\ holat.olingan_tp \in 0..TPSoni
           /\ bozor[kursor].high \in Int /\ bozor[kursor].high \in 0..TPSoni
           /\ bozor[kursor].low \in Int /\ bozor[kursor].low >= STOP
           /\ kursor >= Boshi(nusxa) /\ Boshi(nusxa) \in Nat \ {0}
           /\ holat.status = "pending" => TpUchramagan(kursor)
<1>1. TypeOK /\ YurishAsosi /\ SiklAsosi /\ QatorAsosi(nusxa)
    BY DEF IInv
<1>2. bozor[kursor] \in Sham /\ kursor \in 1..Len(bozor)
    BY <1>1 DEF TypeOK, YurishAsosi
<1>3. Boshi(nusxa) \in Nat \ {0}
    BY <1>1, BoshTuri, KuzatuvFarazi DEF TypeOK, Boshi, QatorAsosi
<1>4. holat.olingan_tp \in Int /\ holat.olingan_tp \in 0..TPSoni
    BY <1>1, QoidaFarazi DEF TypeOK, Holat
<1>. QED
    BY <1>1, <1>2, <1>3, <1>4, ShamTuri DEF TypeOK, YurishAsosi, SiklAsosi

(* In an open trade, whether it was open before or this candle fills it,    *)
(* every target the run meets from here on comes after the fill.            *)
LEMMA SavdodaTp ==
    ASSUME IInv, pc = "sham", SavdoOchiq(holat, bozor[kursor])
    PROVE  /\ Kirildi
           /\ TpKirgandan(nusxa)
           /\ bozor[kursor].high >= 1 => TpKorildi(bozor[kursor].high)
<1>1. Kirildi /\ TpKirgandan(nusxa)
    <2>1. CASE holat.status = "pending"
        <3>1. Kirdi(kursor)
            BY <2>1, SikldaTuri DEF SavdoOchiq, Kirdi
        <3>2. \A j \in Int : j >= kursor => Oldin(j)
            BY <3>1, SikldaTuri DEF Oldin
        <3>3. \A j \in Boshi(nusxa)..Len(bozor) : bozor[j].high >= 1 => j >= kursor
            BY <2>1, SikldaTuri DEF TpUchramagan
        <3>4. \A j \in Boshi(nusxa)..Len(bozor) : j \in Int
            OBVIOUS
        <3>. QED BY <3>1, <3>2, <3>3, <3>4, SikldaTuri DEF Kirildi, TpKirgandan
    <2>2. CASE holat.status # "pending"
        BY <2>2, SikldaTuri DEF HolatAsosi, OchiqHolatlar, Savdoda, Kirgan
    <2>. QED BY <2>1, <2>2
<1>2. ASSUME bozor[kursor].high >= 1 PROVE TpKorildi(bozor[kursor].high)
    <2>1. kursor \in Boshi(nusxa)..Len(bozor)
        BY SikldaTuri
    <2>2. Oldin(kursor)
        BY <1>1, <1>2, <2>1 DEF TpKirgandan
    <2>. QED BY <2>2, SikldaTuri DEF TpKorildi, Oldin
<1>. QED BY <1>1, <1>2

(* A later target was only reached through the first. *)
LEMMA BirinchiTp ==
    ASSUME TypeOK, NEW k \in Int, k >= 1, TpKorildi(k)
    PROVE  TpKorildi(1)
<1>1. \A j \in 1..Len(bozor) : bozor[j].high \in Int
    BY ShamTuri DEF TypeOK
<1>. QED BY <1>1 DEF TpKorildi

(* The targets counted and the stop after a candle of an open trade. *)
LEMMA SavdodaHolat ==
    ASSUME IInv, pc = "sham", SavdoOchiq(holat, bozor[kursor])
    PROVE  LET tp == OlinganTp(holat, bozor[kursor])
               st == YangiStop(holat, bozor[kursor])
           IN  /\ tp \in Int /\ tp \in 0..TPSoni
               /\ tp >= holat.olingan_tp
               /\ tp >= 1 => TpKorildi(tp)
               /\ st \in {STOP, ENTRY}
               /\ st = ENTRY => TpKorildi(1)
<1>. DEFINE s == bozor[kursor]
<1>1. /\ s.high \in Int /\ s.high \in 0..TPSoni
      /\ holat.olingan_tp \in Int /\ holat.olingan_tp \in 0..TPSoni
      /\ HolatAsosi(holat) /\ holat \in Holat
    BY SikldaTuri
<1>2. s.high >= 1 => TpKorildi(s.high)
    BY SavdodaTp
<1>3. OlinganTp(holat, s) >= 1 => TpKorildi(OlinganTp(holat, s))
    BY <1>1, <1>2 DEF OlinganTp, HolatAsosi
<1>4. /\ YangiStop(holat, s) \in {STOP, ENTRY}
      /\ YangiStop(holat, s) = ENTRY => TpKorildi(1)
    <2>1. holat.stop \in {STOP, ENTRY} /\ TypeOK
        BY <1>1 DEF Holat, IInv
    <2>. QED BY <1>1, <1>2, <2>1, BirinchiTp DEF YangiStop, HolatAsosi
<1>. QED BY <1>1, <1>3, <1>4 DEF OlinganTp

(* A waiting candle met no target. *)
LEMMA KutganKeyin ==
    ASSUME IInv, pc = "sham", Kutadi(holat, bozor[kursor])
    PROVE  ShamdanKeyin(KutganHolat(holat, kursor))
<1>. DEFINE h == KutganHolat(holat, kursor)
<1>1. /\ h \in Holat /\ h.vaqt = kursor /\ h.status = holat.status
      /\ h.stop = holat.stop /\ h.olingan_tp = holat.olingan_tp
      /\ h.status = "pending"
    BY SikldaTuri DEF KutganHolat, Holat, Kutadi
<1>2. HolatAsosi(h)
    BY <1>1, SikldaTuri DEF HolatAsosi
<1>3. NatijaAsosi(h)
    BY <1>1 DEF NatijaAsosi, Savdoda
<1>4. TpUchramagan(kursor + 1)
    BY <1>1, SikldaTuri DEF TpUchramagan, Kutadi
<1>. QED BY <1>1, <1>2, <1>3, <1>4 DEF ShamdanKeyin

(* A cancelled limit needs nothing from the market. *)
LEMMA BekorKeyin ==
    ASSUME IInv, pc = "sham", Kirilmasdan(holat, bozor[kursor])
    PROVE  ShamdanKeyin(BekorHolat(holat, kursor))
<1>. DEFINE h == BekorHolat(holat, kursor)
<1>1. /\ h \in Holat /\ h.vaqt = kursor /\ h.status = "cancelled"
      /\ h.stop = holat.stop /\ h.olingan_tp = holat.olingan_tp
    BY SikldaTuri, BoshYozuvTuri
    DEF BekorHolat, Holat, Holatlar, YopiqHolatlar
<1>. QED BY <1>1, SikldaTuri
         DEF ShamdanKeyin, HolatAsosi, NatijaAsosi, Savdoda, Kirgan

(* The stop was there; at the entry it follows TP1. *)
LEMMA StopKeyin ==
    ASSUME IInv, pc = "sham", StopUrildi(holat, bozor[kursor])
    PROVE  ShamdanKeyin(StopHolat(holat, kursor))
<1>. DEFINE h == StopHolat(holat, kursor)
<1>1. /\ h \in Holat /\ h.vaqt = kursor /\ h.status = "stopped"
      /\ h.stop = holat.stop /\ h.olingan_tp = holat.olingan_tp
      /\ h.narx = holat.stop
    <2>1. holat.stop \in {STOP, ENTRY} /\ holat.stop \in Narx
        BY SikldaTuri, BoshYozuvTuri DEF Holat
    <2>. QED BY <2>1, SikldaTuri DEF StopHolat, Holat, Holatlar, YopiqHolatlar
<1>2. StopAsosi(holat.stop)
    <2>1. CASE holat.stop = STOP
        <3>1. bozor[kursor].low = STOP
            BY <2>1, SikldaTuri DEF StopUrildi, STOP
        <3>. QED BY <2>1, <3>1, SikldaTuri DEF StopAsosi
    <2>2. CASE holat.stop = ENTRY
        BY <2>2, SikldaTuri DEF StopAsosi, HolatAsosi
    <2>. QED BY <2>1, <2>2, SikldaTuri DEF Holat
<1>3. Kirildi
    BY SavdodaTp DEF StopUrildi
<1>. QED BY <1>1, <1>2, <1>3, SikldaTuri
         DEF ShamdanKeyin, HolatAsosi, NatijaAsosi, Savdoda

(* Every target was reached on the market. *)
LEMMA HammaTpKeyin ==
    ASSUME IInv, pc = "sham", HammaTp(holat, bozor[kursor])
    PROVE  ShamdanKeyin(TpHolat(holat, bozor[kursor], kursor))
<1>. DEFINE s == bozor[kursor]
            h == TpHolat(holat, s, kursor)
            tp == OlinganTp(holat, s)
            st == YangiStop(holat, s)
<1>1. /\ tp \in Int /\ tp \in 0..TPSoni /\ tp >= TPSoni
      /\ tp >= 1 => TpKorildi(tp)
      /\ st \in {STOP, ENTRY}
      /\ st = ENTRY => TpKorildi(1)
    BY SavdodaHolat DEF HammaTp
<1>2. tp = TPSoni /\ tp >= 1 /\ TpKorildi(TPSoni)
    BY <1>1, QoidaFarazi
<1>3. /\ h \in Holat /\ h.vaqt = kursor /\ h.status = "tp2_hit"
      /\ h.stop = st /\ h.olingan_tp = tp
    BY <1>1, SikldaTuri, BoshYozuvTuri DEF TpHolat, Holat, Holatlar, YopiqHolatlar
<1>4. Kirildi
    BY SavdodaTp DEF HammaTp
<1>. QED BY <1>1, <1>2, <1>3, <1>4
         DEF ShamdanKeyin, HolatAsosi, NatijaAsosi, Savdoda

(* A trade past its time limit closes at the market. *)
LEMMA MuddatKeyin ==
    ASSUME IInv, pc = "sham", MuddatTugadi(holat, bozor[kursor], Yosh)
    PROVE  ShamdanKeyin(MuddatHolat(holat, bozor[kursor], kursor))
<1>. DEFINE s == bozor[kursor]
            h == MuddatHolat(holat, s, kursor)
            tp == OlinganTp(holat, s)
            st == YangiStop(holat, s)
<1>1. /\ tp \in Int /\ tp \in 0..TPSoni
      /\ tp >= 1 => TpKorildi(tp)
      /\ st \in {STOP, ENTRY}
      /\ st = ENTRY => TpKorildi(1)
    BY SavdodaHolat DEF MuddatTugadi
<1>2. /\ h \in Holat /\ h.vaqt = kursor /\ h.status = "timed_out"
      /\ h.stop = st /\ h.olingan_tp = tp
    BY <1>1, SikldaTuri, BoshYozuvTuri
    DEF MuddatHolat, Holat, Holatlar, YopiqHolatlar
<1>3. Kirildi
    BY SavdodaTp DEF MuddatTugadi
<1>. QED BY <1>1, <1>2, <1>3
         DEF ShamdanKeyin, HolatAsosi, NatijaAsosi, Savdoda

(* A trade that goes on is younger than its limit, and is filled. *)
LEMMA DavomKeyin ==
    ASSUME IInv, pc = "sham", Davom(holat, bozor[kursor], Yosh)
    PROVE  ShamdanKeyin(DavomHolat(holat, bozor[kursor], kursor))
<1>. DEFINE s == bozor[kursor]
            h == DavomHolat(holat, s, kursor)
            tp == OlinganTp(holat, s)
            st == YangiStop(holat, s)
            hs == IF tp >= 1 THEN "tp1_hit"
                  ELSE IF holat.status = "pending" THEN "active" ELSE holat.status
<1>1. /\ tp \in Int /\ tp \in 0..TPSoni
      /\ tp >= 1 => TpKorildi(tp)
      /\ tp >= holat.olingan_tp
      /\ st \in {STOP, ENTRY}
      /\ st = ENTRY => TpKorildi(1)
    BY SavdodaHolat DEF Davom
<1>2. hs \in Savdoda
    BY SikldaTuri DEF OchiqHolatlar, Savdoda
<1>3. KirishNarxi(holat) \in Narx
    BY SikldaTuri, BoshYozuvTuri DEF KirishNarxi, Holat
<1>4. /\ h \in Holat /\ h.vaqt = kursor /\ h.status = hs
      /\ h.stop = st /\ h.olingan_tp = tp
    <2>1. hs \in Holatlar
        BY <1>2 DEF Savdoda, Holatlar, OchiqHolatlar
    <2>. QED BY <1>1, <1>3, <2>1, SikldaTuri DEF DavomHolat, Holat
<1>5. Kirildi /\ TpKirgandan(nusxa)
    BY SavdodaTp DEF Davom
<1>6. kursor - Bosh(nusxa) < Muddat(tp)
    BY DEF Davom, Yosh
<1>7. ASSUME hs = "active"
      PROVE  tp = 0 /\ nusxa.status \in {"pending", "active"}
    <2>1. tp = 0
        BY <1>1, <1>7
    <2>2. holat.status \in {"pending", "active"}
        BY <1>7, <2>1
    <2>. QED BY <2>1, <2>2, SikldaTuri DEF HolatAsosi
<1>8. hs = "tp1_hit" => tp >= 1
    BY <1>1, SikldaTuri DEF HolatAsosi
<1>9. HolatAsosi(h)
    BY <1>1, <1>2, <1>4, <1>5, <1>7, <1>8 DEF HolatAsosi, Savdoda
<1>10. NatijaAsosi(h)
    BY <1>2, <1>4, <1>6 DEF NatijaAsosi, Savdoda
<1>. QED BY <1>2, <1>4, <1>9, <1>10 DEF ShamdanKeyin, Savdoda

(* No candle breaks the invariant. *)
LEMMA ShamQadamiQadami ==
    ASSUME IInv, ShamQadami
    PROVE  IInv'
<1>1. CASE ShamKutadi
    BY <1>1, KutganKeyin, OtishQadami DEF ShamKutadi
<1>2. CASE ShamBekor
    BY <1>2, BekorKeyin, OtishQadami DEF ShamBekor
<1>3. CASE ShamStop
    BY <1>3, StopKeyin, OtishQadami DEF ShamStop
<1>4. CASE ShamHammaTp
    BY <1>4, HammaTpKeyin, OtishQadami DEF ShamHammaTp
<1>5. CASE ShamMuddat
    BY <1>5, MuddatKeyin, OtishQadami DEF ShamMuddat
<1>6. CASE ShamDavom
    BY <1>6, DavomKeyin, OtishQadami DEF ShamDavom
<1>. QED BY <1>1, <1>2, <1>3, <1>4, <1>5, <1>6 DEF ShamQadami

----------------------------------------------------------------------------
(* The write. *)

(* The run writes what it saw over the row as it is now: still the one it   *)
(* read, or one the admin has cancelled since.                             *)
LEMMA YozishQadami ==
    ASSUME IInv, Yozish
    PROVE  IInv'
<1>. DEFINE price == IF holat.narx = YOQ THEN ENTRY ELSE holat.narx
            z == ApplyEvent(yozuv, holat.status, price, holat.vaqt, TRUE)
            st == holat.status
<1>1. /\ pc = "yozish" /\ yozuv.status # OCHIRILGAN /\ yozuv' = z
      /\ hodisalar' = hodisalar \cup {st} /\ korilgan' = kursor
      /\ Tinch /\ UNCHANGED bozor
    BY DEF Yozish
<1>2. /\ TypeOK /\ QatorAsosi(yozuv) /\ QatorAsosi(nusxa) /\ NusxaBogliq
      /\ HolatAsosi(holat) /\ NatijaAsosi(holat) /\ NatijaBozordan /\ Tp1IkkiManba
      /\ kursor \in 1..Len(bozor) /\ kursor \in Nat /\ Len(bozor) \in Nat
      /\ st \notin {nusxa.status, "pending"} /\ nusxa.status \in OchiqHolatlar
      /\ yozuv \in Yozuv /\ nusxa \in Yozuv /\ holat \in Holat
      /\ yozuv.activated_at = nusxa.activated_at
      /\ yozuv.tp1_reached = nusxa.tp1_reached
    BY <1>1 DEF IInv, TypeOK, YurishAsosi, YozishAsosi, NusxaBogliq
<1>3. st \in Holatlar /\ price \in Narx /\ holat.vaqt = kursor /\ holat.vaqt \in Int
      /\ holat.olingan_tp \in Int /\ (holat.narx # YOQ => price = holat.narx)
    BY <1>2, BoshYozuvTuri, QoidaFarazi DEF Holat, NatijaAsosi
<1>4. /\ z \in Yozuv
      /\ z.status = st
      /\ z.tp1_reached <=> (yozuv.tp1_reached \/ st = "tp1_hit")
      /\ z.reached_tps = IF st = "tp1_hit" /\ yozuv.reached_tps = 0
                         THEN 1 ELSE yozuv.reached_tps
      /\ z.activated_at = IF st = "active" /\ yozuv.activated_at = YOQ
                          THEN kursor ELSE yozuv.activated_at
      /\ st \in YopiqHolatlar => z.close_price = price
    <2>1. z \in Yozuv
        BY <1>2, <1>3, ApplyEventTuri
    <2>. QED BY <1>3, <2>1 DEF ApplyEvent
<1>. HIDE DEF z, price
<1>5. z.tp1_reached \in BOOLEAN /\ yozuv.tp1_reached \in BOOLEAN
    BY <1>2, <1>4 DEF Yozuv
<1>6. st = "tp1_hit" => TpKorildi(1)
    BY <1>2, <1>3, BirinchiTp DEF HolatAsosi
<1>7. st = "active" => nusxa.status = "pending" /\ nusxa.activated_at = YOQ
                        /\ ~yozuv.tp1_reached
    BY <1>2 DEF HolatAsosi, QatorAsosi
<1>8. QatorAsosi(z)
    <2>1. st \in Savdoda => Kirildi /\ TpKirgandan(nusxa)
        BY <1>2 DEF HolatAsosi, Kirgan
    <2>2. st \in Savdoda => Bosh(z) \in Nat /\ Bosh(z) >= Bosh(nusxa) /\ Bosh(nusxa) \in Nat
        <3>1. CASE st = "active"
            BY <1>2, <1>4, <1>7, <3>1 DEF Bosh, YOQ, YARATILGAN
        <3>2. CASE st = "tp1_hit"
            <4>1. z.activated_at = nusxa.activated_at
                BY <1>2, <1>4, <3>2
            <4>2. Bosh(z) = Bosh(nusxa)
                BY <4>1 DEF Bosh
            <4>. QED BY <1>2, <4>2, BoshTuri DEF QatorAsosi
        <3>. QED BY <3>1, <3>2 DEF Savdoda
    <2>3. st \in Savdoda => TpKirgandan(z)
        BY <1>2, <2>1, <2>2, KuzatuvFarazi DEF TpKirgandan, Boshi
    <2>4. /\ z.activated_at = YOQ \/ z.activated_at >= 1
          /\ z.status # "pending"
          /\ z.reached_tps = IF z.tp1_reached THEN 1 ELSE 0
          /\ z.status = "tp1_hit" => z.tp1_reached
          /\ z.status = "active" => ~z.tp1_reached
          /\ z.tp1_reached => TpKorildi(1)
        BY <1>2, <1>4, <1>5, <1>6, <1>7 DEF QatorAsosi
    <2>. QED BY <1>4, <2>1, <2>3, <2>4 DEF QatorAsosi
<1>9. QatorAsosi(yozuv)'
    BY <1>1, <1>8, QatorTinch
<1>10. NatijaBozordan'
    <2>1. st \in Kirgan => Kirildi
        BY <1>2 DEF HolatAsosi
    <2>2. z.tp1_reached => TpKorildi(1)
        BY <1>8 DEF QatorAsosi
    <2>3. st = "tp2_hit" => TpKorildi(TPSoni)
        BY <1>2 DEF NatijaAsosi
    <2>4. st = "stopped" => StopAsosi(z.close_price)
        <3>1. st = "stopped" => StopAsosi(holat.narx) /\ z.close_price = price
            BY <1>2, <1>4 DEF NatijaAsosi, YopiqHolatlar
        <3>. QED BY <1>3, <3>1 DEF StopAsosi, YOQ, STOP, ENTRY
    <2>. QED BY <1>1, <1>4, <2>1, <2>2, <2>3, <2>4, BozorTinch
             DEF NatijaBozordan, Kirildi, Kirgan, Savdoda, StopAsosi
<1>11. MuddatOtmagan'
    <2>1. ASSUME st \in {"active", "tp1_hit"}
          PROVE  kursor - Bosh(z) < IF z.tp1_reached THEN QoldiqMuddat ELSE UmumiyMuddat
        <3>1. CASE st = "active"
            <4>1. Bosh(z) = kursor /\ ~z.tp1_reached
                BY <1>2, <1>4, <1>7, <3>1 DEF Bosh, YOQ
            <4>. QED BY <1>2, <4>1, QoidaFarazi
        <3>2. CASE st = "tp1_hit"
            <4>1. kursor - Bosh(nusxa) < Muddat(holat.olingan_tp)
                BY <1>2, <3>2 DEF NatijaAsosi, Savdoda
            <4>2. z.activated_at = nusxa.activated_at /\ z.tp1_reached
                BY <1>2, <1>4, <3>2
            <4>3. Bosh(z) = Bosh(nusxa)
                BY <4>2 DEF Bosh
            <4>. QED BY <1>2, <1>3, <3>2, <4>1, <4>2, <4>3 DEF HolatAsosi, Muddat
        <3>. QED BY <2>1, <3>1, <3>2
    <2>. QED BY <1>1, <1>4, <2>1 DEF MuddatOtmagan, Bosh
<1>12. Tp1IkkiManba'
    BY <1>1, <1>2, <1>4 DEF Tp1IkkiManba
<1>13. yozuv' \in Yozuv /\ hodisalar' \subseteq Holatlar
    BY <1>1, <1>2, <1>3, <1>4 DEF TypeOK
<1>. QED
    BY <1>1, <1>2, <1>9, <1>10, <1>11, <1>12, <1>13, TinchQadami

----------------------------------------------------------------------------
(* The theorems. *)

(* A new signal, before any candle, satisfies the invariant. *)
LEMMA BoshlangichInv == Init => IInv
<1>. SUFFICES ASSUME Init PROVE IInv
    OBVIOUS
<1>1. TypeOK
    BY BoshYozuvTuri, BoshHolatTuri DEF Init, TypeOK
<1>2. QatorAsosi(yozuv) /\ QatorAsosi(nusxa)
    BY BoshHolatTuri DEF Init
<1>3. NusxaBogliq /\ YurishAsosi /\ SiklAsosi /\ YozishAsosi
    BY DEF Init, NusxaBogliq, YurishAsosi, SiklAsosi, YozishAsosi
<1>4. NatijaBozordan /\ MuddatOtmagan /\ Tp1IkkiManba
    BY DEF Init, BoshYozuv, NatijaBozordan, MuddatOtmagan, Tp1IkkiManba
<1>5. korilgan <= Len(bozor)
    BY DEF Init
<1>. QED BY <1>1, <1>2, <1>3, <1>4, <1>5 DEF IInv

(* Every step of the market, of the run and of the other writers keeps it. *)
LEMMA InvQadam == IInv /\ [Next]_vars => IInv'
<1>. SUFFICES ASSUME IInv, [Next]_vars PROVE IInv'
    OBVIOUS
<1>1. ASSUME NEW s \in Sham, YangiSham(s) PROVE IInv'
    BY <1>1, BozorQadami
<1>2. ASSUME NEW s \in Sham, ShamOsadi(s) PROVE IInv'
    BY <1>2, BozorQadami
<1>3. CASE AdminBekor \/ SignalOchir
    BY <1>3, YozuvQadami
<1>4. CASE Oqish
    BY <1>4, OqishQadami
<1>5. CASE Yuklash
    BY <1>5, YuklashQadami
<1>6. CASE ShamYoq \/ YozuvYoq \/ Uzilish
    BY <1>6, YozuvsizTugash
<1>7. CASE ShamQadami
    BY <1>7, ShamQadamiQadami
<1>8. CASE Yozish
    BY <1>8, YozishQadami
<1>9. CASE UNCHANGED vars
    <2>1. /\ bozor' = bozor /\ yozuv' = yozuv /\ hodisalar' = hodisalar /\ pc' = pc
          /\ nusxa' = nusxa /\ holat' = holat /\ kursor' = kursor /\ korilgan' = korilgan
        BY <1>9 DEF vars
    <2>2. /\ TypeOK' /\ NusxaBogliq' /\ MuddatOtmagan' /\ Tp1IkkiManba'
          /\ (korilgan <= Len(bozor))'
        BY <2>1 DEF IInv, TypeOK, NusxaBogliq, MuddatOtmagan, Tp1IkkiManba
    <2>3. QatorAsosi(yozuv)' /\ QatorAsosi(nusxa)'
        BY <2>1, QatorTinch DEF IInv
    <2>4. YurishAsosi' /\ YozishAsosi' /\ NatijaBozordan'
        BY <2>1, BozorTinch
        DEF IInv, YurishAsosi, YozishAsosi, HolatAsosi, NatijaAsosi,
            NatijaBozordan, Kirdi
    <2>5. SiklAsosi'
        BY <2>1 DEF IInv, SiklAsosi, TpUchramagan, Boshi
    <2>. QED BY <2>2, <2>3, <2>4, <2>5 DEF IInv
<1>. QED
    BY <1>1, <1>2, <1>3, <1>4, <1>5, <1>6, <1>7, <1>8, <1>9 DEF Next

(* The invariant holds in every state the watcher, the market and the other *)
(* writers of the row can reach together.                                  *)
THEOREM InvTeoremasi == Spec => []IInv
BY BoshlangichInv, InvQadam, PTL DEF Spec

(* Type correctness: the row, the snapshot and the working state hold only  *)
(* values the code can produce; in particular no run counts more targets    *)
(* than the signal has (`_sham_qadami` takes the highest, it does not add). *)
THEOREM TurTeoremasi == Spec => []TypeOK
<1>1. IInv => TypeOK
    BY DEF IInv
<1>. QED BY <1>1, InvTeoremasi, PTL

(* Whatever the row says happened to the trade did happen on the market, in *)
(* the right order, however often the runs replay the candles, fail, or     *)
(* write over a row that was cancelled meanwhile (`_yoz`).                  *)
THEOREM NatijaTeoremasi == Spec => []NatijaBozordan
<1>1. IInv => NatijaBozordan
    BY DEF IInv
<1>. QED BY <1>1, InvTeoremasi, PTL

(* The stored row is a sound record of the trade: no completed run leaves it *)
(* open past the time limit that its activated_at and tp1_reached give it,  *)
(* and the event log and the tp1_reached column never disagree about TP1.   *)
THEOREM SavdoTeoremasi == Spec => []SavdoIzchil
<1>1. IInv => SavdoIzchil
    BY DEF IInv, SavdoIzchil
<1>. QED BY <1>1, InvTeoremasi, PTL
-----------------------------------------------------------------------------
(***************************************************************************)
(* Two results that need an assumption on the constants, on top of IInv:   *)
(* no filled limit is cancelled when the window outlasts the gap between   *)
(* two runs, and the watched row implements SignalHayoti when nobody       *)
(* cancels while a run is under way.                                       *)
(***************************************************************************)
(* The limit was not filled before candle t. *)
Tegilmagan(t) == \A i \in 1..(t - 1) : ~Kirdi(i)

(* While the limit waits, the completed runs have left no candle unseen. *)
KutishAsosi(y) ==
    y.status = "pending"
        => Tegilmagan(korilgan) /\ Len(bozor) - korilgan <= Tanaffus

BekorAsosi ==
    /\ KutishAsosi(yozuv)
    /\ pc # "kutish" => KutishAsosi(nusxa)
    /\ pc = "sham" /\ holat.status = "pending" => Tegilmagan(kursor)
    /\ pc = "yozish" /\ holat.status = "cancelled" => Tegilmagan(kursor)
    /\ yozuv.status = "cancelled" => yozuv.closed_at <= Len(bozor)
    /\ BekorHaqiqiy

(* A candle before the last one of the market never changes. *)
LEMMA TegilmaganSaqlanadi ==
    ASSUME TypeOK, Osish, NEW t \in Int, t <= Len(bozor)
    PROVE  Tegilmagan(t) => Tegilmagan(t)'
<1>1. Len(bozor) \in Nat /\ Len(bozor') \in Nat
    BY DEF TypeOK, Osish
<1>2. \A i \in 1..(t - 1) : bozor'[i] = bozor[i] /\ i \in 1..Len(bozor)
    BY <1>1 DEF Osish
<1>. QED BY <1>1, <1>2 DEF Tegilmagan, Kirdi, Osish

(* Nothing changes for a limit while the market does not. *)
LEMMA TegilmaganTinch ==
    ASSUME UNCHANGED bozor
    PROVE  \A t : Tegilmagan(t)' <=> Tegilmagan(t)
BY DEF Tegilmagan, Kirdi

(* A candle keeps what the waiting limit rests on. *)
LEMMA BekorOtish ==
    ASSUME IInv, BekorAsosi, pc = "sham", NEW h, ShamdanKeyin(h), Otish(h),
           h.status = "pending" => Tegilmagan(kursor + 1),
           h.status = "cancelled" => Tegilmagan(kursor)
    PROVE  BekorAsosi'
<1>1. UNCHANGED <<bozor, yozuv, hodisalar>>
    BY DEF Otish
<1>2. /\ kursor \in 1..Len(bozor) /\ kursor \in Nat /\ Len(bozor) \in Nat
      /\ NusxaBogliq /\ h \in Holat
    BY DEF IInv, TypeOK, YurishAsosi, ShamdanKeyin
<1>3. BekorHaqiqiy' /\ (yozuv.status = "cancelled" => yozuv.closed_at <= Len(bozor))'
    BY <1>1 DEF BekorAsosi, BekorHaqiqiy, Kirdi
<1>4. CASE /\ ~(h.status \in YopiqHolatlar \/ kursor = Len(bozor))
           /\ holat' = h /\ kursor' = kursor + 1
           /\ UNCHANGED <<pc, nusxa, korilgan>>
    BY <1>1, <1>3, <1>4, TegilmaganTinch, pc = "sham" DEF BekorAsosi, KutishAsosi
<1>5. CASE /\ h.status \in YopiqHolatlar \/ kursor = Len(bozor)
           /\ h.status # nusxa.status
           /\ holat' = h /\ pc' = "yozish"
           /\ UNCHANGED <<nusxa, kursor, korilgan>>
    BY <1>1, <1>3, <1>5, TegilmaganTinch, pc = "sham" DEF BekorAsosi, KutishAsosi
<1>6. CASE /\ h.status \in YopiqHolatlar \/ kursor = Len(bozor)
           /\ h.status = nusxa.status
           /\ korilgan' = kursor
           /\ Tinch
    <2>1. ASSUME yozuv.status = "pending"
          PROVE  h.status = "pending" /\ kursor = Len(bozor)
        <3>1. h.status = "pending"
            BY <1>2, <1>6, <2>1, pc = "sham" DEF NusxaBogliq, OCHIRILGAN
        <3>. QED BY <1>6, <3>1 DEF YopiqHolatlar
    <2>2. ASSUME yozuv.status = "pending"
          PROVE  Tegilmagan(kursor) /\ Len(bozor) - kursor <= Tanaffus
        <3>1. Tegilmagan(kursor + 1)
            BY <2>1, <2>2
        <3>. QED BY <1>2, <2>1, <2>2, <3>1, KuzatuvFarazi DEF Tegilmagan
    <2>3. KutishAsosi(yozuv)'
        BY <1>1, <1>6, <2>2, TegilmaganTinch DEF KutishAsosi
    <2>. QED BY <1>3, <1>6, <2>3 DEF BekorAsosi, Tinch
<1>. QED BY <1>4, <1>5, <1>6 DEF Otish

(* Only a candle that does not touch the entry leaves the limit waiting or  *)
(* cancels it.                                                             *)
LEMMA BekorShamQadami ==
    ASSUME IInv, BekorAsosi, ShamQadami
    PROVE  BekorAsosi'
<1>. DEFINE s == bozor[kursor]
<1>1. pc = "sham"
    BY DEF ShamQadami, ShamKutadi, ShamBekor, ShamStop, ShamHammaTp, ShamMuddat, ShamDavom
<1>2. holat \in Holat /\ kursor \in Nat
    BY <1>1, SikldaTuri
<1>3. CASE ShamKutadi
    <2>1. KutganHolat(holat, kursor).status = "pending" /\ holat.status = "pending"
        BY <1>2, <1>3 DEF ShamKutadi, Kutadi, KutganHolat, Holat
    <2>2. Tegilmagan(kursor) /\ ~Kirdi(kursor)
        BY <1>1, <1>3, <2>1 DEF BekorAsosi, ShamKutadi, Kutadi, Kirdi
    <2>3. Tegilmagan(kursor + 1)
        BY <1>2, <2>2 DEF Tegilmagan
    <2>4. ShamdanKeyin(KutganHolat(holat, kursor))
        BY <1>1, <1>3, KutganKeyin DEF ShamKutadi
    <2>. QED BY <1>1, <1>3, <2>1, <2>3, <2>4, BekorOtish DEF ShamKutadi
<1>4. CASE ShamBekor
    <2>1. BekorHolat(holat, kursor).status = "cancelled" /\ holat.status = "pending"
        BY <1>2, <1>4 DEF ShamBekor, Kirilmasdan, BekorHolat, Holat
    <2>2. Tegilmagan(kursor)
        BY <1>1, <2>1 DEF BekorAsosi
    <2>3. ShamdanKeyin(BekorHolat(holat, kursor))
        BY <1>1, <1>4, BekorKeyin DEF ShamBekor
    <2>. QED BY <1>1, <1>4, <2>1, <2>2, <2>3, BekorOtish DEF ShamBekor
<1>5. CASE ShamStop
    <2>1. StopHolat(holat, kursor).status = "stopped"
        BY <1>2 DEF StopHolat, Holat
    <2>2. ShamdanKeyin(StopHolat(holat, kursor))
        BY <1>1, <1>5, StopKeyin DEF ShamStop
    <2>. QED BY <1>1, <1>5, <2>1, <2>2, BekorOtish DEF ShamStop
<1>6. CASE ShamHammaTp
    <2>1. TpHolat(holat, s, kursor).status = "tp2_hit"
        BY <1>2 DEF TpHolat, Holat
    <2>2. ShamdanKeyin(TpHolat(holat, s, kursor))
        BY <1>1, <1>6, HammaTpKeyin DEF ShamHammaTp
    <2>. QED BY <1>1, <1>6, <2>1, <2>2, BekorOtish DEF ShamHammaTp
<1>7. CASE ShamMuddat
    <2>1. MuddatHolat(holat, s, kursor).status = "timed_out"
        BY <1>2 DEF MuddatHolat, Holat
    <2>2. ShamdanKeyin(MuddatHolat(holat, s, kursor))
        BY <1>1, <1>7, MuddatKeyin DEF ShamMuddat
    <2>. QED BY <1>1, <1>7, <2>1, <2>2, BekorOtish DEF ShamMuddat
<1>8. CASE ShamDavom
    <2>1. DavomHolat(holat, s, kursor).status \notin {"pending", "cancelled"}
        BY <1>1, <1>2, SikldaTuri DEF DavomHolat, Holat, OchiqHolatlar
    <2>2. ShamdanKeyin(DavomHolat(holat, s, kursor))
        BY <1>1, <1>8, DavomKeyin DEF ShamDavom
    <2>. QED BY <1>1, <1>8, <2>1, <2>2, BekorOtish DEF ShamDavom
<1>. QED BY <1>3, <1>4, <1>5, <1>6, <1>7, <1>8 DEF ShamQadami

(* The rest of the steps of BekorAsosi. *)
LEMMA BekorQadam ==
    ASSUME Tanaffus < Oyna, IInv, BekorAsosi, [Next]_vars
    PROVE  BekorAsosi'
<1>1. /\ TypeOK /\ NusxaBogliq /\ korilgan \in Nat /\ korilgan <= Len(bozor)
      /\ Len(bozor) \in Nat /\ Tanaffus \in Nat /\ Oyna \in Nat
      /\ QatorAsosi(nusxa) /\ nusxa \in Yozuv /\ yozuv \in Yozuv
    BY KuzatuvFarazi DEF IInv, TypeOK
<1>2. ASSUME NEW s \in Sham, YangiSham(s) \/ ShamOsadi(s)
      PROVE  BekorAsosi'
    <2>1. Osish
        BY <1>1, <1>2, BozorOsadi
    <2>2. /\ yozuv' = yozuv /\ pc' = pc /\ nusxa' = nusxa /\ pc # "sham"
          /\ holat' = holat /\ kursor' = kursor /\ korilgan' = korilgan
        BY <1>2 DEF YangiSham, ShamOsadi, yurish
    <2>3. Len(bozor) - korilgan <= Tanaffus => Len(bozor') - korilgan <= Tanaffus
        <3>1. CASE YangiSham(s)
            BY <1>1, <2>1, <3>1 DEF YangiSham, Osish
        <3>2. CASE ShamOsadi(s)
            <4>1. Len(bozor') = Len(bozor)
                BY <1>1, <3>2 DEF ShamOsadi, TypeOK
            <4>. QED BY <4>1
        <3>. QED BY <1>2, <3>1, <3>2
    <2>4. Tegilmagan(korilgan) => Tegilmagan(korilgan)'
        BY <1>1, <2>1, <2>2, TegilmaganSaqlanadi
    <2>5. KutishAsosi(yozuv)' /\ (pc # "kutish" => KutishAsosi(nusxa))'
        BY <2>2, <2>3, <2>4 DEF BekorAsosi, KutishAsosi
    <2>6. (pc = "yozish" /\ holat.status = "cancelled" => Tegilmagan(kursor))'
        <3>1. pc = "yozish" => kursor \in Int /\ kursor <= Len(bozor)
            BY <1>1 DEF IInv, YurishAsosi
        <3>. QED BY <1>1, <2>1, <2>2, <3>1, TegilmaganSaqlanadi DEF BekorAsosi
    <2>7. /\ (yozuv.status = "cancelled" => yozuv.closed_at <= Len(bozor))'
          /\ BekorHaqiqiy'
        <3>1. yozuv.status = "cancelled"
                => yozuv.closed_at \in Int /\ yozuv.closed_at <= Len(bozor)
            BY <1>1 DEF BekorAsosi, Yozuv
        <3>2. BekorHaqiqiy <=> ((yozuv.status = "cancelled" /\ yozuv.close_price = TpNarxi(1))
                                  => Tegilmagan(yozuv.closed_at))
            BY DEF BekorHaqiqiy, Tegilmagan
        <3>3. BekorHaqiqiy' <=> ((yozuv.status = "cancelled" /\ yozuv.close_price = TpNarxi(1))
                                  => Tegilmagan(yozuv.closed_at))'
            BY DEF BekorHaqiqiy, Tegilmagan
        <3>4. BekorHaqiqiy'
            BY <1>1, <2>1, <2>2, <3>1, <3>2, <3>3, TegilmaganSaqlanadi DEF BekorAsosi
        <3>5. Len(bozor') >= Len(bozor) /\ Len(bozor') \in Nat
            BY <1>1, <2>1 DEF Osish
        <3>6. (yozuv.status = "cancelled" => yozuv.closed_at <= Len(bozor))'
            BY <1>1, <2>2, <3>1, <3>5
        <3>. QED BY <3>4, <3>6
    <2>. QED BY <2>2, <2>5, <2>6, <2>7 DEF BekorAsosi
<1>3. CASE AdminBekor
    <2>1. /\ UNCHANGED <<bozor, pc, nusxa, holat, kursor, korilgan>>
          /\ yozuv' = ApplyEvent(yozuv, "cancelled", ENTRY, Len(bozor), FALSE)
        BY <1>3 DEF AdminBekor, yurish
    <2>2. yozuv'.status = "cancelled" /\ yozuv'.close_price = ENTRY
          /\ yozuv'.closed_at = Len(bozor)
        BY <2>1 DEF ApplyEvent, YopiqHolatlar
    <2>3. ENTRY # TpNarxi(1)
        BY DEF ENTRY, TpNarxi
    <2>4. KutishAsosi(yozuv)' /\ (pc # "kutish" => KutishAsosi(nusxa))'
        BY <2>1, <2>2, TegilmaganTinch DEF BekorAsosi, KutishAsosi
    <2>5. BekorHaqiqiy' /\ (yozuv.status = "cancelled" => yozuv.closed_at <= Len(bozor))'
        <3>1. Len(bozor') = Len(bozor) /\ Len(bozor) <= Len(bozor)
            BY <1>1, <2>1
        <3>2. (yozuv.status = "cancelled" => yozuv.closed_at <= Len(bozor))'
            BY <2>2, <3>1
        <3>3. BekorHaqiqiy'
            BY <2>2, <2>3 DEF BekorHaqiqiy, TpNarxi
        <3>. QED BY <3>2, <3>3
    <2>6. pc \in {"kutish", "oqildi", "yozish"}
        BY <1>1, <1>3 DEF TypeOK, AdminBekor
    <2>. QED BY <2>1, <2>4, <2>5, <2>6, TegilmaganTinch DEF BekorAsosi
<1>4. CASE SignalOchir
    <2>1. UNCHANGED <<bozor, pc, nusxa, holat, kursor, korilgan>>
          /\ yozuv'.status = OCHIRILGAN
        BY <1>4 DEF SignalOchir, yurish, BoshYozuv
    <2>2. KutishAsosi(yozuv)' /\ (pc # "kutish" => KutishAsosi(nusxa))'
        BY <2>1, TegilmaganTinch DEF BekorAsosi, KutishAsosi, OCHIRILGAN
    <2>. QED BY <2>1, <2>2, TegilmaganTinch
             DEF BekorAsosi, BekorHaqiqiy, OCHIRILGAN
<1>5. CASE Oqish
    <2>1. /\ UNCHANGED <<bozor, yozuv, hodisalar, holat, kursor, korilgan>>
          /\ pc' = "oqildi" /\ nusxa' = yozuv
        BY <1>5 DEF Oqish
    <2>2. KutishAsosi(yozuv)' /\ KutishAsosi(nusxa)'
        BY <2>1, TegilmaganTinch DEF BekorAsosi, KutishAsosi
    <2>. QED BY <2>1, <2>2 DEF BekorAsosi, BekorHaqiqiy, Kirdi
<1>6. CASE Yuklash
    <2>1. /\ UNCHANGED <<bozor, yozuv, hodisalar, nusxa, korilgan>>
          /\ pc = "oqildi" /\ pc' = "sham" /\ kursor' = BirinchiSham
          /\ holat'.status = nusxa.status
        BY <1>6, BoshHolatTuri DEF Yuklash, BoshHolat
    <2>2. ASSUME nusxa.status = "pending" PROVE Tegilmagan(BirinchiSham)
        <3>1. Tegilmagan(korilgan) /\ Len(bozor) - korilgan <= Tanaffus
            BY <2>1, <2>2 DEF BekorAsosi, KutishAsosi
        <3>2. Bosh(nusxa) = 1
            BY <1>1, <2>2 DEF QatorAsosi, Bosh, YARATILGAN
        <3>3. BirinchiSham \in Int /\ (BirinchiSham <= korilgan \/ BirinchiSham = 1)
            BY <1>1, <3>1, <3>2 DEF BirinchiSham
        <3>. QED BY <1>1, <3>1, <3>3 DEF Tegilmagan
    <2>3. KutishAsosi(yozuv)' /\ KutishAsosi(nusxa)'
        BY <2>1, TegilmaganTinch DEF BekorAsosi, KutishAsosi
    <2>4. (holat.status = "pending" => Tegilmagan(kursor))'
        BY <2>1, <2>2, TegilmaganTinch
    <2>. QED BY <2>1, <2>3, <2>4 DEF BekorAsosi, BekorHaqiqiy, Kirdi
<1>7. CASE ShamYoq \/ YozuvYoq \/ Uzilish
    <2>1. pc' = "kutish" /\ UNCHANGED <<bozor, yozuv, korilgan>>
        BY <1>7 DEF ShamYoq, YozuvYoq, Uzilish, Tinch
    <2>2. KutishAsosi(yozuv)'
        BY <2>1, TegilmaganTinch DEF BekorAsosi, KutishAsosi
    <2>. QED BY <2>1, <2>2 DEF BekorAsosi, BekorHaqiqiy, Kirdi
<1>8. CASE ShamQadami
    BY <1>8, BekorShamQadami
<1>9. CASE Yozish
    <2>. DEFINE price == IF holat.narx = YOQ THEN ENTRY ELSE holat.narx
    <2>1. /\ pc = "yozish" /\ pc' = "kutish" /\ bozor' = bozor
          /\ yozuv' = ApplyEvent(yozuv, holat.status, price, holat.vaqt, TRUE)
        BY <1>9 DEF Yozish, Tinch
    <2>. HIDE DEF price
    <2>2. /\ holat.status # "pending" /\ holat.vaqt = kursor
          /\ kursor \in 1..Len(bozor)
        BY <2>1 DEF IInv, YurishAsosi, YozishAsosi, NatijaAsosi
    <2>3. /\ yozuv'.status = holat.status
          /\ holat.status = "cancelled" => yozuv'.closed_at = kursor
        BY <2>1, <2>2 DEF ApplyEvent, YopiqHolatlar
    <2>4. holat.status = "cancelled" => \A i \in 1..(kursor - 1) : ~Kirdi(i)'
        BY <2>1 DEF BekorAsosi, Tegilmagan, Kirdi
    <2>5. BekorHaqiqiy'
        BY <2>2, <2>3, <2>4 DEF BekorHaqiqiy
    <2>6. (yozuv.status = "cancelled" => yozuv.closed_at <= Len(bozor))'
        <3>1. Len(bozor') = Len(bozor) /\ kursor <= Len(bozor)
            BY <1>1, <2>1, <2>2
        <3>. QED BY <2>3, <3>1
    <2>. QED BY <2>1, <2>2, <2>3, <2>5, <2>6 DEF BekorAsosi, KutishAsosi
<1>10. CASE UNCHANGED vars
    <2>1. UNCHANGED <<bozor, yozuv, pc, nusxa, holat, kursor, korilgan>>
        BY <1>10 DEF vars
    <2>2. KutishAsosi(yozuv)' /\ (pc # "kutish" => KutishAsosi(nusxa))'
        BY <2>1, TegilmaganTinch DEF BekorAsosi, KutishAsosi
    <2>. QED BY <2>1, <2>2, TegilmaganTinch DEF BekorAsosi, BekorHaqiqiy, Kirdi
<1>. QED
    BY <1>2, <1>3, <1>4, <1>5, <1>6, <1>7, <1>8, <1>9, <1>10 DEF Next

(* When fewer candles open between two completed runs than a run reads      *)
(* (ENG_KOP_SHAM), a limit the price came back to is never cancelled as     *)
(* "reached TP1 unfilled", although the newest candle is read half-formed   *)
(* and a run may fail.                                                     *)
THEOREM BekorTeoremasi ==
    ASSUME Tanaffus < Oyna
    PROVE  Spec => []BekorHaqiqiy
<1>1. Init => BekorAsosi
    BY KuzatuvFarazi
    DEF Init, BoshYozuv, BekorAsosi, KutishAsosi, Tegilmagan, BekorHaqiqiy
<1>2. IInv /\ BekorAsosi /\ [Next]_vars => BekorAsosi'
    BY BekorQadam
<1>3. BekorAsosi => BekorHaqiqiy
    BY DEF BekorAsosi
<1>. QED BY <1>1, <1>2, <1>3, InvTeoremasi, PTL DEF Spec

----------------------------------------------------------------------------
(* The refinement. *)

(* A limit is given up as unfilled only by a run that read it unfilled. *)
BekorNusxadan ==
    pc = "yozish" /\ holat.status = "cancelled" => nusxa.status = "pending"

(* Only ShamBekor ends a loop with a cancellation, and only a limit that    *)
(* still waits gets there.                                                  *)
LEMMA ShamBekorNusxadan ==
    ASSUME IInv, ShamQadami
    PROVE  BekorNusxadan'
<1>1. nusxa' = nusxa \/ pc' = "kutish"
    BY DEF ShamQadami, ShamKutadi, ShamBekor, ShamStop, ShamHammaTp, ShamMuddat,
           ShamDavom, Otish, Tinch
<1>2. pc = "sham" /\ HolatAsosi(holat) /\ holat \in Holat /\ holat.status \in OchiqHolatlar
    BY DEF IInv, TypeOK, YurishAsosi, SiklAsosi, ShamQadami, ShamKutadi, ShamBekor,
           ShamStop, ShamHammaTp, ShamMuddat, ShamDavom
<1>3. \A h \in {KutganHolat(holat, kursor), StopHolat(holat, kursor),
                TpHolat(holat, bozor[kursor], kursor), MuddatHolat(holat, bozor[kursor], kursor),
                DavomHolat(holat, bozor[kursor], kursor)} : h.status # "cancelled"
    BY <1>2 DEF KutganHolat, StopHolat, TpHolat, MuddatHolat, DavomHolat, Holat, OchiqHolatlar
<1>4. CASE pc' = "yozish" /\ holat'.status = "cancelled"
    <2>1. ShamBekor
        BY <1>3, <1>4 DEF ShamQadami, ShamKutadi, ShamStop, ShamHammaTp, ShamMuddat,
                          ShamDavom, Otish, Tinch
    <2>2. holat.status = "pending"
        BY <2>1 DEF ShamBekor, Kirilmasdan
    <2>. QED BY <1>1, <1>2, <1>4, <2>2 DEF HolatAsosi, BekorNusxadan
<1>. QED BY <1>4 DEF BekorNusxadan

(* A run moves the status forward from what it has read: it closes the      *)
(* trade, takes TP1 or fills.                                               *)
LEMMA YozishHayot ==
    ASSUME IInv, BekorNusxadan, Yozish
    PROVE  Hayot!Next
<1>. DEFINE price == IF holat.narx = YOQ THEN ENTRY ELSE holat.narx
            st == holat.status
<1>1. /\ pc = "yozish" /\ pc' = "kutish" /\ yozuv.status # OCHIRILGAN
      /\ yozuv' = ApplyEvent(yozuv, st, price, holat.vaqt, TRUE)
    BY DEF Yozish, Tinch
<1>2. /\ nusxa.status \in OchiqHolatlar /\ st \in Holatlar
      /\ st \notin {"pending", nusxa.status}
      /\ HolatAsosi(holat)
    BY <1>1 DEF IInv, TypeOK, NusxaBogliq, YurishAsosi, YozishAsosi, Holat
<1>3. price \in STOP..BOZOR
    BY QoidaFarazi DEF IInv, TypeOK, Holat, Narx, YOQ, STOP, ENTRY, BOZOR
<1>. HIDE DEF price
<1>4. /\ yozuv'.status = st
      /\ yozuv'.tp1_reached = (yozuv.tp1_reached \/ st = "tp1_hit")
      /\ yozuv'.close_price = IF st \in YopiqHolatlar THEN price ELSE yozuv.close_price
    BY <1>1 DEF ApplyEvent
<1>5. st \in Hayot!Keyin(nusxa.status)
    <2>1. st = "cancelled" => nusxa.status = "pending"
        BY <1>1 DEF BekorNusxadan
    <2>2. st = "active" => nusxa.status = "pending"
        BY <1>2 DEF HolatAsosi, OchiqHolatlar
    <2>. QED BY <1>2, <2>1, <2>2
             DEF Hayot!Keyin, Hayot!Yopiq, Holatlar, OchiqHolatlar, YopiqHolatlar
<1>6. Hayot!Yozildi
    BY <1>1, <1>3, <1>4, <1>5 DEF Hayot!Yozildi, Hayot!Yopiq, YopiqHolatlar, OCHIRILGAN
<1>. QED BY <1>6 DEF Hayot!Next

(* Every step of the system is a step of the abstract life, or none. *)
LEMMA HayotQadam ==
    ASSUME IInv, BekorNusxadan, [Next]_vars
    PROVE  BekorNusxadan' /\ [Hayot!Next]_(Hayot!vars)
<1>1. /\ TypeOK /\ NusxaBogliq /\ yozuv \in Yozuv
    BY DEF IInv, TypeOK
<1>0. pc # "kutish" => nusxa.status # "yoq"
    BY <1>1 DEF NusxaBogliq, OchiqHolatlar
<1>2. CASE AdminBekor
    <2>1. /\ UNCHANGED <<pc, nusxa, holat>> /\ yozuv.status \in OchiqHolatlar
          /\ yozuv' = ApplyEvent(yozuv, "cancelled", ENTRY, Len(bozor), FALSE)
        BY <1>2 DEF AdminBekor, yurish
    <2>2. /\ yozuv'.status = "cancelled" /\ yozuv'.close_price = ENTRY
          /\ yozuv'.tp1_reached = yozuv.tp1_reached
        BY <1>1, <2>1 DEF ApplyEvent, YopiqHolatlar, Yozuv
    <2>3. ENTRY \in STOP..BOZOR
        BY QoidaFarazi DEF ENTRY, STOP, BOZOR
    <2>. QED BY <2>1, <2>2, <2>3
             DEF BekorNusxadan, Hayot!Next, Hayot!Bekor, Hayot!Ochiq, OchiqHolatlar
<1>3. CASE SignalOchir
    <2>1. /\ yozuv' = [BoshYozuv EXCEPT !.status = OCHIRILGAN] /\ yozuv.status # OCHIRILGAN
          /\ UNCHANGED <<pc, nusxa, holat>>
        BY <1>3 DEF SignalOchir, yurish
    <2>2. /\ yozuv'.status = OCHIRILGAN /\ yozuv'.tp1_reached = FALSE
          /\ yozuv'.close_price = YOQ
        BY <2>1 DEF BoshYozuv
    <2>. QED BY <2>1, <2>2
             DEF BekorNusxadan, Hayot!Next, Hayot!Ochirildi, OCHIRILGAN
<1>4. CASE Yozish
    <2>1. pc' = "kutish"
        BY <1>4 DEF Yozish, Tinch
    <2>. QED BY <1>4, <2>1, YozishHayot DEF BekorNusxadan
<1>5. CASE Oqish
    <2>. QED BY <1>5 DEF Oqish, BekorNusxadan, Hayot!Next, Hayot!Oqildi, Hayot!Ochiq, OchiqHolatlar
<1>6. CASE ~(AdminBekor \/ SignalOchir \/ Yozish \/ Oqish)
    <2>1. UNCHANGED yozuv
        BY <1>6 DEF Next, vars, YangiSham, ShamOsadi, Yuklash, ShamYoq,
                    ShamQadami, ShamKutadi, ShamBekor, ShamStop, ShamHammaTp,
                    ShamMuddat, ShamDavom, Otish, YozuvYoq, Uzilish
    <2>2. \/ UNCHANGED <<pc, nusxa, holat>>
          \/ pc # "kutish" /\ pc' = "kutish"
          \/ pc # "kutish" /\ pc' # "kutish" /\ nusxa' = nusxa /\ (pc' = "sham" \/ ShamQadami)
        BY <1>6 DEF Next, vars, yurish, YangiSham, ShamOsadi, Yuklash, ShamYoq,
                    ShamQadami, ShamKutadi, ShamBekor, ShamStop, ShamHammaTp,
                    ShamMuddat, ShamDavom, Otish, YozuvYoq, Uzilish, Tinch
    <2>3. [Hayot!Next]_(Hayot!vars)
        BY <1>0, <2>1, <2>2 DEF Hayot!vars, Hayot!Next, Hayot!Tashlandi
    <2>. QED BY <2>2, <2>3, ShamBekorNusxadan DEF BekorNusxadan
<1>. QED BY <1>2, <1>3, <1>4, <1>5, <1>6

(* The row of a watched signal lives as SignalHayoti promises, whenever the *)
(* admin cancels it: it only moves forward from what was read, what the     *)
(* watcher closed stays closed with its price, the fact of TP1 is never     *)
(* lost, and a cancellation is overwritten by the run under way at most.    *)
THEOREM HayotTeoremasi == Spec => HayotSpec
<1>1. Init => BekorNusxadan /\ Hayot!Init
    BY DEF Init, BoshYozuv, BekorNusxadan, Hayot!Init
<1>2. IInv /\ BekorNusxadan /\ [Next]_vars
        => BekorNusxadan' /\ [Hayot!Next]_(Hayot!vars)
    BY HayotQadam
<1>. QED BY <1>1, <1>2, InvTeoremasi, PTL DEF Spec, HayotSpec, Hayot!Spec

-----------------------------------------------------------------------------
(* The cycle *)

(* The coins the run may still make a signal for. *)
Mumkin(c) == c \notin ochiq /\ (c \in navbat \/ (joy = "ai" /\ c = joriy.coin))

(* For them the snapshot still says the truth of the cycle's own signals:   *)
(* none is open ...                                                         *)
OchiqTogri ==
    \A c \in Coinlar : Mumkin(c) =>
        \A i \in Qatorlari(c) : qator[i].manba = "zanjir" => qator[i].holat # "ochiq"

(* ... and if the newest row is the cycle's and was not deleted, its zone   *)
(* is the one in the snapshot.                                              *)
Songi(i) == ~\E k \in Id : i < k /\ k \in Qatorlari(qator[i].coin)
OxirgiTogri ==
    \A c \in Coinlar : Mumkin(c) =>
        \A i \in Qatorlari(c) :
            (qator[i].manba = "zanjir" /\ qator[i].holat # "ochirilgan" /\ Songi(i))
                => oxirgi[c] = qator[i].zona

(* The zone the AI is asked about is a new one, of a coin that was not      *)
(* open; ids are given out in order.                                        *)
JoriyTogri ==
    joy = "ai" => /\ joriy.coin \notin ochiq
                  /\ joriy.zona \in Zonalar \ {oxirgi[joriy.coin]}
IdTartibi == \A i, j \in Id : i < j /\ Yaratilgan(j) => Yaratilgan(i)

QatorTuri == [holat : {"yoq", "ochiq", "yopiq", "qayta", "ochirilgan"}, coin : Coinlar \cup {ZONASIZ},
              zona : Zonalar \cup {ZONASIZ}, manba : {"yoq", "manual", "zanjir"}]

SiklInv == ZanjirTypeOK /\ IdTartibi /\ JoriyTogri /\ OxirgiTogri /\ TakrorEmas

LEMMA BoshlanishL == ZanjirInit => SiklInv /\ OchiqTogri /\ ZanjirBitta
  BY ZanjirFarazi DEF ZanjirInit, SiklInv, ZanjirTypeOK, IdTartibi, JoriyTogri, OxirgiTogri, TakrorEmas, OchiqTogri,
     ZanjirBitta, Mumkin, Qatorlari, Yaratilgan, Zanjirniki, BoshQator, BoshJoriy, BoshNatija

-----------------------------------------------------------------------------
(* What a new row is, and what it leaves alone. *)
LEMMA YaratL ==
  ASSUME SiklInv, NEW c \in Coinlar, NEW z \in Zonalar, NEW m \in {"manual", "zanjir"}, Yarat(c, z, m)
  PROVE  \E i \in Id :
            /\ ~Yaratilgan(i)
            /\ \A j \in Id : Yaratilgan(j) => j < i
            /\ \A j \in Id : j # i => qator'[j] = qator[j]
            /\ qator'[i] = [holat |-> "ochiq", coin |-> c, zona |-> z, manba |-> m]
            /\ qator' \in [Id -> QatorTuri]
            /\ IdTartibi'
<1>1. PICK i \in Id :
        /\ ~Yaratilgan(i)
        /\ \A j \in Id : j < i => Yaratilgan(j)
        /\ qator' = [qator EXCEPT ![i] = [holat |-> "ochiq", coin |-> c, zona |-> z, manba |-> m]]
  BY DEF Yarat
<1>2. qator \in [Id -> QatorTuri]  BY DEF SiklInv, ZanjirTypeOK, QatorTuri
<1>3. \A j \in Id : Yaratilgan(j) => j < i
  <2>. SUFFICES ASSUME NEW j \in Id, Yaratilgan(j), ~(j < i) PROVE FALSE  OBVIOUS
  <2>1. j = i \/ i < j  BY DEF Id
  <2>. QED  BY <2>1, <1>1 DEF SiklInv, IdTartibi
<1>4. /\ \A j \in Id : j # i => qator'[j] = qator[j]
      /\ qator'[i] = [holat |-> "ochiq", coin |-> c, zona |-> z, manba |-> m]
  BY <1>1, <1>2
<1>5. [holat |-> "ochiq", coin |-> c, zona |-> z, manba |-> m] \in QatorTuri  BY DEF QatorTuri
<1>6. qator' \in [Id -> QatorTuri]  BY <1>1, <1>2, <1>5
<1>7. IdTartibi'
  <2>. SUFFICES ASSUME NEW j \in Id, NEW k \in Id, j < k, Yaratilgan(k)' PROVE Yaratilgan(j)'
    BY DEF IdTartibi
  <2>1. CASE k = i
    <3>1. j # i /\ Yaratilgan(j)  BY <2>1, <1>1 DEF Id
    <3>. QED  BY <3>1, <1>4 DEF Yaratilgan
  <2>2. CASE k # i
    <3>1. Yaratilgan(k)  BY <2>2, <1>4 DEF Yaratilgan
    <3>2. Yaratilgan(j)  BY <3>1 DEF SiklInv, IdTartibi
    <3>3. j # i  BY <3>2, <1>1
    <3>. QED  BY <3>2, <3>3, <1>4 DEF Yaratilgan
  <2>. QED  BY <2>1, <2>2
<1>. QED  BY <1>1, <1>3, <1>4, <1>6, <1>7

(* A row that changes its status only. *)
LEMMA HolatL ==
  ASSUME SiklInv, Yopiladi \/ QaytaOchish \/ QatorOchir
  PROVE  /\ qator' \in [Id -> QatorTuri]
         /\ \A i \in Id : /\ qator'[i].coin = qator[i].coin /\ qator'[i].zona = qator[i].zona
                          /\ qator'[i].manba = qator[i].manba
                          /\ Yaratilgan(i)' = Yaratilgan(i)
                          /\ qator[i].holat = "ochirilgan" => qator'[i].holat = "ochirilgan"
                          /\ qator'[i].holat = "ochiq" => qator[i].holat = "ochiq"
         /\ UNCHANGED <<joy, ochiq, oxirgi, boshi, navbat, joriy, natija, ekran>>
<1>1. PICK k \in Id, h \in {"yopiq", "qayta", "ochirilgan"} :
        /\ qator[k].holat \in {"ochiq", "yopiq", "qayta"}
        /\ qator' = [qator EXCEPT ![k].holat = h]
  BY DEF Yopiladi, QaytaOchish, QatorOchir, Bor, OchiqQator
<1>2. qator \in [Id -> QatorTuri]  BY DEF SiklInv, ZanjirTypeOK, QatorTuri
<1>3. [qator[k] EXCEPT !.holat = h] \in QatorTuri  BY <1>2 DEF QatorTuri
<1>4. qator' \in [Id -> QatorTuri]  BY <1>1, <1>2, <1>3
<1>5. /\ \A i \in Id : i # k => qator'[i] = qator[i]
      /\ qator'[k] = [qator[k] EXCEPT !.holat = h]
  BY <1>1, <1>2
<1>6. /\ qator'[k].coin = qator[k].coin /\ qator'[k].zona = qator[k].zona
      /\ qator'[k].manba = qator[k].manba /\ qator'[k].holat = h
  BY <1>5, <1>2 DEF QatorTuri
<1>7. UNCHANGED <<joy, ochiq, oxirgi, boshi, navbat, joriy, natija, ekran>>
  BY DEF Yopiladi, QaytaOchish, QatorOchir, suratlar
<1>. QED  BY <1>1, <1>4, <1>5, <1>6, <1>7 DEF Yaratilgan

LEMMA HolatInvL ==
  ASSUME SiklInv, Yopiladi \/ QaytaOchish \/ QatorOchir
  PROVE  SiklInv'
<1>1. ZanjirTypeOK'  BY HolatL DEF SiklInv, ZanjirTypeOK, QatorTuri
<1>2. IdTartibi' /\ JoriyTogri'  BY HolatL DEF SiklInv, IdTartibi, JoriyTogri
<1>3. \A c : Mumkin(c)' = Mumkin(c)  BY HolatL DEF Mumkin
<1>4. \A c : Qatorlari(c)' = Qatorlari(c)  BY HolatL DEF Qatorlari
<1>5. OxirgiTogri'
  <2>. SUFFICES ASSUME NEW c \in Coinlar, Mumkin(c)', NEW i \in Qatorlari(c)',
                       qator'[i].manba = "zanjir", qator'[i].holat # "ochirilgan", Songi(i)'
                PROVE  oxirgi'[c] = qator'[i].zona
    BY DEF OxirgiTogri
  <2>1. i \in Qatorlari(c) /\ i \in Id /\ Mumkin(c)  BY <1>3, <1>4 DEF Qatorlari
  <2>2. qator[i].manba = "zanjir" /\ qator[i].holat # "ochirilgan"  BY <2>1, HolatL
  <2>3. qator'[i].coin = qator[i].coin /\ qator'[i].zona = qator[i].zona  BY <2>1, HolatL
  <2>4. Songi(i)  BY <1>4, <2>3 DEF Songi
  <2>. QED  BY <2>1, <2>2, <2>3, <2>4, HolatL DEF SiklInv, OxirgiTogri
<1>6. TakrorEmas'
  <2>. SUFFICES ASSUME NEW i \in Id, NEW j \in Id, Zanjirniki(i)', Zanjirniki(j)', Ketma(i, j)',
                       qator'[i].holat # "ochirilgan"
                PROVE  qator'[i].zona # qator'[j].zona
    BY DEF TakrorEmas
  <2>1. Zanjirniki(i) /\ Zanjirniki(j) /\ qator[i].holat # "ochirilgan"  BY HolatL DEF Zanjirniki
  <2>2. qator'[i].coin = qator[i].coin /\ qator'[j].coin = qator[j].coin  BY HolatL
  <2>3. Ketma(i, j)  BY <1>4, <2>2 DEF Ketma
  <2>. QED  BY <2>1, <2>3, HolatL DEF SiklInv, TakrorEmas
<1>. QED  BY <1>1, <1>2, <1>5, <1>6 DEF SiklInv

-----------------------------------------------------------------------------
(* A new row keeps TakrorEmas when it is by hand or of a new zone. *)
LEMMA YangiTakrorL ==
  ASSUME SiklInv, NEW c \in Coinlar, NEW z \in Zonalar, NEW m \in {"manual", "zanjir"}, Yarat(c, z, m),
         m = "zanjir" => Mumkin(c) /\ z # oxirgi[c]
  PROVE  TakrorEmas'
<1>1. PICK n \in Id :
            /\ ~Yaratilgan(n)
            /\ \A j \in Id : Yaratilgan(j) => j < n
            /\ \A j \in Id : j # n => qator'[j] = qator[j]
            /\ qator'[n] = [holat |-> "ochiq", coin |-> c, zona |-> z, manba |-> m]
  BY YaratL
<1>. SUFFICES ASSUME NEW i \in Id, NEW j \in Id, Zanjirniki(i)', Zanjirniki(j)', Ketma(i, j)',
                     qator'[i].holat # "ochirilgan"
              PROVE  qator'[i].zona # qator'[j].zona
  BY DEF TakrorEmas
<1>2. i < j  BY DEF Ketma
<1>3. i # n
  <2>. SUFFICES ASSUME i = n PROVE FALSE  OBVIOUS
  <2>1. j # n  BY <1>2 DEF Id
  <2>2. Yaratilgan(j)  BY <2>1, <1>1 DEF Zanjirniki, Yaratilgan
  <2>3. j < n  BY <2>2, <1>1
  <2>. QED  BY <2>3, <1>2 DEF Id
<1>4. qator'[i] = qator[i] /\ Zanjirniki(i)  BY <1>1, <1>3 DEF Zanjirniki, Yaratilgan
<1>5. \A k \in Id : \A d : k # n => (k \in Qatorlari(d)' <=> k \in Qatorlari(d))
  BY <1>1 DEF Qatorlari, Yaratilgan
<1>6. CASE j = n
  <2>1. m = "zanjir" /\ qator[i].coin = c /\ qator'[j].zona = z
    BY <1>6, <1>1, <1>4 DEF Zanjirniki, Ketma
  <2>2. i \in Qatorlari(c)  BY <1>4, <2>1 DEF Qatorlari, Zanjirniki
  <2>3. Songi(i)
    <3>. SUFFICES ASSUME NEW k \in Id, i < k, k \in Qatorlari(c) PROVE FALSE  BY <2>1 DEF Songi
    <3>1. k < n /\ k # n  BY <1>1 DEF Qatorlari
    <3>2. k \in Qatorlari(c)'  BY <3>1, <1>5
    <3>. QED  BY <3>1, <3>2, <2>1, <1>4, <1>6 DEF Ketma
  <2>4. oxirgi[c] = qator[i].zona
    BY <2>1, <2>2, <2>3, <1>4 DEF SiklInv, OxirgiTogri, Zanjirniki
  <2>. QED  BY <2>1, <2>4, <1>4
<1>7. CASE j # n
  <2>1. qator'[j] = qator[j] /\ Zanjirniki(j)  BY <1>1, <1>7 DEF Zanjirniki, Yaratilgan
  <2>2. Ketma(i, j)
    <3>1. \A k \in Id : k < j => k # n
      <4>1. j < n  BY <1>1, <2>1 DEF Zanjirniki
      <4>. QED  BY <4>1 DEF Id
    <3>. QED  BY <3>1, <1>4, <1>5, <2>1 DEF Ketma
  <2>. QED  BY <2>1, <2>2, <1>4 DEF SiklInv, TakrorEmas
<1>. QED  BY <1>6, <1>7

(* A new row keeps the snapshot true of the coins it is not of. *)
LEMMA YangiOxirgiL ==
  ASSUME SiklInv, NEW c \in Coinlar, NEW z \in Zonalar, NEW m \in {"manual", "zanjir"}, Yarat(c, z, m),
         oxirgi' = oxirgi, \A d \in Coinlar : Mumkin(d)' => Mumkin(d),
         m = "zanjir" => ~Mumkin(c)'
  PROVE  OxirgiTogri'
<1>1. PICK n \in Id :
            /\ ~Yaratilgan(n)
            /\ \A j \in Id : Yaratilgan(j) => j < n
            /\ \A j \in Id : j # n => qator'[j] = qator[j]
            /\ qator'[n] = [holat |-> "ochiq", coin |-> c, zona |-> z, manba |-> m]
  BY YaratL
<1>. SUFFICES ASSUME NEW d \in Coinlar, Mumkin(d)', NEW i \in Qatorlari(d)',
                     qator'[i].manba = "zanjir", qator'[i].holat # "ochirilgan", Songi(i)'
              PROVE  oxirgi'[d] = qator'[i].zona
  BY DEF OxirgiTogri
<1>2. i \in Id /\ Mumkin(d)  BY DEF Qatorlari
<1>3. i # n
  <2>. SUFFICES ASSUME i = n PROVE FALSE  OBVIOUS
  <2>1. m = "zanjir" /\ d = c  BY <1>1 DEF Qatorlari
  <2>. QED  BY <2>1
<1>4. qator'[i] = qator[i] /\ i \in Qatorlari(d)  BY <1>1, <1>2, <1>3 DEF Qatorlari, Yaratilgan
<1>5. Songi(i)
  <2>. SUFFICES ASSUME NEW k \in Id, i < k, k \in Qatorlari(qator[i].coin) PROVE FALSE  BY DEF Songi
  <2>1. k # n  BY <1>1 DEF Qatorlari
  <2>2. k \in Qatorlari(qator[i].coin)'  BY <2>1, <1>1, <1>4 DEF Qatorlari, Yaratilgan
  <2>. QED  BY <2>2 DEF Songi
<1>. QED  BY <1>2, <1>4, <1>5 DEF SiklInv, OxirgiTogri

LEMMA QoldaL == SiklInv /\ QoldaYaratiladi => SiklInv'
<1>. SUFFICES ASSUME SiklInv, QoldaYaratiladi PROVE SiklInv'  OBVIOUS
<1>1. PICK c \in Coinlar, z \in Zonalar : Yarat(c, z, "manual")  BY DEF QoldaYaratiladi
<1>2. UNCHANGED <<joy, ochiq, oxirgi, boshi, navbat, joriy, natija, ekran>>
  BY DEF QoldaYaratiladi, suratlar
<1>3. qator' \in [Id -> QatorTuri] /\ IdTartibi'  BY <1>1, YaratL
<1>4. ZanjirTypeOK'  BY <1>2, <1>3 DEF SiklInv, ZanjirTypeOK, QatorTuri
<1>5. JoriyTogri'  BY <1>2 DEF SiklInv, JoriyTogri
<1>6. \A d : Mumkin(d)' = Mumkin(d)  BY <1>2 DEF Mumkin
<1>7. OxirgiTogri'  BY <1>1, <1>2, <1>6, YangiOxirgiL
<1>8. TakrorEmas'  BY <1>1, YangiTakrorL
<1>. QED  BY <1>3, <1>4, <1>5, <1>7, <1>8 DEF SiklInv

LEMMA SignalBerishL == SiklInv /\ SignalBerish => SiklInv'
<1>. SUFFICES ASSUME SiklInv, SignalBerish PROVE SiklInv'  OBVIOUS
<1>. DEFINE c == joriy.coin  z == joriy.zona
<1>1. /\ joy = "ai" /\ Yarat(c, z, "zanjir") /\ joy' = "coin" /\ joriy' = BoshJoriy
      /\ natija' = [natija EXCEPT ![c] = "signal"]
      /\ UNCHANGED <<ochiq, oxirgi, boshi, navbat, ekran>>
  BY DEF SignalBerish, AiJavob, suratlar
<1>2. c \in Coinlar /\ c \notin navbat /\ c \notin ochiq /\ z # oxirgi[c]
  BY <1>1 DEF SiklInv, ZanjirTypeOK, JoriyTogri
<1>3. z \in Zonalar  BY <1>1 DEF SiklInv, JoriyTogri
<1>. HIDE DEF c, z
<1>4. qator' \in [Id -> QatorTuri] /\ IdTartibi'  BY <1>1, <1>2, <1>3, YaratL
<1>5. ZanjirTypeOK'  BY <1>1, <1>2, <1>4, ZanjirFarazi DEF SiklInv, ZanjirTypeOK, QatorTuri, BoshJoriy, Natijalar
<1>6. JoriyTogri'  BY <1>1 DEF JoriyTogri
<1>7. Mumkin(c)  BY <1>1, <1>2 DEF Mumkin, c
<1>8. \A d \in Coinlar : Mumkin(d)' => Mumkin(d) /\ d # c  BY <1>1, <1>2 DEF Mumkin
<1>9. OxirgiTogri'  BY <1>1, <1>2, <1>3, <1>8, YangiOxirgiL
<1>10. TakrorEmas'  BY <1>1, <1>2, <1>3, <1>7, YangiTakrorL
<1>. QED  BY <1>4, <1>5, <1>6, <1>9, <1>10 DEF SiklInv

-----------------------------------------------------------------------------
(* The last row of a coin, if the cycle's and not deleted, is what           *)
(* oxirgi_signallar finds.                                                   *)
LEMMA OxirgiZonaL ==
  ASSUME SiklInv, NEW c \in Coinlar, NEW i \in Qatorlari(c), Bor(i), Songi(i)
  PROVE  OxirgiZona(c) = qator[i].zona
<1>. DEFINE R == {k \in Qatorlari(c) : Bor(k)}
<1>1. i \in R /\ i \in Id /\ qator[i].coin = c  BY DEF Qatorlari
<1>2. \A j \in R : j <= i
  <2>. SUFFICES ASSUME NEW j \in R, ~(j <= i) PROVE FALSE  OBVIOUS
  <2>1. j \in Id /\ i < j  BY <1>1 DEF Qatorlari, Id
  <2>. QED  BY <2>1, <1>1 DEF Songi
<1>3. i \in Eng(R)  BY <1>1, <1>2 DEF Eng
<1>4. \A j \in Eng(R) : j = i
  <2>. SUFFICES ASSUME NEW j \in Eng(R) PROVE j = i  OBVIOUS
  <2>1. j \in Id /\ j <= i /\ i <= j  BY <1>1, <1>2 DEF Eng, Qatorlari
  <2>. QED  BY <2>1, <1>1 DEF Id
<1>5. OxirgiZona(c) = IF Eng(R) = {} THEN ZONASIZ ELSE qator[CHOOSE k \in Eng(R) : TRUE].zona
  BY DEF OxirgiZona
<1>. HIDE DEF R
<1>6. (CHOOSE k \in Eng(R) : TRUE) = i  BY <1>3, <1>4
<1>. QED  BY <1>3, <1>5, <1>6

LEMMA OxirgiTuriL ==
  ASSUME SiklInv, NEW c \in Coinlar
  PROVE  OxirgiZona(c) \in Zonalar \cup {ZONASIZ}
<1>. DEFINE S == Eng({k \in Qatorlari(c) : Bor(k)})
<1>1. OxirgiZona(c) = IF S = {} THEN ZONASIZ ELSE qator[CHOOSE k \in S : TRUE].zona  BY DEF OxirgiZona
<1>2. S \subseteq Id  BY DEF Eng, Qatorlari
<1>. HIDE DEF S
<1>3. CASE S = {}  BY <1>1, <1>3
<1>4. CASE S # {}
  <2>1. (CHOOSE k \in S : TRUE) \in Id  BY <1>2, <1>4
  <2>2. \A k \in Id : qator[k].zona \in Zonalar \cup {ZONASIZ}  BY DEF SiklInv, ZanjirTypeOK
  <2>. QED  BY <1>1, <1>4, <2>1, <2>2
<1>. QED  BY <1>3, <1>4

LEMMA BoshlashL == SiklInv /\ Boshlash => SiklInv' /\ OchiqTogri'
<1>. SUFFICES ASSUME SiklInv, Boshlash PROVE SiklInv' /\ OchiqTogri'  OBVIOUS
<1>1. /\ joy = "bosh" /\ joy' = "btc"
      /\ ochiq' = OchiqCoinlar
      /\ oxirgi' = [c \in Coinlar |-> OxirgiZona(c)]
      /\ boshi' = Cardinality({i \in Id : Yaratilgan(i)})
      /\ navbat' = Coinlar
      /\ natija' = BoshNatija
      /\ UNCHANGED <<qator, joriy, ekran>>
  BY DEF Boshlash
<1>2. boshi' \in Nat
  <2>1. IsFiniteSet(Id)  BY FS_Interval, ZanjirFarazi DEF Id
  <2>2. {i \in Id : Yaratilgan(i)} \subseteq Id  OBVIOUS
  <2>3. IsFiniteSet({i \in Id : Yaratilgan(i)})  BY <2>1, <2>2, FS_Subset
  <2>. QED  BY <1>1, <2>3, FS_CardinalityType
<1>3. oxirgi' \in [Coinlar -> Zonalar \cup {ZONASIZ}]  BY <1>1, OxirgiTuriL
<1>4. ochiq' \subseteq Coinlar  BY <1>1 DEF OchiqCoinlar
<1>5. joriy'.coin \notin Coinlar /\ natija' \in [Coinlar -> Natijalar \cup {"yoq"}]
  BY <1>1 DEF SiklInv, ZanjirTypeOK, BoshNatija
<1>6. ZanjirTypeOK'  BY <1>1, <1>2, <1>3, <1>4, <1>5 DEF SiklInv, ZanjirTypeOK
<1>7. IdTartibi' /\ JoriyTogri' /\ TakrorEmas'
  BY <1>1 DEF SiklInv, IdTartibi, JoriyTogri, TakrorEmas, Yaratilgan, Zanjirniki, Ketma, Qatorlari
<1>8. OxirgiTogri'
  <2>. SUFFICES ASSUME NEW c \in Coinlar, NEW i \in Qatorlari(c), Songi(i),
                       qator[i].holat # "ochirilgan"
                PROVE  oxirgi'[c] = qator[i].zona
    BY <1>1 DEF OxirgiTogri, Qatorlari, Yaratilgan, Songi
  <2>1. Bor(i)  BY DEF Qatorlari, Yaratilgan, Bor, OchiqQator, SiklInv, ZanjirTypeOK
  <2>. QED  BY <2>1, <1>1, OxirgiZonaL
<1>9. OchiqTogri'
  BY <1>1 DEF OchiqTogri, Mumkin, OchiqCoinlar, Qatorlari, Yaratilgan, OchiqQator
<1>. QED  BY <1>6, <1>7, <1>8, <1>9 DEF SiklInv

-----------------------------------------------------------------------------
(* The steps of the run that make no row: the coins it may still signal     *)
(* get fewer, and the snapshot stays or is dropped.                         *)
LEMMA YurishL ==
  ASSUME SiklInv, BtcYuklandi \/ (\E c \in Coinlar : Otkaz(c) \/ Xato(c) \/ Rad(c) \/ AiSora(c))
               \/ AiRad \/ HolatlarniYoz \/ YurUzilish
  PROVE  /\ ZanjirTypeOK' /\ JoriyTogri'
         /\ qator' = qator
         /\ \A c \in Coinlar : Mumkin(c)' => Mumkin(c) /\ oxirgi'[c] = oxirgi[c]
<1>1. CASE Tugash /\ UNCHANGED qator /\ ekran' \subseteq Coinlar
  BY <1>1, ZanjirFarazi DEF Tugash, SiklInv, ZanjirTypeOK, JoriyTogri, Mumkin, BoshJoriy, BoshNatija
<1>2. CASE BtcYuklandi /\ joy' = "coin" /\ UNCHANGED <<suratlar, navbat, joriy, natija>>
  BY <1>2, ZanjirFarazi DEF BtcYuklandi, suratlar, SiklInv, ZanjirTypeOK, JoriyTogri, Mumkin
<1>3. ASSUME NEW c \in Coinlar, NEW n \in Natijalar, joy = "coin", c \in navbat, navbat' = navbat \ {c},
             natija' = [natija EXCEPT ![c] = n], UNCHANGED <<qator, joy, suratlar, joriy, ekran>>
      PROVE  /\ ZanjirTypeOK' /\ JoriyTogri'
             /\ qator' = qator
             /\ \A d \in Coinlar : Mumkin(d)' => Mumkin(d) /\ oxirgi'[d] = oxirgi[d]
  <2>1. natija' \in [Coinlar -> Natijalar \cup {"yoq"}]  BY <1>3 DEF SiklInv, ZanjirTypeOK
  <2>2. UNCHANGED <<ochiq, oxirgi, boshi>>  BY <1>3 DEF suratlar
  <2>3. ZanjirTypeOK'  BY <1>3, <2>1, <2>2 DEF SiklInv, ZanjirTypeOK
  <2>. QED  BY <1>3, <2>2, <2>3 DEF SiklInv, JoriyTogri, Mumkin
<1>4. ASSUME NEW c \in Coinlar, Otkaz(c) \/ Xato(c) \/ Rad(c)
      PROVE  /\ ZanjirTypeOK' /\ JoriyTogri'
             /\ qator' = qator
             /\ \A d \in Coinlar : Mumkin(d)' => Mumkin(d) /\ oxirgi'[d] = oxirgi[d]
  <2>1. PICK n \in Natijalar : natija' = [natija EXCEPT ![c] = n]
    BY <1>4 DEF Otkaz, Xato, Rad, Natijalar
  <2>2. joy = "coin" /\ c \in navbat /\ navbat' = navbat \ {c} /\ UNCHANGED <<qator, joy, suratlar, joriy, ekran>>
    BY <1>4 DEF Otkaz, Xato, Rad
  <2>. QED  BY <2>1, <2>2, <1>3
<1>5. ASSUME NEW c \in Coinlar, AiSora(c)
      PROVE  /\ ZanjirTypeOK' /\ JoriyTogri'
             /\ qator' = qator
             /\ \A d \in Coinlar : Mumkin(d)' => Mumkin(d) /\ oxirgi'[d] = oxirgi[d]
  <2>1. PICK z \in Zonalar \ {oxirgi[c]} : joriy' = [coin |-> c, zona |-> z]  BY <1>5 DEF AiSora
  <2>2. /\ joy = "coin" /\ joy' = "ai" /\ c \in navbat /\ c \notin ochiq /\ navbat' = navbat \ {c}
        /\ UNCHANGED <<qator, ochiq, oxirgi, boshi, natija, ekran>>
    BY <1>5 DEF AiSora, suratlar
  <2>3. joriy'.coin = c /\ joriy'.zona = z  BY <2>1
  <2>4. ZanjirTypeOK'  BY <2>1, <2>2, <2>3 DEF SiklInv, ZanjirTypeOK
  <2>5. JoriyTogri'  BY <2>1, <2>2, <2>3 DEF JoriyTogri
  <2>6. \A d \in Coinlar : Mumkin(d)' => Mumkin(d)  BY <2>2, <2>3 DEF Mumkin
  <2>. QED  BY <2>2, <2>4, <2>5, <2>6
<1>6. CASE AiRad
  <2>1. PICK n \in Natijalar : AiJavob(n)  BY <1>6 DEF AiRad, Natijalar
  <2>2. /\ joy' = "coin" /\ joriy' = BoshJoriy
        /\ natija' = [natija EXCEPT ![joriy.coin] = n]
        /\ UNCHANGED <<qator, ochiq, oxirgi, boshi, navbat, ekran>>
    BY <2>1, <1>6 DEF AiJavob, AiRad, suratlar
  <2>3. natija' \in [Coinlar -> Natijalar \cup {"yoq"}]  BY <2>2 DEF SiklInv, ZanjirTypeOK
  <2>4. joriy' \in [coin : Coinlar \cup {ZONASIZ}, zona : Zonalar \cup {ZONASIZ}] /\ joriy'.coin \notin Coinlar
    BY <2>2, ZanjirFarazi DEF BoshJoriy
  <2>5. ZanjirTypeOK'  BY <2>2, <2>3, <2>4 DEF SiklInv, ZanjirTypeOK
  <2>. QED  BY <2>2, <2>5 DEF JoriyTogri, Mumkin
<1>7. CASE HolatlarniYoz \/ YurUzilish
  <2>1. ekran' \subseteq Coinlar  BY <1>7 DEF HolatlarniYoz, YurUzilish, SiklInv, ZanjirTypeOK
  <2>. QED  BY <1>7, <2>1, <1>1 DEF HolatlarniYoz, YurUzilish
<1>8. CASE BtcYuklandi
  <2>1. ekran' \subseteq Coinlar  BY <1>8 DEF BtcYuklandi, SiklInv, ZanjirTypeOK
  <2>. QED  BY <1>8, <2>1, <1>1, <1>2 DEF BtcYuklandi
<1>. QED  BY <1>4, <1>5, <1>6, <1>7, <1>8

LEMMA YurishInvL ==
  ASSUME SiklInv, ZanjirTypeOK', JoriyTogri', qator' = qator,
         \A c \in Coinlar : Mumkin(c)' => Mumkin(c) /\ oxirgi'[c] = oxirgi[c]
  PROVE  SiklInv'
  BY DEF SiklInv, IdTartibi, OxirgiTogri, TakrorEmas, Yaratilgan, Zanjirniki, Ketma, Qatorlari, Songi

LEMMA QadamL == SiklInv /\ [ZanjirNext]_zvars => SiklInv'
<1>. SUFFICES ASSUME SiklInv, [ZanjirNext]_zvars PROVE SiklInv'  OBVIOUS
<1>1. CASE QoldaYaratiladi  BY <1>1, QoldaL
<1>2. CASE Yopiladi \/ QaytaOchish \/ QatorOchir  BY <1>2, HolatInvL
<1>3. CASE Boshlash  BY <1>3, BoshlashL
<1>4. CASE SignalBerish  BY <1>4, SignalBerishL
<1>5. CASE BtcYuklandi \/ (\E c \in Coinlar : Otkaz(c) \/ Xato(c) \/ Rad(c) \/ AiSora(c))
           \/ AiRad \/ HolatlarniYoz \/ YurUzilish
  BY <1>5, YurishL, YurishInvL
<1>6. CASE UNCHANGED zvars
  <2>1. ZanjirTypeOK' /\ JoriyTogri'  BY <1>6 DEF zvars, SiklInv, ZanjirTypeOK, JoriyTogri
  <2>2. \A c \in Coinlar : Mumkin(c)' => Mumkin(c) /\ oxirgi'[c] = oxirgi[c]  BY <1>6 DEF zvars, Mumkin
  <2>3. qator' = qator  BY <1>6 DEF zvars
  <2>. QED  BY <2>1, <2>2, <2>3, YurishInvL
<1>. QED  BY <1>1, <1>2, <1>3, <1>4, <1>5, <1>6 DEF ZanjirNext, Yurish

(* Type correctness of the rows, the run and its snapshot. *)
THEOREM SiklTurTeoremasi == ZanjirSpec => []ZanjirTypeOK
<1>1. ZanjirInit => SiklInv  BY BoshlanishL
<1>2. SiklInv /\ [ZanjirNext]_zvars => SiklInv'  BY QadamL
<1>3. SiklInv => ZanjirTypeOK  BY DEF SiklInv
<1>. QED  BY <1>1, <1>2, <1>3, PTL DEF ZanjirSpec

(* Two signals of the cycle that follow one another in a coin have          *)
(* different levels, whoever writes the table meanwhile.                    *)
THEOREM TakrorTeoremasi == ZanjirSpec => []TakrorEmas
<1>1. ZanjirInit => SiklInv  BY BoshlanishL
<1>2. SiklInv /\ [ZanjirNext]_zvars => SiklInv'  BY QadamL
<1>3. SiklInv => TakrorEmas  BY DEF SiklInv
<1>. QED  BY <1>1, <1>2, <1>3, PTL DEF ZanjirSpec

-----------------------------------------------------------------------------
(* A signal of the cycle that was never closed is the coin's last of the    *)
(* cycle.                                                                   *)
BittaInv == SiklInv /\ OchiqTogri /\ ZanjirBitta

LEMMA BittaQadamL ==
  ASSUME BittaInv, [ZanjirNext]_zvars
  PROVE  BittaInv'
<1>. SUFFICES OchiqTogri' /\ ZanjirBitta'  BY QadamL DEF BittaInv
<1>1. SiklInv  BY DEF BittaInv
<1>2. ASSUME qator' = qator, \A c \in Coinlar : Mumkin(c)' => Mumkin(c)
      PROVE  OchiqTogri' /\ ZanjirBitta'
  BY <1>2 DEF BittaInv, OchiqTogri, ZanjirBitta, Zanjirniki, Yaratilgan, Qatorlari
<1>3. CASE Yopiladi \/ QaytaOchish \/ QatorOchir
  <2>1. /\ \A c : Mumkin(c)' = Mumkin(c) /\ Qatorlari(c)' = Qatorlari(c)
        /\ \A i \in Id : /\ qator'[i].coin = qator[i].coin /\ qator'[i].manba = qator[i].manba
                         /\ qator'[i].holat = "ochiq" => qator[i].holat = "ochiq"
                         /\ Yaratilgan(i)' = Yaratilgan(i)
    BY <1>1, <1>3, HolatL DEF Mumkin, Qatorlari
  <2>2. OchiqTogri'
    <3>. SUFFICES ASSUME NEW c \in Coinlar, Mumkin(c)', NEW i \in Qatorlari(c)',
                         qator'[i].manba = "zanjir", qator'[i].holat = "ochiq"
                  PROVE  FALSE
      BY DEF OchiqTogri
    <3>1. i \in Id /\ i \in Qatorlari(c) /\ Mumkin(c)  BY <2>1 DEF Qatorlari
    <3>. QED  BY <3>1, <2>1 DEF BittaInv, OchiqTogri
  <2>3. ZanjirBitta'  BY <2>1 DEF BittaInv, ZanjirBitta, Zanjirniki
  <2>. QED  BY <2>2, <2>3
<1>4. ASSUME NEW c \in Coinlar, NEW z \in Zonalar, NEW m \in {"manual", "zanjir"}, Yarat(c, z, m),
             \A d \in Coinlar : Mumkin(d)' => Mumkin(d),
             m = "zanjir" => Mumkin(c) /\ ~Mumkin(c)'
      PROVE  OchiqTogri' /\ ZanjirBitta'
  <2>1. PICK n \in Id :
            /\ ~Yaratilgan(n)
            /\ \A j \in Id : Yaratilgan(j) => j < n
            /\ \A j \in Id : j # n => qator'[j] = qator[j]
            /\ qator'[n] = [holat |-> "ochiq", coin |-> c, zona |-> z, manba |-> m]
    BY <1>1, <1>4, YaratL
  <2>2. OchiqTogri'
    <3>. SUFFICES ASSUME NEW d \in Coinlar, Mumkin(d)', NEW i \in Qatorlari(d)',
                         qator'[i].manba = "zanjir", qator'[i].holat = "ochiq"
                  PROVE  FALSE
      BY DEF OchiqTogri
    <3>1. i # n  BY <2>1, <1>4 DEF Qatorlari
    <3>2. i \in Id /\ i \in Qatorlari(d) /\ qator'[i] = qator[i]
      BY <2>1, <3>1 DEF Qatorlari, Yaratilgan
    <3>. QED  BY <3>2, <1>4 DEF BittaInv, OchiqTogri
  <2>3. ASSUME NEW i \in Id, NEW j \in Id, i < j, Zanjirniki(i)', Zanjirniki(j)',
               qator'[i].coin = qator'[j].coin, qator'[i].holat = "ochiq"
        PROVE  FALSE
    <3>1. i # n
      <4>. SUFFICES ASSUME i = n PROVE FALSE  OBVIOUS
      <4>1. j # n /\ Yaratilgan(j)  BY <2>1, <2>3 DEF Id, Zanjirniki, Yaratilgan
      <4>2. j < n  BY <4>1, <2>1
      <4>. QED  BY <4>2, <2>3 DEF Id
    <3>2. qator'[i] = qator[i] /\ Zanjirniki(i)  BY <2>1, <2>3, <3>1 DEF Zanjirniki, Yaratilgan
    <3>3. CASE j = n
      <4>1. m = "zanjir" /\ qator[i].coin = c  BY <2>1, <2>3, <3>2, <3>3 DEF Zanjirniki
      <4>2. i \in Qatorlari(c)  BY <4>1, <3>2 DEF Qatorlari, Zanjirniki
      <4>. QED  BY <4>1, <4>2, <3>2, <2>3, <1>4 DEF BittaInv, OchiqTogri, Zanjirniki
    <3>4. CASE j # n
      <4>1. qator'[j] = qator[j] /\ Zanjirniki(j)  BY <2>1, <3>4, <2>3 DEF Zanjirniki, Yaratilgan
      <4>. QED  BY <4>1, <3>2, <2>3 DEF BittaInv, ZanjirBitta
    <3>. QED  BY <3>3, <3>4
  <2>4. ZanjirBitta'  BY <2>3 DEF ZanjirBitta
  <2>. QED  BY <2>2, <2>4
<1>5. CASE QoldaYaratiladi
  <2>1. PICK c \in Coinlar, z \in Zonalar : Yarat(c, z, "manual")  BY <1>5 DEF QoldaYaratiladi
  <2>2. \A d : Mumkin(d)' = Mumkin(d)  BY <1>5 DEF QoldaYaratiladi, suratlar, Mumkin
  <2>. QED  BY <2>1, <2>2, <1>4
<1>6. CASE SignalBerish
  <2>1. /\ joy = "ai" /\ Yarat(joriy.coin, joriy.zona, "zanjir") /\ joy' = "coin"
        /\ UNCHANGED <<ochiq, navbat>>
    BY <1>6 DEF SignalBerish, AiJavob, suratlar
  <2>2. joriy.coin \in Coinlar /\ joriy.coin \notin navbat /\ joriy.coin \notin ochiq /\ joriy.zona \in Zonalar
    BY <1>1, <2>1 DEF SiklInv, ZanjirTypeOK, JoriyTogri
  <2>3. PICK c \in Coinlar, z \in Zonalar : c = joriy.coin /\ z = joriy.zona  BY <2>2
  <2>4. Mumkin(c)  BY <2>1, <2>2, <2>3 DEF Mumkin
  <2>5. ~Mumkin(c)' /\ \A d \in Coinlar : Mumkin(d)' => Mumkin(d)  BY <2>1, <2>2, <2>3 DEF Mumkin
  <2>6. Yarat(c, z, "zanjir")  BY <2>1, <2>3
  <2>. QED  BY <2>4, <2>5, <2>6, <1>4
<1>7. CASE Boshlash
  <2>1. qator' = qator  BY <1>7 DEF Boshlash
  <2>2. ZanjirBitta'  BY <2>1 DEF BittaInv, ZanjirBitta, Zanjirniki, Yaratilgan
  <2>. QED  BY <1>1, <1>7, <2>2, BoshlashL
<1>8. CASE BtcYuklandi \/ (\E c \in Coinlar : Otkaz(c) \/ Xato(c) \/ Rad(c) \/ AiSora(c))
           \/ AiRad \/ HolatlarniYoz \/ YurUzilish
  BY <1>1, <1>2, <1>8, YurishL
<1>9. CASE UNCHANGED zvars
  <2>1. qator' = qator /\ \A c \in Coinlar : Mumkin(c)' => Mumkin(c)  BY <1>9 DEF zvars, Mumkin
  <2>. QED  BY <2>1, <1>2
<1>. QED  BY <1>3, <1>5, <1>6, <1>7, <1>8, <1>9 DEF ZanjirNext, Yurish

(* While a signal of the cycle stays open, the cycle makes no other in its  *)
(* coin, whoever writes the table during the run.                           *)
THEOREM BittaTeoremasi == ZanjirSpec => []ZanjirBitta
<1>1. ZanjirInit => BittaInv  BY BoshlanishL DEF BittaInv
<1>2. BittaInv /\ [ZanjirNext]_zvars => BittaInv'  BY BittaQadamL
<1>3. BittaInv => ZanjirBitta  BY DEF BittaInv
<1>. QED  BY <1>1, <1>2, <1>3, PTL DEF ZanjirSpec

-----------------------------------------------------------------------------
(* What a run reports and shows.  A coin is without a result exactly while  *)
(* the run has not come to it or is asking the AI about it ...              *)
NatijaTogri ==
    joy # "bosh" => \A c \in Coinlar :
        natija[c] = "yoq" <=> (c \in navbat \/ (joy = "ai" /\ c = joriy.coin))

(* ... the rows of the table's past are those up to boshi, and "signal" is  *)
(* the result of the coins with a row of the cycle after them.              *)
Yangilari(c) == {i \in Qatorlari(c) : i > boshi /\ Zanjirniki(i)}
HisobotInv ==
    joy # "bosh" =>
        /\ \A i \in Id : i <= boshi => Yaratilgan(i)
        /\ \A c \in Coinlar : natija[c] = "signal" <=> Yangilari(c) # {}

ButunInv == SiklInv /\ NatijaTogri /\ HisobotInv /\ EkranButun

(* Ids are given out in order: the rows that are there are the first ones.  *)
LEMMA SanoqL ==
  ASSUME SiklInv
  PROVE  \A i \in Id : Yaratilgan(i) <=> i <= Cardinality({k \in Id : Yaratilgan(k)})
<1>. DEFINE S == {k \in Id : Yaratilgan(k)}
<1>0. IsFiniteSet(Id) /\ S \subseteq Id  BY FS_Interval, ZanjirFarazi DEF Id
<1>1. IsFiniteSet(S) /\ Cardinality(S) \in Nat  BY <1>0, FS_Subset, FS_CardinalityType
<1>2. ASSUME NEW i \in Id, Yaratilgan(i) PROVE i <= Cardinality(S)
  <2>1. i \in Nat /\ i >= 1  BY DEF Id
  <2>2. 1..i \subseteq S
    <3>. SUFFICES ASSUME NEW j \in 1..i PROVE j \in S  OBVIOUS
    <3>1. j \in Id /\ (j = i \/ j < i)  BY <2>1, ZanjirFarazi DEF Id
    <3>. QED  BY <3>1, <1>2 DEF SiklInv, IdTartibi
  <2>3. Cardinality(1..i) = i  BY <2>1, FS_Interval
  <2>. QED  BY <1>1, <2>2, <2>3, FS_Subset
<1>3. ASSUME NEW i \in Id, ~Yaratilgan(i) PROVE ~(i <= Cardinality(S))
  <2>1. i \in Nat /\ i >= 1  BY DEF Id
  <2>2. S \subseteq 1..(i - 1)
    <3>. SUFFICES ASSUME NEW j \in S, ~(j < i) PROVE FALSE  BY <2>1 DEF Id
    <3>1. j \in Id /\ Yaratilgan(j) /\ (j = i \/ i < j)  BY DEF Id
    <3>. QED  BY <3>1, <1>3 DEF SiklInv, IdTartibi
  <2>3. IsFiniteSet(1..(i - 1)) /\ Cardinality(1..(i - 1)) = i - 1  BY <2>1, FS_Interval
  <2>4. Cardinality(S) <= i - 1  BY <2>2, <2>3, FS_Subset
  <2>. QED  BY <1>1, <2>1, <2>4
<1>. QED  BY <1>2, <1>3

LEMMA ButunBoshL == ZanjirInit => ButunInv
  BY BoshlanishL DEF ButunInv, ZanjirInit, NatijaTogri, HisobotInv, EkranButun

(* A step that moves no coin from the run and makes no row of the cycle.    *)
LEMMA ButunBoshqaL ==
  ASSUME ButunInv, QoldaYaratiladi \/ Yopiladi \/ QaytaOchish \/ QatorOchir
  PROVE  NatijaTogri' /\ HisobotInv' /\ EkranButun'
<1>. USE DEF ButunInv
<1>1. UNCHANGED <<joy, ochiq, oxirgi, boshi, navbat, joriy, natija, ekran>>
  BY DEF QoldaYaratiladi, Yopiladi, QaytaOchish, QatorOchir, suratlar
<1>2. NatijaTogri' /\ EkranButun'  BY <1>1 DEF NatijaTogri, EkranButun
<1>3. /\ \A i \in Id : Yaratilgan(i) => Yaratilgan(i)'
      /\ \A c \in Coinlar : Yangilari(c)' = Yangilari(c)
  <2>1. CASE Yopiladi \/ QaytaOchish \/ QatorOchir
    BY <1>1, <2>1, HolatL DEF Yangilari, Qatorlari, Zanjirniki
  <2>2. CASE QoldaYaratiladi
    <3>1. PICK d \in Coinlar, z \in Zonalar : Yarat(d, z, "manual")  BY <2>2 DEF QoldaYaratiladi
    <3>2. PICK n \in Id :
              /\ ~Yaratilgan(n)
              /\ \A j \in Id : j # n => qator'[j] = qator[j]
              /\ qator'[n] = [holat |-> "ochiq", coin |-> d, zona |-> z, manba |-> "manual"]
      BY <3>1, YaratL
    <3>3. ~Zanjirniki(n) /\ ~Zanjirniki(n)'  BY <3>2 DEF Zanjirniki
    <3>. QED  BY <1>1, <3>2, <3>3 DEF Yangilari, Qatorlari, Zanjirniki, Yaratilgan
  <2>. QED  BY <2>1, <2>2
<1>4. HisobotInv'  BY <1>1, <1>3 DEF HisobotInv
<1>. QED  BY <1>2, <1>4

LEMMA ButunBoshlashL ==
  ASSUME ButunInv, Boshlash
  PROVE  NatijaTogri' /\ HisobotInv' /\ EkranButun'
<1>. USE DEF ButunInv
<1>1. /\ joy' = "btc" /\ navbat' = Coinlar /\ natija' = BoshNatija
      /\ boshi' = Cardinality({i \in Id : Yaratilgan(i)})
      /\ UNCHANGED <<qator, joriy, ekran>>
  BY DEF Boshlash
<1>2. NatijaTogri' /\ EkranButun'  BY <1>1 DEF NatijaTogri, EkranButun, BoshNatija
<1>3. \A i \in Id : Yaratilgan(i) <=> i <= boshi'  BY <1>1, SanoqL
<1>4. boshi' \in Nat  BY BoshlashL DEF SiklInv, ZanjirTypeOK
<1>5. \A c \in Coinlar : Yangilari(c)' = {}
  <2>1. \A i \in Id : i \in Nat  BY ZanjirFarazi DEF Id
  <2>2. \A i \in Id : Yaratilgan(i)' => ~(i > boshi')
    <3>1. \A i \in Id : Yaratilgan(i)' <=> Yaratilgan(i)  BY <1>1 DEF Yaratilgan
    <3>. QED  BY <1>3, <1>4, <2>1, <3>1
  <2>3. \A c : \A i \in Yangilari(c)' : i \in Id /\ Yaratilgan(i)' /\ i > boshi'
    BY DEF Yangilari, Qatorlari
  <2>. QED  BY <2>2, <2>3
<1>. QED  BY <1>1, <1>2, <1>3, <1>5 DEF HisobotInv, BoshNatija, Yaratilgan

(* One coin gets a result that is no signal. *)
LEMMA ButunCoinL ==
  ASSUME ButunInv, NEW c \in Coinlar, NEW n \in Natijalar \ {"signal"},
         natija[c] = "yoq", joy # "bosh", joy' = "coin",
         natija' = [natija EXCEPT ![c] = n],
         \A d \in Coinlar : d \in navbat' <=> (natija[d] = "yoq" /\ d # c),
         UNCHANGED <<qator, boshi, ekran>>
  PROVE  NatijaTogri' /\ HisobotInv' /\ EkranButun'
<1>. USE DEF ButunInv
<1>1. natija \in [Coinlar -> Natijalar \cup {"yoq"}]  BY DEF SiklInv, ZanjirTypeOK
<1>2. /\ natija'[c] = n /\ n # "yoq" /\ n # "signal"
      /\ \A d \in Coinlar : d # c => natija'[d] = natija[d]
  BY <1>1 DEF Natijalar
<1>3. NatijaTogri' /\ EkranButun'  BY <1>2 DEF NatijaTogri, EkranButun
<1>4. \A d \in Coinlar : Yangilari(d)' = Yangilari(d)
  BY DEF Yangilari, Qatorlari, Zanjirniki, Yaratilgan
<1>. QED  BY <1>2, <1>3, <1>4 DEF HisobotInv, Yaratilgan

LEMMA ButunYurishL ==
  ASSUME ButunInv, BtcYuklandi \/ (\E c \in Coinlar : Otkaz(c) \/ Xato(c) \/ Rad(c) \/ AiSora(c))
                   \/ AiRad \/ HolatlarniYoz \/ YurUzilish
  PROVE  NatijaTogri' /\ HisobotInv' /\ EkranButun'
<1>. USE DEF ButunInv
<1>1. CASE Tugash /\ ekran' \in {{}, Coinlar}
  BY <1>1 DEF Tugash, NatijaTogri, HisobotInv, EkranButun
<1>2. CASE BtcYuklandi
  <2>1. CASE Tugash  BY <1>1, <1>2, <2>1 DEF BtcYuklandi, EkranButun
  <2>2. CASE joy' = "coin" /\ UNCHANGED <<suratlar, navbat, joriy, natija>>
    BY <1>2, <2>2 DEF BtcYuklandi, suratlar, NatijaTogri, HisobotInv, EkranButun, Yangilari,
       Qatorlari, Zanjirniki, Yaratilgan
  <2>. QED  BY <1>2, <2>1, <2>2 DEF BtcYuklandi
<1>3. ASSUME NEW c \in Coinlar, Otkaz(c) \/ Xato(c) \/ Rad(c)
      PROVE  NatijaTogri' /\ HisobotInv' /\ EkranButun'
  <2>1. PICK n \in Natijalar \ {"signal"} : natija' = [natija EXCEPT ![c] = n]
    BY <1>3 DEF Otkaz, Xato, Rad, Natijalar
  <2>2. /\ joy = "coin" /\ joy' = "coin" /\ c \in navbat /\ navbat' = navbat \ {c}
        /\ UNCHANGED <<qator, boshi, ekran>>
    BY <1>3 DEF Otkaz, Xato, Rad, suratlar
  <2>3. natija[c] = "yoq"  BY <2>2 DEF NatijaTogri
  <2>4. \A d \in Coinlar : d \in navbat' <=> (natija[d] = "yoq" /\ d # c)  BY <2>2 DEF NatijaTogri
  <2>. QED  BY <2>1, <2>2, <2>3, <2>4, ButunCoinL
<1>4. ASSUME NEW c \in Coinlar, AiSora(c)
      PROVE  NatijaTogri' /\ HisobotInv' /\ EkranButun'
  <2>1. /\ joy = "coin" /\ joy' = "ai" /\ c \in navbat /\ navbat' = navbat \ {c}
        /\ joriy'.coin = c /\ UNCHANGED <<qator, boshi, natija, ekran>>
    BY <1>4 DEF AiSora, suratlar
  <2>2. NatijaTogri' /\ EkranButun'  BY <2>1 DEF NatijaTogri, EkranButun
  <2>. QED  BY <2>1, <2>2 DEF HisobotInv, Yangilari, Qatorlari, Zanjirniki, Yaratilgan
<1>5. CASE AiRad
  <2>1. PICK n \in Natijalar \ {"signal"} : AiJavob(n)  BY <1>5 DEF AiRad, Natijalar
  <2>2. /\ joy = "ai" /\ joy' = "coin" /\ joriy.coin \in Coinlar
        /\ natija' = [natija EXCEPT ![joriy.coin] = n]
        /\ UNCHANGED <<qator, boshi, navbat, ekran>>
    BY <2>1, <1>5 DEF AiJavob, AiRad, suratlar, SiklInv, ZanjirTypeOK
  <2>3. PICK c \in Coinlar : c = joriy.coin  BY <2>2
  <2>4. natija[c] = "yoq" /\ c \notin navbat  BY <2>2, <2>3 DEF NatijaTogri, SiklInv, ZanjirTypeOK
  <2>5. \A d \in Coinlar : d \in navbat' <=> (natija[d] = "yoq" /\ d # c)
    BY <2>2, <2>3, <2>4 DEF NatijaTogri
  <2>. QED  BY <2>2, <2>3, <2>4, <2>5, ButunCoinL
<1>6. CASE HolatlarniYoz
  <2>1. \A c \in Coinlar : natija[c] # "yoq"  BY <1>6 DEF HolatlarniYoz, NatijaTogri
  <2>2. {c \in Coinlar : natija[c] # "yoq"} = Coinlar  BY <2>1
  <2>3. ekran' \in {{}, Coinlar}  BY <1>6, <2>2 DEF HolatlarniYoz, EkranButun
  <2>. QED  BY <1>1, <1>6, <2>3 DEF HolatlarniYoz
<1>7. CASE YurUzilish  BY <1>1, <1>7 DEF YurUzilish, EkranButun
<1>. QED  BY <1>2, <1>3, <1>4, <1>5, <1>6, <1>7

LEMMA ButunSignalL ==
  ASSUME ButunInv, SignalBerish
  PROVE  NatijaTogri' /\ HisobotInv' /\ EkranButun'
<1>. USE DEF ButunInv
<1>1. /\ joy = "ai" /\ Yarat(joriy.coin, joriy.zona, "zanjir") /\ joy' = "coin"
      /\ natija' = [natija EXCEPT ![joriy.coin] = "signal"]
      /\ UNCHANGED <<boshi, navbat, ekran>>
  BY DEF SignalBerish, AiJavob, suratlar
<1>2. PICK c \in Coinlar, z \in Zonalar : c = joriy.coin /\ z = joriy.zona
  BY <1>1 DEF SiklInv, ZanjirTypeOK, JoriyTogri
<1>3. c \notin navbat  BY <1>1, <1>2 DEF SiklInv, ZanjirTypeOK
<1>4. PICK n \in Id :
          /\ ~Yaratilgan(n)
          /\ \A j \in Id : j # n => qator'[j] = qator[j]
          /\ qator'[n] = [holat |-> "ochiq", coin |-> c, zona |-> z, manba |-> "zanjir"]
  BY <1>1, <1>2, YaratL
<1>5. natija \in [Coinlar -> Natijalar \cup {"yoq"}] /\ boshi \in Nat  BY DEF SiklInv, ZanjirTypeOK
<1>6. natija'[c] = "signal" /\ \A d \in Coinlar : d # c => natija'[d] = natija[d]  BY <1>1, <1>2, <1>5
<1>7. NatijaTogri' /\ EkranButun'
  BY <1>1, <1>2, <1>3, <1>6 DEF NatijaTogri, EkranButun
<1>8. \A i \in Id : Yaratilgan(i) => Yaratilgan(i)'  BY <1>4 DEF Yaratilgan
<1>9. n > boshi
  <2>1. ~(n <= boshi)  BY <1>1, <1>4 DEF HisobotInv
  <2>. QED  BY <2>1, <1>5 DEF Id
<1>10. n \in Yangilari(c)'  BY <1>1, <1>4, <1>9 DEF Yangilari, Qatorlari, Zanjirniki, Yaratilgan
<1>11. \A d \in Coinlar : d # c => Yangilari(d)' = Yangilari(d)
  BY <1>1, <1>4 DEF Yangilari, Qatorlari, Zanjirniki, Yaratilgan
<1>. QED  BY <1>1, <1>6, <1>7, <1>8, <1>10, <1>11 DEF HisobotInv

LEMMA ButunQadamL == ButunInv /\ [ZanjirNext]_zvars => ButunInv'
<1>. SUFFICES ASSUME ButunInv, [ZanjirNext]_zvars PROVE NatijaTogri' /\ HisobotInv' /\ EkranButun'
  BY QadamL DEF ButunInv
<1>1. CASE QoldaYaratiladi \/ Yopiladi \/ QaytaOchish \/ QatorOchir  BY <1>1, ButunBoshqaL
<1>2. CASE Boshlash  BY <1>2, ButunBoshlashL
<1>3. CASE SignalBerish  BY <1>3, ButunSignalL
<1>4. CASE BtcYuklandi \/ (\E c \in Coinlar : Otkaz(c) \/ Xato(c) \/ Rad(c) \/ AiSora(c))
           \/ AiRad \/ HolatlarniYoz \/ YurUzilish
  BY <1>4, ButunYurishL
<1>5. CASE UNCHANGED zvars
  BY <1>5 DEF zvars, ButunInv, NatijaTogri, HisobotInv, EkranButun, Yangilari, Qatorlari, Zanjirniki,
     Yaratilgan
<1>. QED  BY <1>1, <1>2, <1>3, <1>4, <1>5 DEF ZanjirNext, Yurish

(* A finished run reports the signals it has put into the table, no more    *)
(* and no fewer, whoever writes the table meanwhile; and the screen has     *)
(* every coin or none.                                                      *)
THEOREM YurishTeoremasi == ZanjirSpec => []YurishButun
<1>1. ZanjirInit => ButunInv  BY ButunBoshL
<1>2. ButunInv /\ [ZanjirNext]_zvars => ButunInv'  BY ButunQadamL
<1>3. ButunInv => YurishButun
  BY DEF ButunInv, HisobotInv, EkranButun, YurishButun, HisobotTogri, Yangilari
<1>. QED  BY <1>1, <1>2, <1>3, PTL DEF ZanjirSpec

=============================================================================
