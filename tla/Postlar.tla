-------------------------------- MODULE Postlar --------------------------------
(******************************************************************************)
(* Posts the site writes by itself when the home page opens: one per event of *)
(* a broadcast signal, found in the database and not where the event happens. *)
(* The admin may delete a post, or the signal it is about.                    *)
(******************************************************************************)
EXTENDS Pozitsiya

CONSTANTS
    SIGNAL_OYNASI_KUN,      \* days an event stays news
    BIR_MARTALIK_CHEGARA,   \* posts of one kind per opening of the page
    MaxKun                  \* the last day of the run

ASSUME PostFarazi == {SIGNAL_OYNASI_KUN, BIR_MARTALIK_CHEGARA, MaxKun} \subseteq Nat

VARIABLE postlar            \* homepage_posts: source -> signal -> ages of the news when posted

HODISALAR == {"signal", "tp1", "tp2"}

PostInit == postlar = [h \in HODISALAR |-> [id \in Idlar |-> <<>>]]

(* The day an event of a kind happened to a row, Yoq when it did not: the     *)
(* broadcast, or the day in signal_events (TP2 only while it is the status).  *)
HodisaKuni(h, q) ==
    CASE h = "signal" -> q.tarqatildi
      [] h = "tp1"    -> q.tp1
      [] h = "tp2"    -> IF q.holat = "tp2_hit" THEN q.tp2 ELSE Yoq

PostiBor(h, id) == postlar[h][id] # <<>>

\* Mutant: the window is forgotten.
OynasizNomzodlar(h) ==
    {id \in Idlar : /\ Bor(id) /\ signallar[id].tarqatildi # Yoq
                    /\ ~PostiBor(h, id) /\ HodisaKuni(h, signallar[id]) # Yoq}

(* Broadcast signals with a fresh event of the kind and no post of it. *)
Nomzodlar(h) ==
    {id \in Idlar : /\ Bor(id) /\ signallar[id].tarqatildi # Yoq
                    /\ ~PostiBor(h, id)
                    /\ HodisaKuni(h, signallar[id]) # Yoq
                    /\ HodisaKuni(h, signallar[id]) + SIGNAL_OYNASI_KUN >= kun}

(* The lowest ids first, at most the limit: the posts of one kind afterwards. *)
hodisaPostlari(h) ==
    LET tanlangan == {id \in Nomzodlar(h) :
            Cardinality({x \in Nomzodlar(h) : x < id}) < BIR_MARTALIK_CHEGARA}
    IN  [id \in Idlar |->
            IF id \in tanlangan
            THEN Append(postlar[h][id], kun - HodisaKuni(h, signallar[id]))
            ELSE postlar[h][id]]

(* One kind after the other; none reads another's posts. *)
signalPostlari == /\ postlar' = [h \in HODISALAR |-> hodisaPostlari(h)]
                  /\ UNCHANGED pvars

boshPostOchirish(h, id) ==
    /\ PostiBor(h, id)
    /\ postlar' = [postlar EXCEPT ![h][id] = Tail(@)]
    /\ UNCHANGED pvars

YangiKun == /\ kun < MaxKun /\ kun' = kun + 1
            /\ UNCHANGED <<signallar, pozitsiyalar, formalar, saqlash, yozilgan, qaytgan, postlar>>

PostNext ==
    \/ (SignalQadami \/ \E id \in Idlar : Tarqatiladi(id)) /\ UNCHANGED postlar
    \/ signalPostlari
    \/ \E h \in HODISALAR, id \in Idlar : boshPostOchirish(h, id)
    \/ YangiKun

PostSpec ==
    /\ PInit /\ PostInit
    /\ [][(PNext /\ UNCHANGED postlar) \/ PostNext]_<<pvars, postlar>>

(******************************************************************************)
(* Properties.                                                                *)
(******************************************************************************)
\* One source, one post, however often the page is opened and whatever was
\* deleted in between.
BirManbaBirPost == \A h \in HODISALAR, id \in Idlar : Len(postlar[h][id]) <= 1

\* Subscribers hear first: a signal the home page names was broadcast, and an
\* old event is never told as news.
PostOynada ==
    \A h \in HODISALAR, id \in Idlar : \A i \in DOMAIN postlar[h][id] :
        /\ postlar[h][id][i] \in 0..SIGNAL_OYNASI_KUN
        /\ Bor(id) /\ id \notin qaytgan => signallar[id].tarqatildi # Yoq

\* One post per news, and only of news that the subscribers had.
PostButun == BirManbaBirPost /\ PostOynada

=============================================================================
