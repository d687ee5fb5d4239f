------------------------------ MODULE RadarAmalga ------------------------------
(* The session seen from inside (RadarSessiya) does what the worker's model      *)
(* (RadarIshchi) lets a session do.                                              *)
EXTENDS RadarIshchi, RadarSessiya

\* The sessions the database would hold: A's of this candle, the last finished one
\* of the session's own kind, in the neighbouring slot or before it, and the
\* session itself with its rows.
KengSessiyalar ==
    LET n0 == [qator |-> "elak", nomzod |-> FALSE, holat |-> "yoq", ketma |-> 0, orinli |-> FALSE,
               baho |-> "yoq"]
        yoq == [n0 EXCEPT !.qator = "yoq"]
        tugagan(turi, sham, q) == [turi |-> turi, sham |-> sham, holat |-> TUGADI,
                                   boshlandi |-> Yoq, natija |-> q]
        a == tugagan(KASHFIYOT, 2 * ShamDavri,
                     [s \in Symbollar |-> [n0 EXCEPT !.nomzod = s \in baza.aNomzod]])
        q == tugagan(ses.turi, IF baza.qoshni THEN ShamDavri ELSE 0, [s \in Symbollar |->
                [n0 EXCEPT !.nomzod = s \in DOMAIN baza.ketma,
                           !.ketma = IF s \in DOMAIN baza.ketma THEN baza.ketma[s] ELSE 0,
                           !.orinli = s \in baza.orinli]])
        ozi == tugagan(ses.turi, 2 * ShamDavri, [s \in Symbollar |->
                IF s \notin DOMAIN qator THEN yoq
                ELSE [qator |-> qator[s].turi, nomzod |-> qator[s].nomzod, holat |-> qator[s].holat,
                      ketma |-> qator[s].ketma, baho |-> "yoq",
                      orinli |-> ses.turi = TASDIQ /\ qator[s].orin > 0]])
    IN IF ses.turi = TASDIQ /\ baza.aBor THEN <<a, q, ozi>> ELSE <<q, ozi>>

Keng == INSTANCE RadarIshchi WITH Coinlar <- Symbollar, sessiyalar <- KengSessiyalar

\* A session seen from inside is one that RadarIshchi allows: its pool, sample,
\* candidates and hidden coins are some Bozor, and its rows are the Natija of it.
SessiyaAmalga ==
    (Tugadi /\ ses.turi # QOLDA) =>
        LET r == Rejadagi(ses.turi, 2 * ShamDavri)
            b == [elak |-> ses.pool, namuna |-> ses.namuna,
                  nomzod |-> {s \in DOMAIN qator : qator[s].nomzod},
                  yashirin |-> ses.pool \cap baza.yashirin]
            eski == KengSessiyalar
        IN b \in Keng!Bozor(r) /\ eski[Len(eski)].natija = Keng!Natija(r, b)

\* What a session writes follows from what it was told: places, second looks and
\* counts are right, what a source did not say counts for nothing, and the result
\* is one the worker's model allows (sessiya.py, _hisobla).
SessiyaTogri == SessiyaRost /\ SessiyaAmalga
=============================================================================
