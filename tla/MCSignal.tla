------------------------------- MODULE MCSignal -------------------------------
(* The rows of `signals`: the cycle that writes them and the watcher that moves *)
(* one of them afterwards, and the screens: the card that shows them, the watch *)
(* panel with its faults, the search beside a panel at rest.  The cycle asks    *)
(* only whether a row is open, the watcher takes one row at a time, the card    *)
(* sees what it writes, and of the panel the search reads the Top list: each    *)
(* has a scene of its own.  A subscriber and an admin meet only in the rows,    *)
(* which the watcher moves in both of their scenes.                             *)
EXTENDS ZanjirSikl, SignalKuzatuvchi, Kartochka, Qidiruv, TLC

CONSTANTS yoq, lite, pro

VARIABLE sahna

zkvars == <<vars, zvars, kvars, pvars, qvars, sahna>>

MCInit ==
    /\ ZanjirInit /\ Init /\ KInit /\ InitQ
    /\ sahna \in {"sikl", "kuzatuv", "kartochka", "admin", "panel", "qidiruv"}
    /\ sahna # "qidiruv" => tarif = yoq

\* The cycle never stops and a list can always be asked for; a row that is over
\* may rest, and the panel may.
MCNext ==
    /\ UNCHANGED sahna
    /\ \/ sahna = "sikl" /\ ZanjirNext /\ UNCHANGED <<vars, kvars, pvars, qvars>>
       \/ sahna = "kuzatuv" /\ Next /\ UNCHANGED <<zvars, kvars, pvars, qvars>>
       \/ /\ sahna \in {"kartochka", "admin"} /\ KNext /\ UNCHANGED <<vars, zvars, pvars, qvars>>
          /\ sahna = "kartochka" => UNCHANGED kadmin
          /\ sahna = "admin" => UNCHANGED <<kekran, ksorov>>
       \/ sahna = "panel" /\ PNext /\ UNCHANGED <<vars, zvars, kvars, qvars>>
       \/ /\ sahna = "qidiruv" /\ QNext /\ UNCHANGED <<vars, zvars, kvars>>
          /\ nosozlik' = 0 /\ sorov' = FALSE
       \/ sahna \in {"kuzatuv", "panel", "qidiruv"} /\ UNCHANGED zkvars

MCSpec == MCInit /\ [][MCNext]_zkvars

\* Two ids; one signal with two targets, one whose levels are in no order.
MCIdlar == 1..2
MCTerilgan == {[entry |-> 10, stop |-> 8, tp |-> <<12, 14>>],
               [entry |-> 10, stop |-> 11, tp |-> <<12>>]}

MCTariflar == {yoq, lite, pro}
MCChegara == [t \in MCTariflar |-> CASE t = yoq -> 0 [] t = lite -> 1 [] OTHER -> 2]

\* Coins are interchangeable, and so are zones.
Simmetriya == Permutations(Coinlar) \cup Permutations(Zonalar)
=============================================================================
