------------------------------- MODULE MCHayot -------------------------------
(* What must happen in the end: a trade closes, a new signal reaches its       *)
(* subscribers, the watch panel comes right.  The senders ask only whether a   *)
(* row is open, the watcher never whether it was sent, and the panel knows no  *)
(* signal, so each has a scene of its own.                                     *)
EXTENDS SignalKuzatuvchi, Tarqatish, KuzatuvPaneli

VARIABLE sahna

hvars == <<vars, tvars, pvars, sahna>>

MCInit ==
    /\ Init /\ TarqInit /\ PInit
    /\ sahna \in {"kuzatuv", "tarqatish", "panel"}
    /\ sahna # "tarqatish" => obunachi = {} /\ ~rejaMos

Kuz(A) == sahna = "kuzatuv" /\ A /\ UNCHANGED <<tvars, pvars, sahna>>
Tarq(A) == sahna = "tarqatish" /\ A /\ UNCHANGED <<vars, pvars, sahna>>
Panel(A) == sahna = "panel" /\ A /\ UNCHANGED <<vars, tvars, sahna>>

\* Bound: where the call of EntryPlan is refused, one signal.
BirSignal == rejaMos \/ \A i \in Id : i > 1 => qatorlar'[i] = "yoq"

MCNext == Kuz(Next) \/ Tarq(TarqNext /\ BirSignal) \/ Panel(PNext)

\* FairSpec of the watcher, TarqAdolatliSpec and PFairSpec.  In a scene the steps
\* of the others are never enabled, so one condition can hold one of each.
MCSpec ==
    /\ MCInit /\ [][MCNext]_hvars
    /\ WF_hvars(Kuz(Oqish) \/ Tarq(IshchiQadami /\ UNCHANGED rejaMos) \/ Panel(Skaner("taymer")))
    /\ WF_hvars(Kuz(ShamQadami) \/ Panel(Skaner("sorov")))
    /\ WF_hvars(Panel(SorovOlinadi)) /\ WF_hvars(Panel(Jonli))
    /\ SF_hvars(Kuz(\E s \in Sham : YangiSham(s)) \/ Panel(SkanYozadi("taymer")))
    /\ SF_hvars(Kuz(Yuklash) \/ Panel(SkanYozadi("sorov")))
    /\ SF_hvars(Kuz(Yozish))
=============================================================================
