------------------------------- MODULE MCSaytBot -------------------------------
(* Rows the site and the bot both write: positions, the posts about signals,    *)
(* lesson videos, payments; the bot's forms; how the database that holds the    *)
(* rows gets its tables; and the container they all run in, with the rows its   *)
(* start writes.  They share no row but the signals, so each has a scene of its *)
(* own.                                                                         *)
EXTENDS Postlar, Darslar, MCObunaTolov, SxemaYoli, Formalar, MCKonteyner

VARIABLES sahna, doira  \* doira: the forms a person is in during one behaviour

\* The dialogs by their forms; two of them meet in a behaviour.
Dialoglar ==
    {SignalFlow, {"rad_sababi"}, {"narx_summa", "narx_rekvizit"}, {"coin_nomi", "coin_sabab"},
     {"buzar_id", "buzar_sabab"}, {"elon"}, {"dars_nomi", "dars_fayli"}, {"chek"}, {"kirim"},
     {"balans"}}

MCInit ==
    /\ PInit /\ PostInit /\ DInit /\ Init /\ SXInit /\ FInit /\ KInit
    /\ sahna \in {"pozitsiya", "postlar", "darslar", "tolov", "sxema", "forma", "konteyner"}
    /\ sahna # "sxema" => versiya = 0
    /\ doira \in IF sahna = "forma" THEN {a \cup b : a \in Dialoglar, b \in Dialoglar} ELSE {{}}
    /\ sahna # "forma" => ~admin
    /\ sahna # "konteyner" => Odatdagi

\* The posts do not tell prices apart, and two signals written show an id given
\* again.
PostChegarasi ==
    /\ yozilgan <= 2
    /\ \A id \in Idlar : Bor(id) => signallar[id].narx = Min(Narxlar)

DoiraIchida ==
    /\ forma \in doira \cup {"yoq"}
    /\ \A v \in vazifalar : v.holat \in doira \cup {"start", "panel"}

MCNext ==
    /\ UNCHANGED <<sahna, doira>>
    /\ CASE sahna = "pozitsiya" -> PNext /\ UNCHANGED <<postlar, dvars, vars, sxvars, fvars, kvars>>
         [] sahna = "postlar"   -> PostNext /\ PostChegarasi' /\ UNCHANGED <<dvars, vars, sxvars, fvars, kvars>>
         [] sahna = "darslar"   -> DNext /\ UNCHANGED <<pvars, postlar, vars, sxvars, fvars, kvars>>
         [] sahna = "tolov"     -> Next /\ UNCHANGED <<pvars, postlar, dvars, sxvars, fvars, kvars>>
         [] sahna = "sxema"     -> SXNext /\ UNCHANGED <<pvars, postlar, dvars, vars, fvars, kvars>>
         [] sahna = "forma"     -> FNext /\ DoiraIchida' /\ UNCHANGED <<pvars, postlar, dvars, vars, sxvars, kvars>>
         [] OTHER               -> MCKNext /\ UNCHANGED <<pvars, postlar, dvars, vars, sxvars, fvars>>

MCSpec == MCInit /\ [][MCNext]_<<pvars, postlar, dvars, vars, sxvars, fvars, kvars, sahna, doira>>
=============================================================================
