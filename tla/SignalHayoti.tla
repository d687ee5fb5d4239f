---------------------------- MODULE SignalHayoti ----------------------------
(***************************************************************************)
(* What a row of the `signals` table promises to everyone who reads it:    *)
(* the bot's list, the site, the statistics.  While it is open it only     *)
(* moves forward; the fact that TP1 was taken is never lost; what it       *)
(* closed at changes only with its status.  What the watcher closed is     *)
(* closed for good.  What the admin cancelled may still be moved, by the   *)
(* one run that had read the row before: once, and forward from what the   *)
(* run had read.  Nothing here says how the row comes to be written.       *)
(***************************************************************************)
VARIABLES
    status,     \* signals.status, "ochirilgan" once the row is deleted
    tp1,        \* signals.tp1_reached
    narx,       \* signals.close_price
    oqilgan     \* the status the run under way has read, "yoq" between runs

vars == <<status, tp1, narx, oqilgan>>

CONSTANTS Narxlar, NarxYoq

Ochiq == {"pending", "active", "tp1_hit"}
Yopiq == {"tp2_hit", "stopped", "cancelled", "timed_out"}

(* What the watcher can make of a row it has read as open. *)
Keyin(s) ==
    CASE s = "pending" -> {"active", "tp1_hit"} \cup Yopiq
      [] s = "active"  -> {"tp1_hit", "tp2_hit", "stopped", "timed_out"}
      [] s = "tp1_hit" -> {"tp2_hit", "stopped", "timed_out"}
      [] OTHER         -> {}

Init == status = "pending" /\ tp1 = FALSE /\ narx = NarxYoq /\ oqilgan = "yoq"

Oqildi ==
    /\ oqilgan = "yoq" /\ status \in Ochiq
    /\ oqilgan' = status
    /\ UNCHANGED <<status, tp1, narx>>

Tashlandi ==
    /\ oqilgan # "yoq"
    /\ oqilgan' = "yoq"
    /\ UNCHANGED <<status, tp1, narx>>

Yozildi ==
    /\ status # "ochirilgan"
    /\ status' \in Keyin(oqilgan)
    /\ tp1' = (tp1 \/ status' = "tp1_hit")
    /\ IF status' \in Yopiq THEN narx' \in Narxlar ELSE UNCHANGED narx
    /\ oqilgan' = "yoq"

(* The admin. *)
Bekor ==
    /\ status \in Ochiq
    /\ status' = "cancelled"
    /\ narx' \in Narxlar
    /\ UNCHANGED <<tp1, oqilgan>>

(* The site's delete button removes the row, with its history. *)
Ochirildi ==
    /\ status # "ochirilgan"
    /\ status' = "ochirilgan"
    /\ tp1' = FALSE
    /\ narx' = NarxYoq
    /\ UNCHANGED oqilgan

Next == Oqildi \/ Tashlandi \/ Yozildi \/ Bekor \/ Ochirildi

Spec == Init /\ [][Next]_vars
=============================================================================
