--------------------------- MODULE MCTerminalSession ---------------------------
(***************************************************************************)
(* TerminalSession for TLC.  All of it at once is too large, so an         *)
(* instance is in one of two settings: "together", where both subjects     *)
(* come and go, ask and decide while the owner stays, nobody types and no  *)
(* hook fails; and "alone", where the owner types, leaves and comes back,  *)
(* and the other does nothing.                                             *)
(***************************************************************************)
EXTENDS TerminalSession

VARIABLE setting

Ends == current # None /\ current' = None
Types == \E h \in Handler : task[h].pc = "idle" /\ task'[h].kind = "input"
OthersAct ==
    \/ \E s \in Socket : s[1] # Owner /\ (s \in connected <=> s \notin connected')
    \/ \E h \in Handler :
          task[h].pc = "idle" /\ task'[h].pc # "idle" /\ task'[h].socket[1] # Owner

SetInit == Init /\ setting \in {"together", "alone"}

SetNext ==
    /\ Next
    /\ setting = "together" => ~Ends /\ ~Types /\ ~failed'
    /\ setting = "alone" => ~OthersAct
    /\ UNCHANGED setting

SetVars == <<vars, setting>>

Spec1 == SetInit /\ [][SetNext]_SetVars

\* The settings leave out arrivals alone: every awaited answer still comes.
FairSetSpec == Spec1 /\ \A h \in Handler : WF_SetVars((Start(h) \/ Answer(h)) /\ UNCHANGED setting)
=================================================================================
