--------------------------------- MODULE Client ---------------------------------
(***************************************************************************)
(* Three parts of the client that do not meet, in one specification: every *)
(* behaviour is one of a single part, chosen at the start, so the number   *)
(* of states is the sum of the parts' and not their product.               *)
(***************************************************************************)
EXTENDS CommandHistory, ClientModules, Cookies

VARIABLE part

Parts == {"history", "modules", "cookies"}

vars == <<part, historyVars, moduleVars, cookieVars>>

\* The other parts stand still in a fixed state.
Init ==
    /\ part \in Parts
    /\ HistoryInit
    /\ ModulesInit
    /\ part # "modules" => order = <<>>
    /\ CookiesInit

Next ==
    \/ part = "history" /\ HistoryNext /\ UNCHANGED <<part, moduleVars, cookieVars>>
    \/ part = "modules" /\ ModulesNext /\ UNCHANGED <<part, historyVars, cookieVars>>
    \/ part = "cookies" /\ CookiesNext /\ UNCHANGED <<part, historyVars, moduleVars>>

Spec == Init /\ [][Next]_vars

\* The types of every part, in their inductive invariants.
TypeOK == HistoryInv /\ ModulesInv /\ CookiesInv
=============================================================================
