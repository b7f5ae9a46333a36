------------------------------- MODULE MCOffline -------------------------------
(* The three tools an operator runs beside the service: the import of the frozen         *)
(* history, the repair of misclassified expenses and the verification of a database.     *)
(*                                                                                       *)
(* They share no state and are checked in one run: each moves from an initial state of   *)
(* its own while the others rest, the import in one of its cases, so that the states     *)
(* explored are the sum, never the product, of the three.                                *)
EXTENDS MCFrozenImport, ExpenseRepair, LedgerVerification

OfflineInit == Init /\ RepairInit /\ LedgerInit

RestingCase == CHOOSE c \in Cases : ReviewAccepted(c.rows, c.review)

ImportRests ==
    /\ plan = Unplanned /\ log = <<>> /\ changes = 0 /\ ~creating
    /\ attempts = [r \in Runners |-> 0]
    /\ case = RestingCase
    /\ UNCHANGED vars

OfflineNext ==
    \/ RepairInit /\ LedgerInit /\ UNCHANGED <<repairVars, ledgerVars>> /\ Next
    \/ ImportRests /\ LedgerInit /\ UNCHANGED ledgerVars /\ RepairNext
    \/ ImportRests /\ RepairInit /\ UNCHANGED repairVars /\ LedgerNext

OfflineSpec == OfflineInit /\ [][OfflineNext]_<<vars, repairVars, ledgerVars>>
================================================================================
