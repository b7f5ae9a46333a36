------------------------------- MODULE MCService -------------------------------
(* What the running service does besides the ledger's commands: the projection of        *)
(* MonthlyProjection with all its writers at once, the queries of BookQueries, the tools *)
(* of McpTools, and ProtectedContent.                                                    *)
(*                                                                                       *)
(* The four share no state and are checked in one run: each moves from its own initial   *)
(* state while the others rest in theirs, so that the states explored are the sum, never *)
(* the product, of the four.  Their model values are the same ones, so that one set of   *)
(* permutations, under which each of them is symmetric, serves all.                      *)
EXTENDS MCMonthlyProjection, MCBookQueries, MCMcpTools, MCProtectedContent

ServiceInit == Init /\ BookInit /\ ToolsInit /\ PrivacyInit

ServiceNext ==
    \/ BookInit /\ ToolsInit /\ PrivacyInit /\ UNCHANGED <<bookVars, toolVars, privacyVars>>
         /\ Next
    \/ Init /\ ToolsInit /\ PrivacyInit /\ UNCHANGED <<vars, toolVars, privacyVars>>
         /\ BookNext
    \/ Init /\ BookInit /\ PrivacyInit /\ UNCHANGED <<vars, bookVars, privacyVars>>
         /\ ToolsNext
    \/ Init /\ BookInit /\ ToolsInit /\ UNCHANGED <<vars, bookVars, toolVars>>
         /\ PrivacyNext

ServiceSpec == ServiceInit /\ [][ServiceNext]_<<vars, bookVars, toolVars, privacyVars>>

ServiceSymmetry == ProcessSymmetry \cup BookSymmetry \cup ToolSymmetry \cup WriterSymmetry
================================================================================
