----------------------------- MODULE MCMcpTools -----------------------------
(* Two processes; each kind of call, some of them twice with other arguments. *)
EXTENDS McpTools, TLC

Bank == <<"account", "r1">>

MCToolCalls ==
    {CreateBook("r1", "home"),
     CreateAccount("r1", "bank"), CreateAccount("r1", "cash"),
     CreateCategory("r1", "food", Unset), CreateCategory("r2", "fruit", <<"category", "r1">>),
     CreateAsset("r1", "eur", "Euro"), CreateAsset("r2", "eur", "Other"),
     RenameAccountTo("r1", Bank, "cash"), RenameAccountTo("r1", Bank, "savings"),
     CreatePaymentCard("r1", Bank, "visa"),
     CloseAccountBy("r1", Bank), ReopenAccountBy("r1", Bank),
     RecordTransfer("r1", "ten"), ReverseTransaction("r1", <<"transfer", "r1">>)}

ToolSymmetry == Permutations(ToolRuns)
================================================================================
