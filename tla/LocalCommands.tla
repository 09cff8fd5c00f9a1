--------------------------- MODULE LocalCommands ---------------------------
(***************************************************************************)
(* The commands that work on the user's own machine, and the workflows, as *)
(* sequences of steps (see TxCommands and ConsoleCommands).                *)
(*                                                                         *)
(*   keyring   the keyring is opened                                       *)
(*   keychange a key is added, removed, renamed or exported, and the       *)
(*             outcome recorded whatever it is                             *)
(*   configure the configuration file is changed by the Manager            *)
(*   secret    the stored Console credential is changed ("secret?")        *)
(*   note      a best-effort entry in the affected context's action log    *)
(*   open      the deployment store of the context is opened               *)
(*   store     the store is read or written in one transaction             *)
(*   faucet?   with --send the network's faucet is asked, and the outcome  *)
(*             recorded; "owner?": the address is best effort              *)
(*   railPre   the hook of a workflow: a chain rail runs the transaction   *)
(*             preflight, and under --dry-run at most the query one        *)
(*   workflow  the workflow runs on the rail of its context                *)
(*   context   a context is named or active                                *)
(*   readLog   the action log of a context is opened and read              *)
(*   reconcile transactions it lists as pending are looked up, best effort *)
(*   confirm   the user is asked, and may decline                          *)
(*   keep      its outcome goes to the store; a failure is a warning       *)
(***************************************************************************)
EXTENDS Sequences

(* akt context *)
createCmd == <<"check", "configure", "secret?", "note", "configure?", "print">>
useCmd == <<"configure", "note">>
listCmd == <<"print">>
currentCmd == <<"context", "print">>
editCmd == <<"check", "prompt?", "check", "configure", "secret?", "note">>
deleteCmd == <<"confirm", "configure", "note">>
renameCmd == <<"configure", "note">>
logCmd == <<"context", "readLog", "check", "readLog", "reconcile", "print">>

(* akt context network *)
networkCreateCmd == <<"check", "configure">>
networkEditCmd == <<"configure">>
networkDeleteCmd == <<"configure">>
networkListCmd == <<"print">>
networkShowCmd == <<"check", "print">>

(* akt context keyring, akt context keys *)
keyringCreateCmd == <<"configure", "note", "print">>
keyringListCmd == <<"print">>
keyringSetCmd == <<"check", "configure", "note", "print">>
keysAddCmd == <<"check", "keyring", "key", "file?", "prompt?", "keychange", "print">>
keysDeleteCmd == <<"keyring", "key", "confirm", "keychange">>
keysListCmd == <<"keyring", "key", "print">>
keysShowCmd == <<"check", "keyring", "key", "check", "print">>
keysExportCmd == <<"keyring", "prompt", "check", "keychange", "print">>
keysImportCmd == <<"keyring", "file", "prompt", "keychange", "print">>
keysRenameCmd == <<"keyring", "keychange", "print">>
mnemonicCmd == <<"print">>
parseCmd == <<"check", "print">>

(* akt store: an import replaces only after it was confirmed, an export    *)
(* replaces its destination with a file that is complete.                  *)
storeStatusCmd == <<"open", "store", "print">>
exportCmd == <<"open", "store", "print">>
exportFileAtomically == <<"open", "write", "store", "write">>
importCmd == <<"check", "file", "confirm", "open", "store", "print">>
importDryRun == <<"check", "file", "check", "print">>
syncCmd == <<"queryPre", "check", "open", "owner", "query", "store", "print">>

(* akt sdl *)
scaffoldsCmd == <<"print">>
initCmd == <<"check", "print">>
validateCmd == <<"file", "check", "print">>

(* akt faucet; the workflows *)
faucetCmd == <<"context", "check", "owner?", "check", "faucet?", "print">>
commandFromDef == <<"railPre", "check", "file?", "check", "print", "workflow", "keep", "print">>

ContextPlans ==
    {createCmd, useCmd, listCmd, currentCmd, editCmd, deleteCmd, renameCmd, logCmd,
     networkCreateCmd, networkEditCmd, networkDeleteCmd, networkListCmd, networkShowCmd,
     keyringCreateCmd, keyringListCmd, keyringSetCmd, keysAddCmd, keysDeleteCmd,
     keysListCmd, keysShowCmd, keysExportCmd, keysImportCmd, keysRenameCmd,
     mnemonicCmd, parseCmd}
StorePlans == {storeStatusCmd, exportCmd, exportFileAtomically, importCmd, importDryRun}
SDLPlans == {scaffoldsCmd, initCmd, validateCmd}
=============================================================================
