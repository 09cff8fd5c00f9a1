-------------------------- MODULE ConsoleCommands --------------------------
(***************************************************************************)
(* The commands of `akt console`, as sequences of steps (see TxCommands).  *)
(*                                                                         *)
(*   console   clientFromCmd with a key: refused when no flag, stored      *)
(*             credential or environment variable supplies one             *)
(*   public    clientFromCmd without a key                                 *)
(*   context   the named context must exist                                *)
(*   ask       one request that changes nothing ("ask?" when it is needed) *)
(*   change    one operation of the Console client that changes the        *)
(*             account; the client writes its outcome to the action log    *)
(*   mint      a token is issued: nothing the log records                  *)
(*   gateway   a request to the provider's gateway with such a token       *)
(*   alter     such a request that changes something; its outcome is       *)
(*             written to the action log whatever it is                    *)
(*   confirm   the user may decline, which ends the command successfully   *)
(*   converge  the local store follows a close; a failure is a warning     *)
(***************************************************************************)
EXTENDS Sequences

Asked == <<"console", "ask", "print">>
Checked == <<"console", "check", "ask", "print">>
Public == <<"public", "ask", "print">>

-----------------------------------------------------------------------------
(* Credentials.  A key is probed before it is stored for the context. *)
loginCmd == <<"context", "prompt", "check", "ask", "write", "print">>
logoutCmd == <<"context", "write", "print">>
whoamiCmd == Asked

apikeyListCmd == Asked
apikeyCreateCmd == <<"console", "check", "change", "print">>
apikeyDeleteCmd == <<"console", "change", "print">>
jwtCmds == <<"console", "check", "mint", "print">>

(* Deployments, bids and leases *)
deploymentListCmd == Checked
deploymentGetCmd == Asked
deploymentCreateCmdWithTerminal ==
    <<"console", "confirm", "file", "file?", "change", "print">>
deploymentUpdateCmd == <<"console", "file", "file?", "change", "print">>
deploymentSDLCmd == Asked
deploymentCloseCmd == <<"console", "change", "converge", "print">>
deploymentSettingsReadCmd == <<"console", "ask", "ask", "print">>
deploymentSettingsSetCmd == <<"console", "check", "change", "print">>
bidCmds == <<"console", "ask", "ask?", "print">>
leaseCmds == <<"console", "check", "file?", "change", "print">>

(* A deployment's gateway: the deployment, its active lease, the provider  *)
(* and a token; then the gateway is asked.                                 *)
gatewayForDeployment == <<"ask", "check", "ask", "check", "mint">>
logsCmd == <<"console", "check">> \o gatewayForDeployment \o <<"gateway", "gateway", "print">>
eventsCmd == <<"console">> \o gatewayForDeployment \o <<"gateway", "gateway", "print">>
statusCmd == <<"console">> \o gatewayForDeployment \o <<"gateway", "print">>
shellCmdWithRunner ==
    <<"check", "terminal", "console", "file?">> \o gatewayForDeployment \o <<"alter">>

(* The public catalogue *)
screenCmd == <<"public", "check", "file?", "check", "ask", "print">>
providerCmds == Public
gpuCmd == Public
templateCmds == Public

(* The managed wallet *)
walletAddressCmd == <<"console", "ask", "ask", "print">>
walletListCmd == <<"console", "ask", "ask", "print">>
walletBalanceCmd == Asked
walletSettingsReadCmd == Asked
walletSettingsSetCmd == <<"console", "check", "change", "print">>
costCmd == Asked
usageCmd == <<"console", "ask", "ask", "check", "ask", "print">>

ConsolePublicPlans == {loginCmd, logoutCmd, screenCmd, providerCmds, gpuCmd, templateCmds}

ConsolePlans ==
    {whoamiCmd, apikeyListCmd, apikeyCreateCmd, apikeyDeleteCmd, jwtCmds,
     deploymentListCmd, deploymentGetCmd, deploymentCreateCmdWithTerminal,
     deploymentUpdateCmd, deploymentSDLCmd, deploymentCloseCmd,
     deploymentSettingsReadCmd, deploymentSettingsSetCmd, bidCmds, leaseCmds,
     logsCmd, eventsCmd, statusCmd, shellCmdWithRunner,
     walletAddressCmd, walletListCmd, walletBalanceCmd, walletSettingsReadCmd,
     walletSettingsSetCmd, costCmd, usageCmd}
=============================================================================
