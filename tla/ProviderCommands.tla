-------------------------- MODULE ProviderCommands --------------------------
(***************************************************************************)
(* The commands of `akt provider`, as sequences of steps (see TxCommands   *)
(* and ConsoleCommands).                                                   *)
(*                                                                         *)
(*   authenticate  the account and its key must be there                   *)
(*   route     the provider of the lease and its gateway are looked up on  *)
(*             the chain, each unless a flag gives it                      *)
(*   dial      the gateway's client is built: account, key, query context  *)
(*   gateway, alter   as for the Console                                   *)
(*   deliver   the manifest goes to every provider in turn; each attempt   *)
(*             is recorded, the failures are joined, a failure to write    *)
(*             the result ends the round                                   *)
(***************************************************************************)
EXTENDS Sequences

(* The scope, then the account's authentication, before any network call. *)
resolveAuthenticatedLease == <<"check", "authenticate", "route">>

statusCmd == <<"check", "route", "query", "gateway", "print">>
leaseStatusCmd == resolveAuthenticatedLease \o <<"dial", "gateway", "print">>
leaseAttestationCmd == resolveAuthenticatedLease \o <<"dial", "gateway", "check", "print">>
leaseLogsCmd ==
    <<"check">> \o resolveAuthenticatedLease \o <<"dial", "gateway", "gateway", "print">>
leaseEventsCmd == resolveAuthenticatedLease \o <<"dial", "gateway", "gateway", "print">>
leaseShellCmd == <<"check">> \o resolveAuthenticatedLease \o <<"dial", "check", "alter">>
sendManifestCmd ==
    <<"check", "authenticate", "file", "check", "route", "deliver">>
getManifestCmd == resolveAuthenticatedLease \o <<"dial", "gateway", "print">>
migrateHostnamesCmd == <<"check">> \o resolveAuthenticatedLease \o <<"dial", "alter", "print">>
migrateEndpointsCmd == <<"check">> \o resolveAuthenticatedLease \o <<"dial", "alter", "print">>

ProviderPlans ==
    {leaseStatusCmd, leaseAttestationCmd, leaseLogsCmd, leaseEventsCmd, leaseShellCmd,
     sendManifestCmd, getManifestCmd, migrateHostnamesCmd, migrateEndpointsCmd}
=============================================================================
