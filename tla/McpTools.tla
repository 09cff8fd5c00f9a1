------------------------------ MODULE McpTools ------------------------------
(***************************************************************************)
(* The tools of `akt mcp`, as sequences of steps (see TxCommands): serving *)
(* starts, and one tool is called.  An error is the result of the call and *)
(* leaves the server running.                                              *)
(*                                                                         *)
(*   connect      the server's clients: a chain client if the context has  *)
(*                an endpoint, a Console client if there is a key; neither *)
(*                is an error                                              *)
(*   chainTool, chainWrite, consoleTool, consoleWrite                      *)
(*                the tool is offered: its client exists and, for a write, *)
(*                writes were enabled (and a keyring is there)             *)
(*   address      the context's account is resolved if it was left out;    *)
(*                no account is an error where one is needed               *)
(***************************************************************************)
EXTENDS Sequences

Read == <<"connect", "chainTool", "check">>
Write == <<"connect", "chainWrite", "check">>
Managed == <<"connect", "consoleTool", "check">>

(* The chain: deployments, the market, certificates, accounts, the node *)
HandleListDeployments == Read \o <<"address", "query">>
HandleGetDeployment == Read \o <<"address", "query">>
HandleGetGroup == Read \o <<"address", "query">>
HandleListOrders == Read \o <<"address", "query">>
HandleGetOrder == Read \o <<"query">>
HandleListBids == Read \o <<"address", "query">>
HandleGetBid == Read \o <<"query">>
HandleListLeases == Read \o <<"address", "query">>
HandleGetLease == Read \o <<"query">>
HandleListAuditedProviders == Read \o <<"query">>
HandleAccountBalance == Read \o <<"address", "query">>
HandleListCertificates == Read \o <<"address", "query">>
HandleNodeStatus == Read \o <<"now">>
HandleBlockHeight == Read \o <<"now">>

(* Providers: the gateway is the one registered on the chain. *)
HandleListProviders == Read \o <<"query">>
HandleGetProvider == Read \o <<"query">>
HandleProviderStatus == Read \o <<"query", "gateway">>
HandleLeaseStatus == Read \o <<"query", "check", "key", "gateway">>
HandleServiceStatus == Read \o <<"query", "check", "key", "gateway">>

(* Chain writes *)
HandleCloseDeployment == Write \o <<"address", "tx">>
HandleCreateLease == Write \o <<"tx">>
HandleCloseLease == Write \o <<"tx">>
HandleSubmitManifest == Write \o <<"query", "key", "alter">>

(* The Console *)
ConsoleListDeployments == Managed \o <<"ask">>
ConsoleGetDeployment == Managed \o <<"ask">>
ConsoleListBids == Managed \o <<"ask", "ask?">>
ConsoleWalletBalance == Managed \o <<"ask">>
ConsoleUsageHistory == Managed \o <<"ask", "ask", "check", "ask">>
ConsoleListProviders == Managed \o <<"ask">>
ConsoleGetProvider == Managed \o <<"ask">>
ConsoleGPUPrices == Managed \o <<"ask">>
ConsoleCloseDeployment == <<"connect", "consoleWrite", "check", "change">>

McpPlans ==
    {HandleListDeployments, HandleGetDeployment, HandleGetGroup, HandleListOrders,
     HandleGetOrder, HandleListBids, HandleGetBid, HandleListLeases, HandleGetLease,
     HandleListAuditedProviders, HandleAccountBalance, HandleListCertificates,
     HandleNodeStatus, HandleBlockHeight, HandleListProviders, HandleGetProvider,
     HandleProviderStatus, HandleLeaseStatus, HandleServiceStatus,
     HandleCloseDeployment, HandleCreateLease, HandleCloseLease, HandleSubmitManifest,
     ConsoleListDeployments, ConsoleGetDeployment, ConsoleListBids,
     ConsoleWalletBalance, ConsoleUsageHistory, ConsoleListProviders,
     ConsoleGetProvider, ConsoleGPUPrices, ConsoleCloseDeployment}
=============================================================================
