--------------------------- MODULE QueryCommands ---------------------------
(***************************************************************************)
(* The commands of `akt query`, as sequences of steps (see TxCommands).    *)
(*                                                                         *)
(*   queryPre  QueryPersistentPreRunE: a light client is discovered        *)
(*   local, noHeight, direct, directNoHeight, fileOutput                   *)
(*             the pre-runs of query_boundary.go                           *)
(*   vendored  the one of the trees adopted from IBC                       *)
(*   owner     the default account is resolved if an owner was left out    *)
(*   query     chain state is read at the selected height                  *)
(*   now       the node's own height, or its transaction index, is read:   *)
(*             no height can be selected ("now?" when it is needed)        *)
(*             "nowOrQuery": either, as the proposal's state demands       *)
(*   latest?   the node's height is read when neither an argument nor      *)
(*             --height gives one                                          *)
(*   header    a block is read by a height the command itself determined   *)
(*   check     arguments, paging, scope, or the shape of a response        *)
(***************************************************************************)
EXTENDS Sequences

Params == <<"queryPre", "query", "check", "print">>
Scoped == <<"queryPre", "check", "query", "check", "print">>
Unchecked == <<"queryPre", "check", "query", "print">>

-----------------------------------------------------------------------------
(* x/auth.  A failed account lookup asks the node whether it is syncing,   *)
(* for the message only.                                                   *)
GetQueryAuthParamsCmd == Params
GetQueryAuthAccountCmd == Scoped
GetQueryAuthAccountAddressByIDCmd == Scoped
GetQueryAuthAccountsCmd == Scoped
GetQueryAuthModuleAccountsCmd == Params
GetQueryAuthModuleAccountByNameCmd == Scoped
GetQueryAuthTxsByEventsCmd == <<"noHeight", "check", "now", "print">>
GetQueryAuthTxCmd == <<"noHeight", "check", "now", "check", "print">>

(* x/authz, x/feegrant, x/bank, x/mint, x/params, x/evidence, x/slashing *)
GetQueryAuthzGrantsCmd == Scoped
GetQueryAuthzGranterGrantsCmd == Scoped
GetQueryAuthzGranteeGrantsCmd == Scoped
GetQueryFeeGrantCmd == Scoped
GetQueryFeeGrantsByGranteeCmd == Scoped
GetQueryFeeGrantsByGranterCmd == Scoped
GetQueryBankBalancesCmd == Unchecked
GetQueryBankSpendableBalancesCmd == Unchecked
GetQueryBankDenomsMetadataCmd == Unchecked
GetQueryBankTotalSupplyCmd == Unchecked
GetQueryBankSendEnabledCmd == Unchecked
GetQueryMintParamsCmd == Params
GetQueryMintInflationCmd == Params
GetQueryMintAnnualProvisionsCmd == Params
GetQueryParamsSubspaceCmd == Params
GetQueryEvidenceCmd == Scoped
GetQuerySlashingSigningInfoCmd == Scoped
GetQuerySlashingSigningInfosCmd == Scoped
GetQuerySlashingParamsCmd == Params

(* x/distribution *)
GetQueryDistributionParamsCmd == Params
GetQueryDistributionValidatorDistributionInfoCmd == Scoped
GetQueryDistributionValidatorOutstandingRewardsCmd == Scoped
GetQueryDistributionValidatorCommissionCmd == Scoped
GetQueryDistributionValidatorSlashesCmd == Scoped
GetQueryDistributionDelegatorRewardsCmd == Scoped
GetQueryDistributionCommunityPoolCmd == Params

(* x/staking *)
GetQueryStakingValidatorCmd == Scoped
GetQueryStakingValidatorsCmd == Scoped
GetQueryStakingValidatorUnbondingDelegationsCmd == Scoped
GetQueryStakingValidatorRedelegationsCmd == Scoped
GetQueryStakingDelegationCmd == Scoped
GetQueryStakingDelegationsCmd == Scoped
GetQueryStakingValidatorDelegationsCmd == Scoped
GetQueryStakingUnbondingDelegationCmd == Scoped
GetQueryStakingUnbondingDelegationsCmd == Scoped
GetQueryStakingRedelegationCmd == Scoped
GetQueryStakingRedelegationsCmd == Scoped
GetQueryStakingHistoricalInfoCmd == Scoped
GetQueryStakingPoolCmd == Params
GetQueryStakingParamsCmd == Params

-----------------------------------------------------------------------------
(* x/gov.  Votes that are no longer in the state are looked up in the      *)
(* transaction index.                                                      *)
GetQueryGovProposalCmd == Unchecked
GetQueryGovProposalsCmd == Scoped
GetQueryGovVoteCmd == <<"queryPre", "check", "query", "query", "now?", "print">>
GetQueryGovVotesCmd == <<"queryPre", "check", "query", "nowOrQuery", "print">>
GetQueryGovDepositCmd == <<"queryPre", "check", "query", "query", "print">>
GetQueryGovDepositsCmd == <<"queryPre", "check", "query", "query", "print">>
GetQueryGovTallyCmd == <<"queryPre", "check", "query", "query", "print">>
GetQueryGovQueryParamsCmd == Unchecked
GetQueryGovParamCmd == Unchecked
GetQueryGovProposerCmd == <<"noHeight", "check", "now", "print">>

(* x/upgrade: the header is the one of the height the plan was applied at. *)
GetQueryUpgradeCurrentPlanCmd == <<"queryPre", "query", "check", "print">>
GetQueryUpgradeAppliedPlanCmd == <<"queryPre", "query", "check", "header", "check", "print">>
GetQueryUpgradeModuleVersionsCmd == <<"queryPre", "query", "check", "print">>

(* Blocks, and the answer to a height given positionally or by flag. *)
QueryBlocksCmd == <<"directNoHeight", "check", "now", "check", "print">>
QueryBlockCmd == <<"direct", "latest?", "header", "check", "print">>
QueryBlockResultsCmd == <<"direct", "latest?", "header", "check", "print">>

(* x/wasm.  The code is written to a file.  Contracts by label are found   *)
(* by listing every code and every contract of each.                       *)
GetQueryWasmBuildAddressCmd == <<"local", "check", "print">>
GetQueryWasmListCodeCmd == Scoped
GetQueryWasmListContractByCodeCmd == Scoped
GetQueryWasmCodeCmd == <<"fileOutput", "queryPre", "check", "query", "check", "write">>
GetQueryWasmCodeInfoCmd == Scoped
GetQueryWasmContractInfoCmd == Scoped
GetQueryWasmContractStateAllCmd == Scoped
GetQueryWasmContractStateRawCmd == Scoped
GetQueryWasmContractStateSmartCmd == Scoped
GetQueryWasmContractHistoryCmd == Scoped
GetQueryWasmListPinnedCodeCmd == Scoped
GetQueryWasmListContractsByCreatorCmd == Scoped
GetQueryWasmParamsCmd == Params
queryContract == <<"queryPre", "query", "check", "query?", "check", "print">>
GetQueryModuleNameToAddressCmd == <<"local", "check", "print">>

-----------------------------------------------------------------------------
(* Deployments and the market.  The owner of a numeric shorthand, and of a *)
(* list, is the default account; a list without any scope is refused; a    *)
(* complete identifier is one query, whose state must be the one asked for.*)
GetQueryDeploymentCmds == <<"queryPre", "check", "owner", "check", "query", "check", "print">>
GetQueryDeploymentGroupCmd == <<"queryPre", "owner", "check", "query", "print">>
GetQueryDeploymentParamsCmd == <<"queryPre", "query", "print">>
GetQueryMarketOrderCmd == <<"queryPre", "check", "owner", "check", "query", "check", "print">>
GetQueryMarketBidCmd == <<"queryPre", "check", "owner", "check", "query", "check", "print">>
GetQueryMarketLeaseCmd == <<"queryPre", "check", "owner", "check", "query", "check", "print">>
GetQueryMarketParamsCmd == <<"queryPre", "query", "print">>
GetQueryCertCertificatesCmd == <<"queryPre", "check", "owner", "check", "query", "print">>

(* Escrow: what remains is computed from the state and the node's height.  *)
GetQueryEscrowAccountsCmd == Unchecked
GetQueryEscrowPaymentsCmd == Unchecked
GetQueryEscrowBlocksRemainingCmd ==
    <<"queryPre", "owner", "check", "query", "query", "query", "check", "now", "query", "print">>

(* Provider, audit, oracle, burn-mint engine, events *)
GetQueryProviderCmds == Unchecked
GetAuditProvidersCmd == Unchecked
GetAuditProviderCmd == Unchecked
GetOraclePricesCmd == Scoped
GetOracleAggregatedPriceCmd == Scoped
GetQueryOracleParamsCmd == Params
GetBMEParamsCmd == Params
GetBMEVaultStateCmd == Params
GetBMEStatusCmd == Params
GetBMELedgerRecordsCmd == Scoped

(* The IBC queries akt replaces: the page is clamped and normalised, and   *)
(* the response must be there.  They keep the preflight of the vendored    *)
(* tree, which discovers no light client.  The escrow address is computed. *)
queryIBCClientParams == <<"vendored", "query", "check", "print">>
queryIBCClientStates == <<"vendored", "check", "query", "check", "print">>
queryIBCConnectionParams == <<"vendored", "query", "check", "print">>
queryIBCConsensusStateHeights == <<"vendored", "check", "query", "check", "print">>
queryIBCConsensusStates == <<"vendored", "check", "query", "check", "print">>
queryIBCConnectionChannels == <<"vendored", "check", "query", "check", "print">>
queryIBCTransferEscrowAddress == <<"local", "print">>

QueryPlans ==
    {GetQueryAuthParamsCmd, GetQueryAuthAccountCmd, GetQueryAuthAccountAddressByIDCmd,
     GetQueryAuthAccountsCmd, GetQueryAuthModuleAccountsCmd,
     GetQueryAuthModuleAccountByNameCmd, GetQueryAuthTxsByEventsCmd, GetQueryAuthTxCmd,
     GetQueryAuthzGrantsCmd, GetQueryAuthzGranterGrantsCmd,
     GetQueryAuthzGranteeGrantsCmd, GetQueryFeeGrantCmd, GetQueryFeeGrantsByGranteeCmd,
     GetQueryFeeGrantsByGranterCmd, GetQueryBankBalancesCmd,
     GetQueryBankSpendableBalancesCmd, GetQueryBankDenomsMetadataCmd,
     GetQueryBankTotalSupplyCmd, GetQueryBankSendEnabledCmd, GetQueryMintParamsCmd,
     GetQueryMintInflationCmd, GetQueryMintAnnualProvisionsCmd,
     GetQueryParamsSubspaceCmd, GetQueryEvidenceCmd, GetQuerySlashingSigningInfoCmd,
     GetQuerySlashingSigningInfosCmd, GetQuerySlashingParamsCmd,
     GetQueryDistributionParamsCmd, GetQueryDistributionValidatorDistributionInfoCmd,
     GetQueryDistributionValidatorOutstandingRewardsCmd,
     GetQueryDistributionValidatorCommissionCmd,
     GetQueryDistributionValidatorSlashesCmd, GetQueryDistributionDelegatorRewardsCmd,
     GetQueryDistributionCommunityPoolCmd, GetQueryStakingValidatorCmd,
     GetQueryStakingValidatorsCmd, GetQueryStakingValidatorUnbondingDelegationsCmd,
     GetQueryStakingValidatorRedelegationsCmd, GetQueryStakingDelegationCmd,
     GetQueryStakingDelegationsCmd, GetQueryStakingValidatorDelegationsCmd,
     GetQueryStakingUnbondingDelegationCmd, GetQueryStakingUnbondingDelegationsCmd,
     GetQueryStakingRedelegationCmd, GetQueryStakingRedelegationsCmd,
     GetQueryStakingHistoricalInfoCmd, GetQueryStakingPoolCmd,
     GetQueryStakingParamsCmd, GetQueryGovProposalCmd, GetQueryGovProposalsCmd,
     GetQueryGovVoteCmd, GetQueryGovVotesCmd, GetQueryGovDepositCmd,
     GetQueryGovDepositsCmd, GetQueryGovTallyCmd, GetQueryGovQueryParamsCmd,
     GetQueryGovParamCmd, GetQueryGovProposerCmd, GetQueryUpgradeCurrentPlanCmd,
     GetQueryUpgradeAppliedPlanCmd, GetQueryUpgradeModuleVersionsCmd, QueryBlocksCmd,
     QueryBlockCmd, QueryBlockResultsCmd, GetQueryWasmBuildAddressCmd,
     GetQueryWasmListCodeCmd, GetQueryWasmListContractByCodeCmd, GetQueryWasmCodeCmd,
     GetQueryWasmCodeInfoCmd, GetQueryWasmContractInfoCmd,
     GetQueryWasmContractStateAllCmd, GetQueryWasmContractStateRawCmd,
     GetQueryWasmContractStateSmartCmd, GetQueryWasmContractHistoryCmd,
     GetQueryWasmListPinnedCodeCmd, GetQueryWasmListContractsByCreatorCmd,
     GetQueryWasmParamsCmd, queryContract, GetQueryModuleNameToAddressCmd,
     GetQueryDeploymentCmds, GetQueryDeploymentGroupCmd, GetQueryDeploymentParamsCmd,
     GetQueryMarketOrderCmd, GetQueryMarketBidCmd, GetQueryMarketLeaseCmd,
     GetQueryMarketParamsCmd, GetQueryCertCertificatesCmd, GetQueryEscrowAccountsCmd,
     GetQueryEscrowPaymentsCmd, GetQueryEscrowBlocksRemainingCmd, GetQueryProviderCmds,
     GetAuditProvidersCmd, GetAuditProviderCmd, GetOraclePricesCmd,
     GetOracleAggregatedPriceCmd, GetQueryOracleParamsCmd, GetBMEParamsCmd,
     GetBMEVaultStateCmd, GetBMEStatusCmd, GetBMELedgerRecordsCmd,
     queryIBCClientParams, queryIBCClientStates, queryIBCConnectionParams,
     queryIBCConsensusStateHeights, queryIBCConsensusStates,
     queryIBCConnectionChannels, queryIBCTransferEscrowAddress}
=============================================================================
