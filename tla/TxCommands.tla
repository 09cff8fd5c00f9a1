----------------------------- MODULE TxCommands -----------------------------
(***************************************************************************)
(* The commands of `akt tx`.  A command is the sequence of the steps its   *)
(* hooks and its handler take, in program order, as Invocation interprets  *)
(* them; a step may fail, and the first that does ends the command.        *)
(* Adjacent local checks are one step.                                     *)
(*                                                                         *)
(*   check    arguments, flags or a message are validated                  *)
(*   file     a file named by the user is read ("file?" if one is named)   *)
(*   key      a key of the keyring is looked up                            *)
(*   terminal, prompt  a terminal is required; the user answers            *)
(*   online   refused under --offline                                      *)
(*   query, account    the chain is read (account: not under --offline);   *)
(*            "query?" is skipped when a flag supplies the value           *)
(*   sign     a key signs                                                  *)
(*   tx, txs  one broadcast, or several in order, through akt's client     *)
(*   rawtx    a broadcast through the SDK's own function                   *)
(*   write    a local file is written ("write?" if one is named)           *)
(*   genesis  under --to-genesis the file is changed and the command ends  *)
(*   print    the result is rendered                                       *)
(*                                                                         *)
(* The first steps are the hooks of the leaf: pre is TxPersistentPreRunE,  *)
(* and from, forceOffline and toGenesis set a flag before it.  sdkContext  *)
(* is the SDK's own reading of the flags, without akt's preflight.         *)
(***************************************************************************)
EXTENDS Sequences

(* The shape most leaves have: checks, one message, one broadcast. *)
Simple == <<"pre", "check", "tx", "print">>

-----------------------------------------------------------------------------
(* x/bank: the first of three arguments of send is the signer. *)
GetTxBankSendTxCmd == <<"from", "pre", "check", "tx", "print">>
GetTxBankMultiSendTxCmd == <<"from", "pre", "check", "tx", "print">>

(* x/staking *)
GetTxStakingCreateValidatorCmd == <<"pre", "file", "check", "tx", "print">>
GetTxStakingEditValidatorCmd == Simple
GetTxStakingDelegateCmd == Simple
GetTxStakingRedelegateCmd == Simple
GetTxStakingUnbondCmd == Simple
GetTxStakingCancelUnbondingDelegationCmd == Simple

(* x/slashing *)
GetTxSlashingUnjailCmd == <<"pre", "tx", "print">>

(* x/distribution: rewards are withdrawn in chunks of --max-msgs. *)
GetTxDistributionWithdrawRewardsCmd == Simple
GetTxDistributionWithdrawAllRewardsCmd ==
    <<"pre", "online", "query", "check", "txs", "print">>
GetTxDistributionSetWithdrawAddrCmd == Simple
GetTxDistributionFundCommunityPoolCmd == Simple
GetTxDistributionDepositValidatorRewardsPoolCmd == Simple

(* x/authz: a staking limit is checked against the bond denomination. *)
GetTxAuthzGrantAuthorizationCmd == <<"pre", "check", "query?", "check", "tx", "print">>
GetTxAuthzGrantContractAuthorizationCmd == Simple
GetTxAuthzGrantStoreCodeAuthorizationCmd == Simple
GetTxAuthzRevokeAuthorizationCmd == Simple
GetTxAuthzExecAuthorizationCmd == <<"pre", "online", "file", "check", "tx", "print">>

(* x/feegrant *)
GetTxFeegrantGrantCmd == Simple
GetTxFeegrantRevokeCmd == Simple

(* x/auth/vesting *)
GetTxVestingCreateAccountCmd == Simple
GetTxVestingCreatePermanentLockedAccountCmd == Simple
GetTxVestingCreatePeriodicAccountCmd == <<"pre", "check", "file", "check", "tx", "print">>

(* Akash's oracle and burn-mint engine *)
GetTxOracleFeedPriceCmd == Simple
GetTxBMEBurnMintCmd == Simple
GetTxBMEMintACTCmd == Simple
GetTxBMEBurnACTCmd == Simple

(* x/wasm: the administrator of a new contract may be a key name. *)
GetTxWasmStoreCodeCmd == <<"pre", "file", "check", "tx", "print">>
GetTxWasmInstantiateContractCmd == <<"pre", "key", "check", "tx", "print">>
GetTxWasmInstantiateContract2Cmd == <<"pre", "check", "key", "check", "tx", "print">>
GetTxWasmExecuteContractCmd == Simple
GetTxWasmMigrateContractCmd == Simple
GetTxWasmUpdateContractAdminCmd == Simple
GetTxWasmClearContractAdminCmd == Simple
GetTxWasmUpdateInstantiateConfigCmd == Simple
GetTxWasmSetContractLabelCmd == Simple

-----------------------------------------------------------------------------
(* x/gov *)
GetTxGovSubmitProposalCmd == <<"pre", "file", "check", "tx", "print">>
GetTxGovSubmitLegacyProposalCmd == <<"pre", "file", "check", "tx", "print">>
GetTxParamsSubmitParamChangeProposalCmd == <<"pre", "file", "check", "tx", "print">>
GetTxGovDepositCmd == Simple
GetTxGovVoteCmd == Simple
GetTxGovWeightedVoteCmd == Simple
GetTxGovCancelProposalCmd == Simple

(* It constructs no transaction and has no preflight. *)
GetTxGovDraftProposalCmd ==
    <<"terminal", "sdkContext", "prompt", "write", "write?", "print">>

(* The proposals of x/wasm and x/upgrade: the SDK's function builds, signs, *)
(* broadcasts and prints.                                                  *)
WasmProposal == <<"pre", "check", "rawtx">>
GetTxGovWasmProposalStoreCodeCmd == <<"pre", "check", "file", "check", "rawtx">>
GetTxGovWasmProposalInstantiateContractCmd == <<"pre", "check", "key", "check", "rawtx">>
GetTxGovWasmProposalInstantiateContract2Cmd == <<"pre", "check", "key", "check", "rawtx">>
GetTxGovWasmProposalStoreAndInstantiateContractCmd ==
    <<"pre", "check", "file", "key", "check", "rawtx">>
GetTxGovWasmProposalMigrateContractCmd == WasmProposal
GetTxGovWasmProposalExecuteContractCmd == WasmProposal
GetTxGovWasmProposalSudoContractCmd == WasmProposal
GetTxGovWasmProposalUpdateContractAdminCmd == WasmProposal
GetTxGovWasmProposalClearContractAdminCmd == WasmProposal
GetTxGovWasmProposalPinCodesCmd == WasmProposal
GetTxGovWasmProposalUnpinCodesCmd == WasmProposal
GetTxGovWasmProposalUpdateInstantiateConfigCmd == WasmProposal
GetTxGovWasmProposalAddCodeUploadParamsAddresses == WasmProposal
GetTxGovWasmProposalRemoveCodeUploadParamsAddresses == WasmProposal
GetTxGovWasmProposalStoreAndMigrateContractCmd ==
    <<"pre", "check", "file", "check", "rawtx">>
NewCmdSubmitUpgradeProposal == WasmProposal
NewCmdSubmitCancelUpgradeProposal == WasmProposal

-----------------------------------------------------------------------------
(* Deployments: a certificate must be on file and on chain; the dseq is    *)
(* the height of the node, and the deposit the chain's minimum, unless a   *)
(* flag gives them.  The update requires the groups the chain has.         *)
GetTxDeploymentCreateCmd ==
    <<"pre", "file", "file", "query", "check", "query?", "check", "query?", "check",
      "tx", "print">>
GetTxDeploymentUpdateCmd == <<"pre", "file", "check", "query", "check", "tx", "print">>
GetTxDeploymentCloseCmd == Simple
GetTxDeploymentGroupCloseCmd == Simple
GetDeploymentGroupPauseCmd == Simple
GetDeploymentGroupStartCmd == Simple

(* Market, escrow, provider and audit *)
GetTxMarketBidCreateCmd == <<"pre", "check", "query?", "check", "tx", "print">>
GetTxMarketBidCloseCmd == Simple
GetTxMarketLeaseCreateCmd == Simple
GetTxMarketLeaseWithdrawCmd == Simple
GetTxMarketLeaseCloseCmd == Simple
GetTxEscrowDeposit == Simple
GetTxProviderCreateCmd == <<"pre", "file", "check", "tx", "print">>
GetTxProviderUpdateCmd == <<"pre", "file", "check", "tx", "print">>
CmdCreateProviderAttributes == <<"pre", "check", "query?", "check", "tx", "print">>
CmdDeleteProviderAttributes == Simple

(* Certificates.  Generating one is offline; an existing key pair is kept  *)
(* unless --overwrite is given.  Publishing writes to a genesis file when  *)
(* --to-genesis is given; revoking takes the serial from a flag or from    *)
(* the local certificate and requires that the chain knows it.             *)
doCertGenerateCmd == <<"forceOffline", "pre", "check", "sdkContext", "check", "write">>
doPublishCmd == <<"toGenesis", "pre", "file", "check", "genesis", "tx", "print">>
doRevokeCmd == <<"pre", "file?", "check", "query", "check", "tx", "print">>

-----------------------------------------------------------------------------
(* Utilities for transactions in files.  sign, sign-batch and multisign    *)
(* have no preflight: they read the client context with the SDK's own      *)
(* function.                                                               *)
makeSignCmd == <<"sdkContext", "file", "check", "key", "account", "sign", "write?", "print">>
makeSignBatchCmd == <<"sdkContext", "write?", "file", "key", "account", "sign", "print">>
makeMultiSignCmd == <<"from", "sdkContext", "file", "key", "account", "check", "write?", "print">>
makeValidateSignaturesCmd == <<"pre", "file", "account", "check", "print">>
GetBroadcastCommand == <<"pre", "online", "file", "tx", "print">>
GetEncodeCommand == <<"file", "print">>
GetDecodeCommand == <<"check", "print">>

TxPlans ==
    {GetTxBankSendTxCmd, GetTxBankMultiSendTxCmd, GetTxStakingCreateValidatorCmd,
     GetTxStakingEditValidatorCmd, GetTxStakingDelegateCmd, GetTxStakingRedelegateCmd,
     GetTxStakingUnbondCmd, GetTxStakingCancelUnbondingDelegationCmd,
     GetTxSlashingUnjailCmd, GetTxDistributionWithdrawRewardsCmd,
     GetTxDistributionWithdrawAllRewardsCmd, GetTxDistributionSetWithdrawAddrCmd,
     GetTxDistributionFundCommunityPoolCmd,
     GetTxDistributionDepositValidatorRewardsPoolCmd, GetTxAuthzGrantAuthorizationCmd,
     GetTxAuthzGrantContractAuthorizationCmd, GetTxAuthzGrantStoreCodeAuthorizationCmd,
     GetTxAuthzRevokeAuthorizationCmd, GetTxAuthzExecAuthorizationCmd,
     GetTxFeegrantGrantCmd, GetTxFeegrantRevokeCmd, GetTxVestingCreateAccountCmd,
     GetTxVestingCreatePermanentLockedAccountCmd, GetTxVestingCreatePeriodicAccountCmd,
     GetTxOracleFeedPriceCmd, GetTxBMEBurnMintCmd, GetTxBMEMintACTCmd,
     GetTxBMEBurnACTCmd, GetTxWasmStoreCodeCmd, GetTxWasmInstantiateContractCmd,
     GetTxWasmInstantiateContract2Cmd, GetTxWasmExecuteContractCmd,
     GetTxWasmMigrateContractCmd, GetTxWasmUpdateContractAdminCmd,
     GetTxWasmClearContractAdminCmd, GetTxWasmUpdateInstantiateConfigCmd,
     GetTxWasmSetContractLabelCmd, GetTxGovSubmitProposalCmd,
     GetTxGovSubmitLegacyProposalCmd, GetTxParamsSubmitParamChangeProposalCmd,
     GetTxGovDepositCmd, GetTxGovVoteCmd, GetTxGovWeightedVoteCmd,
     GetTxGovCancelProposalCmd, GetTxGovDraftProposalCmd,
     GetTxGovWasmProposalStoreCodeCmd, GetTxGovWasmProposalInstantiateContractCmd,
     GetTxGovWasmProposalInstantiateContract2Cmd,
     GetTxGovWasmProposalStoreAndInstantiateContractCmd,
     GetTxGovWasmProposalMigrateContractCmd, GetTxGovWasmProposalExecuteContractCmd,
     GetTxGovWasmProposalSudoContractCmd, GetTxGovWasmProposalUpdateContractAdminCmd,
     GetTxGovWasmProposalClearContractAdminCmd, GetTxGovWasmProposalPinCodesCmd,
     GetTxGovWasmProposalUnpinCodesCmd, GetTxGovWasmProposalUpdateInstantiateConfigCmd,
     GetTxGovWasmProposalAddCodeUploadParamsAddresses,
     GetTxGovWasmProposalRemoveCodeUploadParamsAddresses,
     GetTxGovWasmProposalStoreAndMigrateContractCmd, NewCmdSubmitUpgradeProposal,
     NewCmdSubmitCancelUpgradeProposal, GetTxDeploymentCreateCmd,
     GetTxDeploymentUpdateCmd, GetTxDeploymentCloseCmd, GetTxDeploymentGroupCloseCmd,
     GetDeploymentGroupPauseCmd, GetDeploymentGroupStartCmd, GetTxMarketBidCreateCmd,
     GetTxMarketBidCloseCmd, GetTxMarketLeaseCreateCmd, GetTxMarketLeaseWithdrawCmd,
     GetTxMarketLeaseCloseCmd, GetTxEscrowDeposit, GetTxProviderCreateCmd,
     GetTxProviderUpdateCmd, CmdCreateProviderAttributes, CmdDeleteProviderAttributes,
     doCertGenerateCmd, doPublishCmd, doRevokeCmd, makeSignCmd, makeSignBatchCmd,
     makeMultiSignCmd, makeValidateSignaturesCmd, GetBroadcastCommand,
     GetEncodeCommand, GetDecodeCommand}
=============================================================================
