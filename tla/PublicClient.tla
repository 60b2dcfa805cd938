---------------------------- MODULE PublicClient ----------------------------
(***************************************************************************)
(* Which block each method of createPublicClient reads                     *)
(* (src/src/clients/createPublicClient.ts), and of the functions of        *)
(* src/src/surfaces/goClientParity.ts, which rename them.  Every method is *)
(* one request; what matters to a caller who reads more than once is which *)
(* state of the chain the answers describe.                                *)
(*                                                                         *)
(* A block is given as [tag |-> ...], as [number |-> n] for a number or a  *)
(* bigint, as [hash |-> h], or is Undefined.  A request carries a tag, a   *)
(* hash, a [quantity |-> n], or Undefined when it names no block.          *)
(***************************************************************************)
EXTENDS Integers

CONSTANTS
    Undefined,
    Thrown          \* the function throws; no request is made

Tag(name) == [tag |-> name]
IsNumber(block) == block # Undefined /\ DOMAIN block = {"number"}

\* normalizeBlockTag: a number becomes a hex quantity, which a negative one
\* cannot be; what is not a number goes as it is.
NormalizeBlockTag(block) ==
    IF ~IsNumber(block) THEN block
    ELSE IF block.number < 0 THEN Thrown ELSE [quantity |-> block.number]

(***************************************************************************)
(* The methods, by the block they read when the caller gives none: a tag,  *)
(* "given" when the caller must give one, "optional" when the request then *)
(* names none, "hash" when they read by a hash, and "none" when they take  *)
(* no block at all.                                                        *)
(***************************************************************************)
Methods(default, names) == names \X {default}

Accounts ==
    Methods("latest", {"getBalance", "getSponsorNonce", "getSigner",
                       "privGetBalance", "privGetNonce"})
    \cup Methods("pending", {"getTransactionCount"})
    \cup Methods("none", {"getChainId", "getBlockNumber"})

Privacy ==
    Methods("none", {"privTransfer", "privShield", "privUnshield",
        "privProveDisclosure", "privVerifyDisclosure",
        "privGenerateDecryptionToken", "privVerifyDecryptionToken",
        "privDecryptWithToken", "privDecryptWithAuditorKey"})

Blocks ==
    Methods("latest", {"getLease", "getBlockByNumber", "getHeaderByNumber",
                       "getCode", "getStorageAt"})
    \cup Methods("hash", {"getBlockByHash", "getHeaderByHash"})
    \cup Methods("none", {"getTransactionReceipt", "getTransactionByHash"})

Calls ==
    Methods("latest", {"call", "callWithOverrides", "callPackage",
                       "estimateGas", "feeHistory"})
    \cup Methods("hash", {"callAtHash"})
    \cup Methods("fixed", {"pendingCall"})
    \cup Methods("none", {"buildLeaseDeployTx", "buildLeaseRenewTx",
                        "buildLeaseCloseTx", "maxPriorityFeePerGas"})

Counts ==
    Methods("given", {"getBlockTransactionCountByNumber",
                      "getTransactionByBlockNumberAndIndex"})
    \cup Methods("hash", {"getBlockTransactionCountByHash",
                        "getTransactionByBlockHashAndIndex"})
    \cup Methods("fixed", {"getPendingTransactionCount"})
    \cup Methods("none", {"gasPrice", "syncing", "pendingTransactions"})
    \cup Methods("latest", {"getProof", "createAccessList"})

Consensus ==
    Methods("none", {"netVersion", "getNetworkId", "netPeerCount",
                     "netListening", "clientVersion"})
    \cup Methods("latest", {"getSnapshot", "getValidators", "getValidator",
                          "getEpochInfo"})

Agents ==
    Methods("none", {"agentDiscoveryInfo", "agentDiscoverySearch",
                     "agentDiscoveryGetCard", "agentDiscoveryDirectorySearch"})
    \cup Methods("optional", {"agentDiscoveryGetSuggestedCard"})

ChainState ==
    Methods("none", {"getChainProfile", "getFinalizedBlock",
                     "getRetentionPolicy", "getPruneWatermark"})
    \cup Methods("latest", {"getCodeObject", "getCodeObjectMeta", "getAccount",
                          "getMaliciousVoteEvidence",
                          "listMaliciousVoteEvidence"})

Pool == Methods("none", {"txpoolContent", "txpoolContentFrom",
                         "txpoolStatus", "txpoolInspect"})

\* Policy wallets, gateways, audit receipts and settlements.
Boundaries ==
    Methods("none", {"getPolicyWalletSpendCaps",
        "getPolicyWalletTerminalPolicy", "getPolicyWalletDelegateAuth",
        "getPolicyWalletRecoveryState", "isPolicyWalletSuspended",
        "getPolicyWalletOwner", "getPolicyWalletGuardian",
        "getGatewayConfig", "isGatewayActive", "getAuditMeta",
        "getSessionProof", "getSettlementCallback", "getAsyncFulfillment",
        "getRuntimeReceipt", "getSettlementEffect"})

Registries ==
    Methods("latest", {"getContractMetadata"})
    \cup Methods("none", {"getCapability", "getDelegation", "getPackage",
        "getPackageByHash", "getLatestPackage", "getPublisher",
        "getPublisherByNamespace", "getNamespaceClaim", "getVerifier",
        "getVerification", "getSettlementPolicy", "getAgentIdentity",
        "tnsResolve", "tnsReverse"})

\* setHead is the one method of the client that changes the node.
Versions ==
    Methods("none", {"getBoundaryVersion", "getGatewayBoundaryVersion",
        "getAuditReceiptBoundaryVersion", "getSettlementBoundaryVersion",
        "getPolicyWalletSchemaVersion", "getGatewaySchemaVersion",
        "getAuditReceiptSchemaVersion", "getSettlementSchemaVersion",
        "getGcStats", "getMemStats", "getNodeInfo"})
    \cup Methods("given", {"setHead"})

Rows ==
    UNION {Accounts, Privacy, Blocks, Calls, Counts, Consensus, Agents,
           ChainState, Pool, Boundaries, Registries, Versions}

DefaultBlock ==
    [m \in {row[1] : row \in Rows} |-> (CHOOSE row \in Rows : row[1] = m)[2]]

\* Mutated form: the default is taken for every falsy block, 0 included.
RequestBlockFalsy(m, block) ==
    LET default == DefaultBlock[m]
        missing == block = Undefined \/ (IsNumber(block) /\ block.number = 0)
    IN  CASE default = "none" -> Undefined
          [] default = "fixed" -> Tag("pending")
          [] default \in {"given", "hash", "optional"} ->
                 NormalizeBlockTag(block)
          [] OTHER -> IF missing THEN Tag(default) ELSE NormalizeBlockTag(block)

\* The block the request of method m carries when the caller gives block.
RequestBlock(m, block) ==
    LET default == DefaultBlock[m]
    IN  CASE default = "none" -> Undefined
          [] default = "fixed" -> Tag("pending")
          [] default \in {"given", "hash", "optional"} ->
                 NormalizeBlockTag(block)
          [] OTHER -> IF block = Undefined THEN Tag(default)
                      ELSE NormalizeBlockTag(block)

-----------------------------------------------------------------------------
(***************************************************************************)
(* Logs.  A filter is [blockHash, fromBlock, toBlock], each as above.      *)
(***************************************************************************)
\* JavaScript's truth of an optional block: 0 and 0n are not.
Truthy(block) == block # Undefined /\ ~(IsNumber(block) /\ block.number = 0)
Or(block, default) == IF block = Undefined THEN default ELSE block

\* serializeLogFilter, of getLogs and watchLogs.
LogFilter(filter) ==
    IF /\ filter.blockHash # Undefined
       /\ Truthy(filter.fromBlock) \/ Truthy(filter.toBlock)
    THEN Thrown
    ELSE IF filter.blockHash # Undefined
         THEN [blockHash |-> filter.blockHash]
         ELSE [fromBlock |-> NormalizeBlockTag(
                                 Or(filter.fromBlock, [number |-> 0])),
               toBlock |-> NormalizeBlockTag(Or(filter.toBlock, Tag("latest")))]

\* serializeNewFilterParams, of newFilter.
NewFilter(filter) ==
    [fromBlock |-> NormalizeBlockTag(Or(filter.fromBlock, Tag("latest"))),
     toBlock |-> NormalizeBlockTag(Or(filter.toBlock, Tag("latest")))]

-----------------------------------------------------------------------------
(***************************************************************************)
(* goClientParity: the method each function calls.  Those of the second    *)
(* group fix the block.                                                    *)
(***************************************************************************)
Renamed ==
    [blockByHash |-> "getBlockByHash", blockByNumber |-> "getBlockByNumber",
     headerByHash |-> "getHeaderByHash",
     headerByNumber |-> "getHeaderByNumber",
     transactionByHash |-> "getTransactionByHash",
     transactionReceipt |-> "getTransactionReceipt",
     transactionCount |-> "getBlockTransactionCountByHash",
     transactionInBlock |-> "getTransactionByBlockHashAndIndex",
     syncProgress |-> "syncing", networkId |-> "getNetworkId",
     peerCount |-> "netPeerCount"]

ReadsAt ==
    [balanceAt |-> "getBalance", storageAt |-> "getStorageAt",
     codeAt |-> "getCode", nonceAt |-> "getTransactionCount",
     callContract |-> "call", callContractAtHash |-> "callAtHash",
     callContractWithOverrides |-> "callWithOverrides",
     suggestGasTipCap |-> "maxPriorityFeePerGas"]

PendingReads ==
    [pendingBalanceAt |-> "getBalance", pendingStorageAt |-> "getStorageAt",
     pendingCodeAt |-> "getCode", pendingNonceAt |-> "getTransactionCount",
     pendingTransactionCount |-> "getPendingTransactionCount",
     pendingCallContract |-> "pendingCall"]

ParityBlock(f, block) ==
    IF f \in DOMAIN PendingReads
    THEN RequestBlock(PendingReads[f], Tag("pending"))
    ELSE RequestBlock(IF f \in DOMAIN ReadsAt THEN ReadsAt[f] ELSE Renamed[f],
                      block)
=============================================================================
