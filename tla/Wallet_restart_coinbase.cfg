\* Two coinbase rewards, a sweep of the first and a receive, one restart: the WalletNotContainTx check.
CONSTANTS
    Tx <- TxSweep
    ExtTx <- MCExtTx
    Assets <- MCAssets
    ELA <- MCELA
    TxType <- MCTxType
    TxInputs <- MCTxInputs
    TxOutputs <- MCTxOutputs
    RegisteredAsset <- MCRegisteredAsset
    InternalChainIndex <- MCInternalChainIndex
    ExternalChainIndex <- MCExternalChainIndex
    CoinbaseHeight <- MCCoinbaseHeight
    MaxHeight = 3
    MaxReorgs = 1
    MaxBlockTxs = 2
    Threads = {t1}
    MaxRestarts = 1
SPECIFICATION RestartSpec
CHECK_DEADLOCK FALSE
INVARIANT RestartFaithful
