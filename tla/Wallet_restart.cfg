\* Receive, spend, drop and reorganisation, one restart.
CONSTANTS
    Tx <- TxRestart
    ExtTx <- MCExtTx
    Assets <- MCAssets
    ELA <- MCELA
    TxType <- MCTxType
    TxInputs <- MCTxInputs
    TxOutputs <- MCTxOutputs
    RegisteredAsset <- MCRegisteredAsset
    InternalChainIndex <- MCInternalChainIndex
    ExternalChainIndex <- MCExternalChainIndex
    CoinbaseHeight <- MCCoinbaseHeight
    MaxHeight = 3
    MaxReorgs = 1
    MaxBlockTxs = 2
    Threads = {t1}
    MaxRestarts = 1
SPECIFICATION RestartSpec
CHECK_DEADLOCK FALSE
INVARIANT RestartFaithful
