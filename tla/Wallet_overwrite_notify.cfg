\* A block confirming a receive and a registerAsset tx, and the listener's balances.
CONSTANTS
    Tx <- TxAsset
    ExtTx <- MCExtTx
    Assets <- MCAssets
    ELA <- MCELA
    TxType <- MCTxType
    TxInputs <- MCTxInputs
    TxOutputs <- MCTxOutputs
    RegisteredAsset <- MCRegisteredAsset
    InternalChainIndex <- MCInternalChainIndex
    ExternalChainIndex <- MCExternalChainIndex
    CoinbaseHeight <- MCCoinbaseHeight
    MaxHeight = 3
    MaxReorgs = 0
    MaxBlockTxs = 2
    Threads = {t1}
    MaxRestarts = 0
SPECIFICATION RestartSpec
CHECK_DEADLOCK FALSE
INVARIANT BalanceNotified
