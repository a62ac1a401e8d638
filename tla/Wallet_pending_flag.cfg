\* Receive, spend and double spend of one output: the wallet composes a
\* tx against its own pending double spend.
CONSTANTS
    Tx <- TxNotify
    ExtTx <- MCExtTx
    Assets <- MCAssets
    ELA <- MCELA
    TxType <- MCTxType
    TxInputs <- MCTxInputs
    TxOutputs <- MCTxOutputs
    RegisteredAsset <- MCRegisteredAsset
    InternalChainIndex <- MCInternalChainIndex
    ExternalChainIndex <- MCExternalChainIndex
    CoinbaseHeight <- MCCoinbaseHeight
    MaxHeight = 3
    MaxReorgs = 1
    MaxBlockTxs = 2
    Threads = {t1}
    MaxRestarts = 0
SPECIFICATION RestartSpec
CHECK_DEADLOCK FALSE
PROPERTY ComposeNoConflict
