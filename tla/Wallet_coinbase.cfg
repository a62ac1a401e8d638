\* Two coinbase rewards (blocks 1 and 2), a spend of the first, a receive
\* and a registerAsset tx, two reorganisations.
CONSTANTS
    Tx <- TxCoinbase
    ExtTx <- MCExtTx
    Assets <- MCAssets
    ELA <- MCELA
    TxType <- MCTxType
    TxInputs <- MCTxInputs
    TxOutputs <- MCTxOutputs
    RegisteredAsset <- MCRegisteredAsset
    InternalChainIndex <- MCInternalChainIndex
    ExternalChainIndex <- MCExternalChainIndex
    CoinbaseHeight <- MCCoinbaseHeight
    MaxHeight = 3
    MaxReorgs = 2
    MaxBlockTxs = 2
    Threads = {t1}
    MaxRestarts = 0
SPECIFICATION RestartSpec
CHECK_DEADLOCK FALSE
INVARIANT ChainAgrees
INVARIANT CoinbaseTracked
INVARIANT CoinbaseOrdered
 
INVARIANT CoinbasePagesAreWindows
