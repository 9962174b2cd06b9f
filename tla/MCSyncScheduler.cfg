SPECIFICATION Spec
CONSTANTS
    Wallets = {1, 2}
    Workers = {k1, k2}
    Limit = 1
    MinInterval = 1
    MaxRestarts = 1
    NoWorker = NoWorker
    Handler = Handler
PROPERTIES
    NotTooSoon
    EveryWalletSynced
