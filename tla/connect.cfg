CONSTANTS
    BlockLen = 8
    WordBytes = 1
    State0 = 4660
    Transform <- MCTransform
    Digest <- MCDigest
    XorOf <- MCXor
    Salt1Len = 8
    WordMod = 65536
    HashMod = 4096
    RndMax = 1021
    Nr0 = 4933
    Nr20 = 1656
    MaxName = 3
    Urls <- MCUrls
    Accounts <- MCAccounts
    Greetings <- MCGreetings
    MaxNumber = 2
    MaxConnects = 2
SPECIFICATION FairSpec
INVARIANTS TypeOK UrlFields AuthRight InSequence ConnectedIsAccepted SocketsAccounted
PROPERTIES ConnectEnds
CHECK_DEADLOCK FALSE
