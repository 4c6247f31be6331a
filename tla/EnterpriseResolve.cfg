SPECIFICATION EntSpec
CONSTANTS
    e1 = e1
    b1 = b1
    b2 = b2
    Exchanges = {e1}
    Callbacks = {b1, b2}
    Providers = {"WeCom", "Feishu"}
    Unknown = "unknown"
    Readers = 1
    Capacity = 1
    Channel = 1
INVARIANTS
    DisclosedOnlyToMember
    TransactionsOwned
PROPERTIES
    AdmissionReachesWaiter
    ExchangesSettle
CHECK_DEADLOCK FALSE
