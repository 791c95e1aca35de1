SPECIFICATION FairSpec
CONSTANTS
    Bundle = {b1, b2}
    MAX_DELAY_RETRY_CNT = 3
    MaxCalls = 3
    None = None
PROPERTIES
    LiveProxyStays
    AgentUnloads
    LostIsRetried
    StaleProxyIsDropped
