SPECIFICATION HrSpec
CONSTANTS
    Host = h
    Peers = {h, o}
    HostSource = s
    Sources = {s}
    Locators = {l1, l2, l3}
    Capacity = 2
    PerSource = 2
    Grace = 1
    Links = {c1, c2}
    None = None
    RetryLimit = 1
    MaxFaults = 2
INVARIANT AdvertisedIsRegistered
PROPERTIES
    CodeKeptUnlessTaken
    HostReturns
CHECK_DEADLOCK FALSE
