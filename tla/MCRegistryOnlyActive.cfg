CONSTANTS
    r1 = r1
    r2 = r2
    t1 = t1
    Urls <- MCUrls
    MaxUrls = 3
    Configs <- MCConfigs
    Instances <- MCThree
    Config <- MCConfigThree
    PingInterval = 2
    MaxFailures = 1
SPECIFICATION Spec
INVARIANT OnlyActive
