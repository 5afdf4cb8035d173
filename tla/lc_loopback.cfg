SPECIFICATION FairSpec
CONSTANTS
    Calls = {c1}
    Sites <- DeployedSites
    MaxFaults = 0
    MaxLosses = 0
    MaxStops = 0
PROPERTY InitAnswers
