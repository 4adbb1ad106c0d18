CONSTANTS
    MaxFaults = 2
    NoReport <- MCNoReport
SPECIFICATION Spec
INVARIANTS
    RunTellsTheTruth
    AdvertisedArtifactsExist
