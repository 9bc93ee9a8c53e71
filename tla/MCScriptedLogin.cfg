SPECIFICATION ScriptedSpec
CONSTANTS
    MaxRelays = 6
    MaxBssoHops = 3
    MaxCodes = 3
    MaxRounds = 8
    MaxPolls = 3
    MaxHops = 10
INVARIANT NothingStaleIsSent
PROPERTIES KeepsPromise LoginEnds
