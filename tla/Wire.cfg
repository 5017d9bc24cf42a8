SPECIFICATION Spec
CONSTANTS
    Requests <- SomeRequests
    Commands <- SomeCommands
    GameMessages <- SomeGameMessages
    Refusals = {2}
    NewGameName <- ANumber
    MaxMessages = 4
INVARIANTS
    AngleSurvives
PROPERTIES
    ServerReadsWhatIsWritten
    ClientReadsWhatIsWritten
CHECK_DEADLOCK FALSE
