SPECIFICATION FairSpec
CONSTANTS
    Clients = {c1, c2}
    MaxEvents = 4
INVARIANTS AnswersSettleAudio PausedAudioStaysOut StoppedIsNotRevived
PROPERTIES CallsReturn
CHECK_DEADLOCK FALSE
