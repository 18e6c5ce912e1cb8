SPECIFICATION QueueLiveSpec
CONSTANTS
    MaxEvents = 4
    MaxTime = 1
    RequeueMidLoad = FALSE
    SharedSeconds = FALSE
    None = None
INVARIANTS KeepsApprovedText TrustsOwnersLabels
PROPERTY StrangersReadyGoes
CHECK_DEADLOCK FALSE
