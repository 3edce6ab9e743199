\* Two keyboards that come and go while their keys are pressed; the native codes collide.
SPECIFICATION Spec
CONSTANTS
    Normalized = {"ShiftLeft", "ShiftRight"}
    Native = {"n1", "n2"}
    Slots = 2
    Empty = "empty"
    Tombstone = "tombstone"
    Devices = {1, 2}
    KeysOf <- MCKeysOf
    Hashes <- MCHashes
    QueueSize = 2
    MaxKeys = 3
    MaxPlugs = 2
    MaxStarts = 2
    MaxFaults = 1
    MaxLost = 1
INVARIANTS OneReaderPerDevice KeyboardIsCurrent
PROPERTIES HotplugIsNoticed
CHECK_DEADLOCK FALSE
