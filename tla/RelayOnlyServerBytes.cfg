CONSTANTS
    ClientInput <- MCClientInput
    ServerInput <- MCServerInput
    MaxObjectSize = 4
    MaxBody = 2
    MaxSent = 5
SPECIFICATION Spec
INVARIANT OnlyServerBytes
