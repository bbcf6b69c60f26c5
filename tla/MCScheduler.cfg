\* Three links that come and go in every order; shares over two full cycles.
SPECIFICATION Spec
CONSTANTS
    wifi = wifi
    usb = usb
    lte = lte
    Paths = {wifi, usb, lte}
    Weight <- MCWeight
    RTTLevels = 1
    RTTs <- MCRTTs
    Window = 16
INVARIANTS
    NobodyStarves
    SharesFollowWeights
