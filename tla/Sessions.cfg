SPECIFICATION Spec
CONSTANTS
    Browser = {"b1", "b2"}
    Client = {"boot", "menu", "phone"}
    BrowserOf <- MCBrowserOf
    Menu = {"menu"}
    Jti = {1, 2, 3, 4}
    InitJar <- MCInitJar
    None = None
    Ttl = 2
    RefreshAfter = 1
    LinkExp = 1
    MaxNow = 2
    MaxFaults = 1
    MaxSent = 4
INVARIANTS LinkSignsInOnce EndedStaysOut OneDevicePerSignIn RefreshSignsNobodyOut CsrfFits
CHECK_DEADLOCK FALSE
