SPECIFICATION Spec
CONSTANTS
    N = 3
    Own = 1
    Base = 4
    VendorLists <- Lists
    Hotplug = {0}
    PlugHandles = {2, 5}
INVARIANTS
    ModesAgree
    RoutedHome
    DynamicAgreed
    RestartDisables
CHECK_DEADLOCK FALSE
