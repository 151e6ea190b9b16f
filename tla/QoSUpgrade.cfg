SPECIFICATION Spec
CONSTANTS
    Names = {"real-time", "realtime", "interactive", "standard", "batch", "background"}
    NoClass = NoClass
INVARIANT NeverUpgraded
