SPECIFICATION Spec
CONSTANTS
    Bindings = {"cpp", "python"}
    MaxSize = 4
    RuleCap = 2
    Stable = TRUE
    MaxInputs = 2
INVARIANTS
    ProbeReportsSize
