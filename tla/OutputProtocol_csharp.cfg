SPECIFICATION Spec
CONSTANTS
    Bindings = {"csharp"}
    MaxSize = 4
    RuleCap = 2
    Stable = TRUE
    MaxInputs = 2
INVARIANTS
    ResultIsOutput
