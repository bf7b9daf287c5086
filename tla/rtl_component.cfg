SPECIFICATION Spec
CONSTANTS
    Fuel = 4
    AwaitValue <- MCAwaitValue
    Components <- MCComponents
    Values = {0, 1}
INVARIANT
    ShadowsAgree
PROPERTIES
    ImplementsCircuit
