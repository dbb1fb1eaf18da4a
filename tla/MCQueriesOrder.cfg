SPECIFICATION Spec
CONSTANTS
    Element <- MCElement
    NoElement = NoElement
    Place <- MCPlace
    Ancestors <- MCAncestors
    Bodies <- MCBodies
    MaxFailures = 2
INVARIANTS AnyOrderSelectsTheSame
