SPECIFICATION HttpSpec
CONSTANTS
    Statuses <- MCStatuses
    Bodies <- MCBodies
INVARIANT
    EveryRefusalIsTyped
