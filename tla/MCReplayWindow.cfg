\* Window 3, sequence numbers 1..8: shifts shorter than, equal to and longer
\* than the window all occur.
SPECIFICATION Spec
CONSTANTS
    Window = 3
    Sequences <- MCSequences
INVARIANTS
    NoReplay
    ReorderingTolerated
    WindowExact
