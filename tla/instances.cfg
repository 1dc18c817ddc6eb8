\* Two processes, each started any number of times; lines of at most two bytes and a
\* file that holds two.
CONSTANTS
    Processes = {one, other}
    kMaxFileBytes = 2
    MaxLine = 2
    MaxSize = 3
SYMMETRY ProcessSymmetry
SPECIFICATION Spec
INVARIANTS TypeOK AtMostOneInstance CountIsSize IconNeverLost
PROPERTIES LimitKept
