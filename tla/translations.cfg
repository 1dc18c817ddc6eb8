\* Catalogues of up to two units, every assignment of two hashes to four
\* keys, texts of two lengths, and offsets of which the second may be too
\* large.
CONSTANTS
    one = one
    two = two
    Strings = {exit, open}
    Contexts = {menu}
    Targets = {one, two}
    Bytes <- BytesOf
    Garbage = Garbage
    Hashes = {h1, h2}
    MaxOffset = 17
    MaxUnits = 2
    MaxCalls = 2
SPECIFICATION Spec
INVARIANTS SaysWhatTheCatalogueSays
CHECK_DEADLOCK FALSE
