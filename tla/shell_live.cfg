\* One device under fairness; no symmetry, which would be unsound here.
CONSTANTS
    Devices = {phone}
    MaxClicks = 2
    MaxMessages = 2
SPECIFICATION Spec
PROPERTIES ExitEnds PickerSettles
