\* A configured and a discovered instance of one camera.
CONSTANTS
    c1 = c1
    c2 = c2
    here = here
    there = there
    Client <- Controllers
    Position <- Places
    Instance = {1, 2}
    preset_range_min <- MinOneZero
    preset_range_max <- MaxThreeOne
    MaxSaves = 4
    MaxRestarts = 1
SPECIFICATION Spec
SYMMETRY Symmetric
INVARIANTS TypeOK RecallReturns PresetInRange
