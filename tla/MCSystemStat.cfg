SPECIFICATION Spec
CONSTANTS
    Interfaces = {"eth", "lo"}
    InterfaceName = "eth"
    Width = 3
    Initial = {0, 2}
    Bursts = {1}
    MaxSteps = 3
    MaxPlugs = 2
PROPERTIES
    PrintedIsFirstStep
