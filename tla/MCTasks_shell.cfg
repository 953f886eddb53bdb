SPECIFICATION Spec
CONSTANTS
    MaxTasks = 3
    NTasks = 2
    MaxTicks = 9
PROPERTIES ShellKeepsResponding
