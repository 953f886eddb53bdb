SPECIFICATION Spec
CONSTANTS
    MaxTasks = 3
    NTasks = 2
    MaxTicks = 9
INVARIANTS TypeOK StacksAreOwned RunningStackKept FewZombies
PROPERTIES BootCompletes NoStarvation ZombiesAreReaped
