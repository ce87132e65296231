SPECIFICATION StoreSpec
CONSTANTS
    laptop = laptop
    tablet = tablet
    ui = ui
    task1 = task1
    task2 = task2
    Devices <- TwoDevices
    Threads <- ThreeThreads
PROPERTY
    RestartKeepsTrust
