\* setup-private.ts cut off between the two transactions of its queue.
CONSTANTS
    Scripts = {"setup_private"}
    MaxLate = 1
    MaxThrows = 2
SPECIFICATION LiveScripts
PROPERTIES SetupFinishes
CHECK_DEADLOCK FALSE
