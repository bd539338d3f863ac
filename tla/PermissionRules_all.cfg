\* A REPL and two commands, or one command and a REPL killed twice.
SPECIFICATION HistorySpec
CONSTANTS
    Engines = {repl}
    Commands = {cmd1, cmd2}
    Targets = {git}
    Escalation <- Confirming
    MaxCrashes = 2
SYMMETRY Symmetry
CONSTRAINTS DeathsOrCommands OneGrant
INVARIANTS TypeOK AllowsAreGranted
PROPERTIES RenameInstalls 
CHECK_DEADLOCK FALSE
