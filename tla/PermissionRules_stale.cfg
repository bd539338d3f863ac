\* A command adds a rule while a REPL runs.
SPECIFICATION HistorySpec
CONSTANTS
    Engines = {repl}
    Commands = {cmd1}
    Targets = {git}
    Escalation <- Confirming
    MaxCrashes = 0
INVARIANT AckedRulesKept
