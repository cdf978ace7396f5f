\* Three calls in up to six items, of every kind of backend.
SPECIFICATION Spec
CONSTANTS
    Calls = {1, 2, 3}
    Names = {"Bash", "edit"}
    Styles = {"openai", "repeat", "late", "whole", "same_index", "responses",
              "typed", "native"}
    Forms = {"stream", "line", "pretty"}
    MaxItems = 6
CHECK_DEADLOCK FALSE
INVARIANTS
    CallsReassembled
    CallsCountedOnce
    EveryToolIsSeen
