\* Two options of the task share a child option.
CONSTANTS
    Texts = {"typed"}
    Mains <- OneMain
    Imported <- Imports
    Controllers = {"adb"}
    MaxLength = 0
    Removed = "removed"
SPECIFICATION Spec
INVARIANTS
    EditKeepsForest
CHECK_DEADLOCK FALSE
