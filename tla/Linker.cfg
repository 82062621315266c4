SPECIFICATION Spec
CONSTANTS
    Package = {"lang", "P", "Q"}
    DefaultPackage = "lang"
    Main = "main"
    Identifier = {"print", "println", "C", "m", "a", "e", "f", "g", "c", "d", "k"}
    NoName = "none"
    Natives <- NativeFunctions
    Programs <- PlainPrograms
    MaxDepth = 2
INVARIANTS TypeOK LinkedInOrder SuppliersFirst RunsDefinition OneDefinition LoadFailsJustly ConstantsReady
PROPERTY LoadEnds
CHECK_DEADLOCK FALSE
