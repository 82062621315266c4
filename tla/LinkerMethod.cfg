SPECIFICATION Spec
CONSTANTS
    Package = {"lang", "P", "Q"}
    DefaultPackage = "lang"
    Main = "main"
    Identifier = {"print", "println", "C", "m", "a", "e", "f", "g", "c", "d", "k"}
    NoName = "none"
    Natives <- NativeFunctions
    Programs <- MethodPrograms
    MaxDepth = 2
INVARIANT FunctionsFound
CHECK_DEADLOCK FALSE
