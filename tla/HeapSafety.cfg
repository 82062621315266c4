SPECIFICATION Spec
SYMMETRY Symmetry
CONSTANTS
    Obj = {o1, o2, o3}
    Null = Null
    NField = 1
    Static = {s1}
    Opcodes = {"push_string", "add_string", "new", "new_array_int", "new_array_literal_object", "push_method_delegate"}
    Natives = {"fopen", "fgets", "set_exception"}
    StackMax = 2
    FrameMax = 2
    HeapBound = 4
    ThresholdStep = 0
    ArrayGrowth = 1
    ObjectSize = 1
    StringSize = 0
    IntSize = 0
    RefSize = 0
    PointerSize = 0
    ValueSize = 0
INVARIANTS TypeOK NoDangling IInv
PROPERTIES CollectsAll ImplementsHeapSpec
