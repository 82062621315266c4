SPECIFICATION FairSpec
CONSTANTS
    Obj = {o1, o2, o3}
    Null = Null
    NField = 1
    Static = {}
    Opcodes = {"push_string", "add_string", "cast_int_to_string", "new_array_int", "push_delegate", "push_method_delegate"}
    Natives = {"fopen", "fgets"}
    StackMax = 2
    FrameMax = 1
    HeapBound = 100
    ThresholdStep = 3
    ArrayGrowth = 1
    ObjectSize = 2
    StringSize = 3
    IntSize = 4
    RefSize = 2
    PointerSize = 1
    ValueSize = 2
INVARIANTS HeapSizeExact OvershootsByOne
PROPERTIES AllocationEnds
