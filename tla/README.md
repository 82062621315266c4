# Diksam: models, checks and proofs

Diksam is a small statically typed language with classes, delegates,
exceptions and packages. The repository holds its compiler (DKC: scanner,
parser, `create.c`, `fix_tree.c`, `generate.c`) and its virtual machine (DVM:
`load.c`, `execute.c`, `heap.c`, `native.c`, `nativeif.c`), one single-threaded
C program under `src/diksam/diksam_with_class/`. File names below are relative
to that directory.

## 1. Inventory

| Component | State | Operations | What makes it correct |
|---|---|---|---|
| Heap and collector (`heap.c`) | object list, marks, `current_heap_size`, `current_threshold` | `alloc_object`, `DVM_check_gc`, `gc_mark_objects`, `gc_sweep_objects`, `dvm_create_*` | nothing in use is freed; all garbage is; the size is right; every collection ends |
| Interpreter (`execute.c`) | operand stack with pointer flags, `base`, `pc`, function, contexts, `current_exception` | about 110 opcodes, `invoke_*`, `do_return` | calls and returns balance; the stack is large enough; references are flagged |
| Exceptions (`execute.c`, `generate.c`) | try tables, `current_exception`, return addresses on the stack | `do_throw`, `throw_in_try`, THROW, RETHROW, GO_FINALLY, FINALLY_END | each finally clause runs once on every way out, the first matching catch clause gets the exception |
| Native functions (`native.c`, `nativeif.c`) | contexts with the references they created, blocks of arrays | strings, arrays, files, `DVM_set_exception`, callbacks | what they hold is a root until they return it; an array stays inside its block |
| Classes (`fix_tree.c`, `load.c`, `execute.c`) | member indices, virtual and interface tables, the table a reference carries | `fix_class_list`, `add_method`, UP_CAST, DOWN_CAST, SUPER, INSTANCEOF, PUSH_METHOD | a call reaches the implementation of the object's class; a field lies where the compiler put it; casts answer by the object |
| Code generator (`generate.c`) | opcode buffer, labels, try table, `current_finally_label` | one generator per statement and expression | the code does what the source means; `need_stack_size` suffices |
| Loader (`load.c`) | function and class tables, virtual tables | `DVM_set_executable`, `dvm_dynamic_load`, `set_v_table` | indices of an executable name the right function or class of the machine |
| Compiler driver (`interface.c`) | stack of compilers, executable list | `do_compile`, `dkc_dynamic_compile` | each package is compiled and linked once, what it requires before it |
| Semantic analysis (`fix_tree.c`) | types, scopes, exception lists | `fix_*` | conversions and folding keep the meaning; throws clauses cover what may be thrown; no jump leaves a finally block |
| Memory (`memory.c`, `storage.c`) | chained blocks, arena pages | `MEM_*` | blocks do not overlap |

How they interact: the compiler hands the machine an executable, whose code the
interpreter runs; the interpreter, the native functions and the field
initializers call the heap, which reads the interpreter's stack, statics,
contexts and exception as its roots; native functions run Diksam code again
(constructors of exceptions, `DVM_invoke_delegate`); the interpreter calls the
loader, and through it the compiler, when a function is not implemented yet.

There is one thread. What is hard is *when* things happen: a collection starts
in the middle of an instruction, a native function or an object's creation; an
exception cuts the stack at any point and continues elsewhere; a finally clause
is entered from many places and must return to the right one.

`PROJECT.json` lists every hazard with its line and the property that covers it.

## 2. Modules

| Module | Models | Status |
|---|---|---|
| `HeapSpec` | what the heap promises: objects that can be reached exist | done |
| `Heap` | `heap.c` and its users: roots, allocation, collection, contexts | done |
| `HeapProofs` | theorems about `Heap`: types, the tri-colour invariant, nothing in use is freed | done |
| `CollectorProofs` | theorems about `Heap`: what a collection gives back, sizes; `Heap` implements `HeapSpec` | done |
| `TryCode` | `generate.c`: code of control statements | done |
| `TryMeaning` | what the same statements mean, without any code | done |
| `Exceptions` | `execute.c`: the machine running that code | done |
| `Linker` | `interface.c`, `load.c`: require lists, tables, linking, dynamic loading | done for functions and constants |
| `LinkerProofs` | lemmas about the tables of functions and constants of `Linker`, theorems about the order of linking | done |
| `LoadProofs` | theorems about `Linker`: functions, dynamic loading, constants | done |
| `Instructions` | `opcode.c`, `generate.c`: instructions as bytes, labels, the walkers over them | done |
| `ExprCode` | `fix_tree.c`, `generate.c`: types, conversions, folding and code of expressions | done |
| `ExprMeaning` | what the same expressions mean, without types or code | done |
| `Expr` | `execute.c`: the machine running that code | done |
| `ClassTables` | `create.c`, `fix_tree.c`, `load.c`: from class definitions to tables | done for one executable |
| `Classes` | `execute.c`, `heap.c`: objects, casts and calls over those tables | done |
| `ClassTableProofs` | lemmas about `ClassTables`: what the compiler's loops and the loader leave in the tables | done |
| `ClassProofs` | theorems about `Classes`: calls, fields, tables of references and casts | done |
| `VMArray` | `nativeif.c`, `native.c`: the methods of arrays over their blocks | done |
| `VMArrayProofs` | theorems about `VMArray`: what each method does to the elements and the block | done |
| `CallStack` | `execute.c`: calls, natives, callbacks, the growth of the stack | done |
| `CallStackProofs` | theorems about `CallStack`: frames, flags and arrays of well-typed programs; when the stack is large enough | done |
| `MCHeap`, `MCExceptions`, `MCLinker`, `MCExpr`, `MCClasses`, `MCCallStack` | instances and program sets for the runs | done |

### Heap

State: the object list as a set (`live`), types, references held by each
object, mark bits, the two counters, the operand stack with pointer flags, the
statics, `current_exception`, and `frame`, the native functions and field
initializers in progress (each with the references of its `DVM_Context`, and
those that only a C variable holds). `phase` says where the current allocation
is: `check` (`DVM_check_gc`), `mark`, `sweep`, `alloc` (the rest of
`alloc_object`), or `run`. `GcMark` visits one reference, `GcSweep` looks at one
object, `EndSweep` repeats the collection if a finalizer ran. `AllocObject`
makes the object and hands it to the instruction, the field or the native
function that asked; a class object first enters its field initializer, which
may allocate again, also inside a native function.

An exception is a step that cuts the stack (`Handle`): where to is the business
of `Exceptions`. In a field initializer the handler is in a function the
initializer calls, above the object under construction; an exception that leaves
the initializer is not modelled (it is looked up in the try table of the top level,
`func` being NULL, or ends the program). `substr` is the one native function that
neither adds its result to its context nor is registered as returning a pointer.
The `DVM_create_array_*` functions (`heap.c:135`) add no reference either, but
nothing in the repository calls them.

An array has one of two blocks. `ChangeArray` is inserting, removing and resizing
within the block it has; `RequestResize` asks for the other one, which calls
`DVM_check_gc` in the middle (`nativeif.c:170`), and `ResizeArray` is the rest of
it: elements move, what is inserted comes from the arguments of the native method
or, in `add_stack_trace`, from the top of the stack. Which sizes a block goes
through is the business of `VMArray`.

`HeapSpec` knows only objects, references and what is in use; `Heap` implements
it with everything the interpreter and native code can name as `inUse`.

### TryCode, TryMeaning, Exceptions

`TryCode` is a recursive translation of statements to code: every `GenerateX`
is `generate_x_statement`, over an opcode buffer with labels, try table and
current finally label. The blocks around a statement are a sequence, innermost
first, as in `block->outer_block`. `Exceptions` runs the code: one action per
opcode or group of opcodes, and `do_throw` as a sequence of steps in mode
`throw` (`ThrowInTry`, `Unwind`, `Exit`). `TryMeaning` evaluates the source
directly and is what the outcome is compared with.

An expression is one instruction: `mark` leaves an observable trace,
`condition` is true a bounded number of times (`Fuel`), exceptions are their
class. Addresses count instructions, so GO_FINALLY returns to the next address
instead of `pc + 3`. A label that is never set has the address 0, which stands
for the uninitialised memory `fix_labels` reads.

### Linker

A unit is one source file: a header or an implementation of a package, or the
main program. `compiling` is the recursion of `do_compile` (`Parse`, one
`Require` per element of the require list, `Generate` for `dkc_fix_tree`,
`dkc_generate` and `add_exe_to_list`), `known` is `st_compiler_list`, `list` the
executable list. `Link` is one turn of the loop of `DVM_set_executable` or
`dvm_dynamic_load`: it merges the functions and constants of the executable
into the machine's tables, `AddFunctions` and `AddConstants`, and runs the
constant initializer. `NullType` is what else may become of a source with constants:
`fix_constant_list` takes the type of a constant from its initializer before that
has one, and compares with it (`fix_tree.c:3110`, `util_cl.c:103`); the compiler may
die there. `Dispose` is a call of `traversal_compiler`, `Call` a call
of a function through the tables of the running executable, with `Load` for one
that is not implemented. The function and constant tables of a unit
(`FunctionTable`, `ConstantTable`) follow the order in which `dkc_fix_tree`
reserves indices: those of constants for the methods, then each constant of its own
followed by those its initializer reads (`FixConstantList`), then for the rest. Names are members of `Identifier`, the empty class name is `NoName`; code and
types are abstracted: what a function does is call any function of its
executable's table. Constants declared with a type (`const T x;`) have no initializer
in the grammar and never get a value; they are left out. `dkc_search_constant` is called but
not part of the repository; it is taken to search like `dkc_search_function`.

### Instructions, ExprCode, ExprMeaning, Expr

`ExprCode` is `fix_expression` (types, conversions, folding; every compile error
is the node `Error`) followed by `generate_expression`, into bytes written by
`Instructions`. An int has `WIDTH` bits and a byte `BYTE` values, so that
operands need two bytes or the constant pool, and ints wrap, for small numbers.
A double is a count of halves. `Expr` executes the bytes: a stack slot is a union
that knows which member was written last and its pointer flag, and an action is
enabled only if the member it reads is that one: `NeverUndefined` says that the
machine is never without a defined step. `ExprMeaning` evaluates the source tree,
with neither types nor conversions decided in advance, and is what the end of
the run is compared with.

### ClassTables, Classes

`ClassTables` is the loops of `fix_class_list` (one action a loop, one class a
step) and of `add_classes`. `chain`, `interfaces`, `members`, `index` and `order`
are what the compiler keeps of each class; `class`, `interface` and `layout` the
tables the loader builds. A definition that the compiler refuses ends in
`rejected`. `Classes` is the running program: one variable with its static type,
the reference with the table it carries (`view`), the frames of running methods.
Each action is an expression the compiler accepts: `New`, `Assign`, `DownCast`,
`InstanceOf`, `Call`, `TakeDelegate`, `InvokeDelegate`, and, inside a method,
`CallInside` on `this` or `super` and `Return`. The meaning a call is compared
with is `Implementation`, which looks at the definitions only. The filters of
the code (interfaces among what is extended, fields and methods among members)
are `Selected`, a sequence at the places of a set, since the provers know
nothing of `SelectSeq`.

### VMArray, CallStack

`VMArray` is `nativeif.c`'s arrays: the cells of the block, the size, and what
the heap is charged. `CallStack` is the stack of the machine as an array of
slots: `Init` is `DVM_create_virtual_machine` and `DVM_execute`, `InvokeDiksam`
is `invoke_diksam_function` with `dvm_expand_stack`, the call information and
the local variables, `Return` is `return_function`, `InvokeArrayMethod` a native
method, with the flag of its result as it was registered (`return_pointer`),
`CallBack` and `ReturnToNative` are `test_native` with
`DVM_invoke_delegate` and `invoke_diksam_function_from_native`. The call
information takes `CallInfoSize` slots; the caller's `base` and `pc` are read back
from the slot where `do_return` looks for them. `meant` keeps the same frames the
way the program means them, each with variables and operands of its own, and with
the slot where it begins (`first`): `Held` says that the stack holds the contents
of a frame there, `Links` that the call information, or what the activation of a
native function saved, leads back to the frame below.

A program stops with `overrun` when the machine writes past a block, with
`no room` when a callback does not fit the rest of the stack, with `moved` when
the stack moved below a native function, and with `exception` when an array
method raises. The middle two are known defects that no text of the repository
speaks of; `overrun` is what `NeverOverrun` excludes.

## 3. Runs

| Run | Shows | Bounds |
|---|---|---|
| `heap_safety` | type invariant, no dangling references, the inductive invariant, no garbage left after a collection, implementation of `HeapSpec` | 3 objects, 1 field each, arrays with two blocks, 1 static, 2 operands, 2 nested frames, natives with up to 2 arguments, a collection at every allocation; 3069171 states |
| `heap_accounting` | the size is exact and exceeds the threshold by one object at most; every allocation ends | 3 objects, sizes that differ by type, types whose charge and refund agree |
| `heap_substr` | the result of `substr` is freed while it is an operand (expected violation) | as `heap_safety` |
| `exceptions` | code and machine agree with the meaning of the source; pending exceptions, return addresses, frames and stack size; every program ends | 5571 programs, conditions true twice |
| `exceptions_catch` | an exception in a catch clause skips the finally block (expected violation) | programs with a throwing catch clause |
| `exceptions_nested` | a try statement in a catch clause jumps to a label never set (expected violation) | programs with such statements |
| `linker` | executables are linked once, in order and after what they require; calls run the one definition of their function; constants are ready; loading ends | 361 programs of 7 units, 2 nested calls |
| `linker_method` | a method with the name of a function has no table entry (expected violation) | 2 programs |
| `expr` | code and machine agree with the meaning of the expression; typed opcodes fit the slots; flags tell the references; statements leave the stack as it was; `need_stack_size` is enough | every operator on every pair of 31 atoms, two levels of seven operators, assignments to 25 left sides; ints of 8 bits, bytes of 3 |
| `classes` | calls reach the implementation of the object's class; fields, tables and casts agree; chains of calls on super end | 640 hierarchies of two interfaces and four classes on three levels |
| `calls` | frames keep variables and operands; nothing is written past the stack or a block; flags tell the references; arrays hold what their methods mean | 8379 programs of two calls at the top level and one in a function, nested up to six frames deep; the stack grows twice |
| `array_grow` | resizing a large array fills it past the end of its new block (expected violation) | two calls of `resize`, `ARRAY_ALLOC_SIZE` 2 |

Why the bounds are enough. Three objects give chains of two references, garbage
beside live objects, and an allocation with both; the collector treats objects
one at a time and the interchangeable addresses are reduced by symmetry. Two
frames are a field initializer inside a native function, the deepest nesting
with different roles. A threshold step of 0 makes any allocation collect.
`HeapBound` stops the drift of the size (see the findings) and only forbids
requests beyond it. The theorems of section 4 do not depend on these bounds.

The programs of `exceptions` are all combinations of: how the try clause is
left (falling through, throwing either class, returning, calling a function
that throws, catches and rethrows, or returns, a native function that raises);
no, one or two catch clauses in either order with several bodies; no finally
block, one that falls through, one that throws, one that calls; plain, in and
around loops with labelled and unlabelled `break` and `continue`, around a
switch, nested in another try clause; called from a top level with and without
a handler. Fuel 2 lets a loop run twice, so that the second round meets the
stack the first one left.

They leave out the constructions that the code generator or the machine is
known to get wrong: throwing in a catch clause of a statement with a finally
block and a try statement in a catch clause (the two violation runs), nested
try statements with finally blocks, a finally block that calls a native
function, and a try statement, `break` or `continue` inside a switch (hazards
without a property: nothing in the repository says what they should do).

The programs of `linker`: the main program requires P, Q before P, or the
default package explicitly; the headers of P and Q are independent or require
one another in either direction; the implementation files require nothing, their
own header or both; a function of P is defined in the header, the file or both;
a function of Q has its own name or that of P's; the implementation or header of
Q may be missing, a function or a constant may be out of sight, a header may require
itself. Every unit uses every name it sees; initializers read a constant before them
or, the last, those of other packages. Two packages are what it takes for one unit
to come to another along two paths; two nested calls for a function that was
loaded to load another. Left out are headers that require each other in a
circle, sources with constants of their own whose methods read constants or whose
initializers read those of others before the last, and
implementation files that lack a function: hazards without a property.

The programs of `expr` leave out, because the code is known to differ there and
no text of the repository says what is right (or the process would stop at an
assertion): comparisons folded on two double literals, which the compiler
truncates to ints; `null != null`, folded to true; the remainder by zero, which
neither the compiler nor the machine checks (only `/` is); strings that may be null compared with
a string, which EQ_STRING dereferences; objects compared by order; two boolean
literals compared by order. Also outside: `a, b` as an expression, which leaves
the value of `a` on the stack; compound assignments of types that do not fit,
which `fix_assign_expression` accepts; increments of literals and of finals;
three dimensions of `new`, whose temporaries exceed `need_stack_size`.

`classes` runs every hierarchy the compiler accepts that is `Regular`, 105 of
320. For the others the tables of compiler and loader differ, or the table a
reference carries is not the one its next use expects. The conditions, each with
what the code does where it does not hold:

- `Implements`: a concrete class has everything its kinds declare, the methods of
  interfaces in its own definition. An interface method that only a super class
  implements gets the index -1, and a concrete class may leave inherited abstract
  and interface methods unimplemented: only its own members are checked
  (`fix_tree.c:2955`). A method that an abstract class in the middle declares
  `abstract` again has no function for the classes below, whose table keeps the
  function of the first super.
- `NoGaps`: what is marked as overriding overrides something, and an extended class
  has as many methods of its own as its interfaces. `override` of nothing is
  accepted, takes an index and gets no slot (`load.c:513`).
- `Apart`: what an interface declares, a class and its supers have from that
  interface alone. A method of a super class that a sub class overrides again as
  the method of an interface has the index of the one, and is looked up in the
  table of the other.
- `SameInterfaces`: no super has other interfaces. UP_CAST takes an index from the
  list of the static class and uses it in the list of the object's class; inherited
  interfaces come twice in it.
- `SameResult`: what overrides a method that returns an interface returns the
  same. The object of one that returns a class is not up-cast.
- `ThisIsWhole`, `CastsKeep`: methods that run through an interface or on super
  call nothing on `this`, and a cast from an interface goes to an interface.
  DOWN_CAST from an interface to the object's own class keeps the interface table,
  and so does `this` in a method called through an interface.
- `SuperIsNear`, `SuperHas`: a method that calls something on super is not
  inherited by a sub class without one of its own, and what it calls exists. SUPER takes the super class
  of the table that the reference carries (`execute.c:1888`), not of the class
  the method is in: inherited, the method finds itself on super and calls itself
  for ever.

Not in the programs at all:

- a class defined before its super, which reads member indices that are not set;
- an up cast of null, which throws, and `instanceof` of null, which dereferences it.

These and modifiers in the order `virtual private` (an assertion) are
left out of the programs themselves. Three levels are what it takes for a method
to be overridden twice and for a class to inherit an interface along two paths.

`calls`: the top level makes two calls, `f` one: of a function with several local
variables, of a method through a delegate, of an array method with an index at
and beyond both ends, of `test_native` with a delegate of a function, of a
method, and of a function that goes on calling. The stack begins with 12 slots
(4096 in the program), so that it grows under calls at different depths, twice
for some programs; no function needs more slots than that, as no function of a
real program should need 4096, since `dvm_expand_stack` grows by what is left
and not by what is needed. The call information takes two slots, as on a machine
with 4-byte pointers; where it takes one, less room is used. Arrays begin with
one and no element and grow to five cells in blocks of `ARRAY_ALLOC_SIZE` 2
(256 in the program). New sizes are 0, 1 and 3, for which `resize_array` gives a
block that is large enough; `array_grow` takes 0 to 8.

Fairness. `heap_accounting` assumes weak fairness of the collector's steps and
of the end of an allocation (`Complete`): they are the rest of one C call that nothing can suspend.
`exceptions` assumes weak fairness of the machine's next step: the interpreter
loop does nothing else. `linker` assumes weak fairness of compiling, linking and
disposing, which are one C call; a program need not call anything
(`LoadingGoesOn`; for `Generate` and `Link`, which call large operators, weak
fairness is written out with their guards `ReadyToGenerate` and `ReadyToLink`:
infinitely often not ready, or infinitely often taken). Deadlock is checked in the heap runs only,
since elsewhere a program that has ended takes no step; `Terminates` shows that
none stops elsewhere in `exceptions`, and `NeverUndefined` in `expr`.

## 4. Proofs

Every theorem holds for all values of the constants that the named assumptions
of the modules allow: any number of objects, packages, units, names, any stack,
any nesting.

### Heap

Assumptions: `NullAssumption` (null is not an address), `SizeAssumption` (the
bounds and sizes are naturals, objects have at least one field),
`OpcodeAssumption` (the program uses known instructions and native functions).
Where a theorem says so, the program does not use `substr` (`NoSubstr`): with it
the theorems are false, as `heap_substr` shows.

| Theorem | States | Of |
|---|---|---|
| `Invariance`, `TypeCorrect`, `Safety` (`HeapProofs`) | `IInv`, `TypeOK`, `NoDangling` | programs without `substr` |
| `Completeness` (`CollectorProofs`) | `CollectsAll` | programs without `substr` |
| `Bounded` (`CollectorProofs`) | `OvershootsByOne` | every program |
| `Accounting` (`CollectorProofs`) | `HeapSizeExact` | a finite memory, programs without `substr` and with `ChargesMatch` |
| `Refinement` (`CollectorProofs`) | `ImplementsHeapSpec` | programs without `substr` |

`NoDangling` is not inductive. `IInv` adds: every slot that holds a reference
has its pointer flag (`SlotsFlagged`); native code holds nothing outside its
context (`NoLocals`); the arguments of a native function and the object of a
field initializer stay on the stack until it returns (`FramesOnStack`); an
allocation in progress still finds its operands (`RequestOK`); roots are live,
and outside a sweep all references of live objects are; during the marking
every root is marked or still to visit, and so is every reference of a marked
object (`Marking`, the tri-colour invariant); during the sweep the marked
objects contain the roots and are closed, and what is unmarked is still to be
looked at (`Sweeping`). During a sweep an unmarked object may hold a reference
to a freed one, which is why `FieldsLive` is claimed for the other phases only.
There is one lemma per action. The instructions that move references share
`StackAction`; those that enter and leave frames share `PushFrame` and
`PopFrame`.

`IInv` says that enough is marked; `MarksExact` that no more is: what is marked
or waits to be marked is reachable. Together they give `Completeness`.
`Bounded` needs neither: `SizesBounded` adds to the property that an allocation
past `DVM_check_gc` is not over the threshold. `Accounting` is about the sum of
charges over a finite set, which `Heap` computes by taking away one object after
the other: `TotalExists` (there is such a function) and `TotalStep` (the order
does not matter) are proved by taking the smallest set for which they fail.
`ChargesMatch` says that each type of object the program makes is refunded what
it was charged; the program of `heap_accounting` is such a one, and one with
class objects is not (section 3).

`Refinement` maps `inUse` to what the interpreter and native code can name.
Without `substr` this is the set of roots (`InUseIsRoots`); then the steps of
the machine are `Mutate`, `AllocObject` is `Allocate`, and a `GcSweep` of an
unmarked object is `Reclaim`, which `IInv` and `MarksExact` allow. An object that
was made inside an instruction is in use at once.

### Linker

Assumptions: `PackageAssumption`, `NameAssumption`, `DepthAssumption` and
`ProgramAssumption`, which only give the constants their types. Three conditions
on programs are hypotheses of theorems:

- `HeadersOrdered`: headers do not require each other in a circle. A header in a
  circle is linked before one that it requires.
- `FilesComplete`: an implementation file has a body for each function of its
  package that is neither native nor in the header. Without one, a call finds the
  file linked and the function without an executable.
- `ConstantsFirst`: a unit with constants of its own defines none twice, its
  methods read none, and its initializers, but for the last, read only constants
  that it defines before. The n-th initializer stores through the
  n-th index of the table, which is another one's if constants of others came in
  between.

| Theorem | States | Of |
|---|---|---|
| `InOrder` (`LinkerProofs`) | `LinkedInOrder` | every program |
| `Suppliers` (`LinkerProofs`) | `SuppliersFirst` | `HeadersOrdered` |
| `DefinitionRuns`, `DefinedOnce`, `FailsJustly`, `Types` (`LoadProofs`) | `RunsDefinition`, `OneDefinition`, `LoadFailsJustly`, `TypeOK` | `HeadersOrdered`, `FilesComplete` |
| `ConstantsInitialized` (`LoadProofs`) | `ConstantsReady` | the same and `ConstantsFirst` |

Of the 361 programs of `linker` all satisfy `FilesComplete` and `ConstantsFirst`,
and all but one `HeadersOrdered`: the header that requires itself, which ends in
a compile error.

`Order`, for the first theorem, says that what is linked is the front of the
list and that `linking` is its end, which is what `add_top` of
`dkc_dynamic_compile` relies on. `Supply` adds the state of the recursion of
`do_compile`: each compilation was required by the one beneath it (`Beneath`),
the headers gone through are in the list (`Passed`), a package with a compiler
has its header in the list or below (`KnownHeaders`), and the list is sorted
(`Sorted`). `HeadersOrdered` enters once: a header cannot be required while it
is being compiled.

`Loads` adds what the machine holds. `Entered`: the tables of the linked units
are in `functions`. `Homes`: each entry came with the header of its package, or
the main program, and carries the mark if that has the body. `Once` and
`Remembered`: no two linked units define the same function, and a function
with a linked body points to one. `Listed`, `HeadersEntered`, `Waiting`:
what is compiled belongs to the function that waits, and its header is there
already. `Running`: each activation belongs to a linked unit that has the
function. That an entry declared by the header keeps its mark when the
implementation brings the body (`implemented` is not updated) is harmless by
`Homes`: nobody else can bring a second body. For constants, `Valued` says that
the constants that linked units define have their values and keep them
(`Initializes`: what linking a unit does to the table).

`LinkerProofs` begins with the lemmas about the operators: what `Only` keeps, what
`Index` finds, that a table of functions or constants has the names the unit
declares and uses and no other, and that own constants come first
(`OwnConstantsFirst`): each turn of `fix_constant_list` extends the table (`Extends`),
and as long as initializers read what is there already it appends one constant of
the unit (`BeginsOwn`).

### ClassTables, Classes

Assumptions: `ProgramsAssumption` gives the programs their types: any number of
classes, interfaces and members, each class after those it extends, an interface
abstract, constructors without a result, and a body that returns an object
returns one of a class that is not abstract. All theorems have the hypothesis `OnlyRegular`, the
constant that makes `Start` stop the programs that are not `Regular` (section 3);
without it `NeverUndefined` and `Dispatch` are false (see the reasons there).

| Theorem | States | Of |
|---|---|---|
| `ClassInvariance` (`ClassProofs`) | the inductive invariant `Inv` | every set of programs, of which the regular ones run |
| `ClassDispatch`, `ClassCallsDefined` (`ClassProofs`) | `Dispatch`, `NeverUndefined` | the same |
| `ClassTypes`, `ClassViews`, `ClassFields`, `ClassCasts` (`ClassProofs`) | `TypeOK`, `ViewFits`, `FieldsAgree`, `CastsRight` | the same |

`ClassTableProofs` is about the tables. `Tables` is what holds after any number of
turns of the loops, one conjunct for each: `ChainOf`, `MembersOf`, `IndicesOf`,
`LoadedAs`; `Ready` is `Tables` at the end. From `Ready` follow, each by taking the
least class for which it fails, that supers are earlier classes and inherit
everything above them (`Hierarchy`); that `dkc_search_member` finds the nearest
declaration; that the compiler's field indices are exactly the places of the
loader's layout, those of the super first (`Laid`); and the same of methods and
the class table, whose slots moreover hold the implementation of the class
(`Slotted`). The last two need that the indices of a class begin behind the
largest of its supers: `get_super_field_method_count` takes a maximum, and
`add_fields` and `add_method` count, so that each says that there are as many
indices below as there are members. Of these only `Slotted` uses that the program is `Regular`.

`ClassProofs` is about running them. Its `Inv` says what holds of a program that has
started. `VariableOK`: the object is of a concrete class, has the fields creation
gave it (`InitialFields`), and its view is the table `Fits` asks for: the interface
of the static type in the list of the class, or the class table if the static type is
a class. `DelegateOK`: the index of a delegate finds a function (`Entered`).
`FramesOK`: each running method is `Runnable`, that is, its class is above the view,
the view above the object's class; if it calls something on `this` the view is the
whole object, and if on super the view is the class that declares it. That last
pair is what `ThisIsWhole` and `SuperIsNear` are for, and it is not implied by the
properties: `Dispatch` of the calls on super of a method is false without it.
`CallOfClass` and `CallOfInterface` say that a call through a view that `Fits` finds the
implementation; `ConvertFits` and `DownCastFits` that casts keep `Fits`; there is one lemma
`...Keeps` for each action.

### VMArray

Assumption: `ArrayAllocSizeAssumption` (it is positive). An array is `Whole` when
its elements are in its block, the block is at most `ARRAY_ALLOC_SIZE` larger,
and the heap is charged for all of it.

| Theorem | States | Of |
|---|---|---|
| `ArrayMethods` (`VMArrayProofs`) | a new array is whole; `size`, `insert`, `remove` and `add` do to a whole array what `MeantCall` does to its elements, raise for the indices it raises for, write inside the block and leave the array whole | all elements, indices and values, negative ones too |
| `ArrayResize` (`VMArrayProofs`) | `resize` does the same, or, if `TooLarge`, writes past its block | every size that is not negative |

`ArrayResize` gives the exact condition of the finding of `array_grow`: the
array grows past its block, to at most twice the block, by more than
`ARRAY_ALLOC_SIZE`, and the block is already larger than that. `insert` and
`add` grow by one, so that the condition never holds (`NewAllocFits`). The
lemmas `InsertedAt` and `RemovedAt` say where `InsertAt` and `RemoveAt` of the
community modules put each element; with them two sequences are compared place
by place (`SameSequence`).

### CallStack

Assumptions: `ProgramsAssumption`, `ArraysAssumption`, `DelegatesAssumption` (types;
the top level is a Diksam function without parameters and variables, and a native
function has no code and no variables), `StackAllocSizeAssumption` and
`ArrayAllocSizeAssumption` (sizes are positive). One condition is a hypothesis of
all theorems, `WellTyped` (`CallFits` has another one, `Fits`, explained below): in
the frame that runs, as the program means it, the next instruction finds its
operands, its variable exists, a call has its arguments and, where it is one of a
method or a delegate, an object or a delegate there is, a return has a value of
the type of the function, a called native function was registered without
`return_pointer`, and `resize` is not given a negative size. It speaks of `meant` and the code only,
not of the machine, and is what the checks of `fix_tree.c` are to give. The
programs of `calls` satisfy it in all their 129189 states: TLC finds no violation
when `WellTyped` is added to the invariants of a module that extends
`MCCallStack` and `CallStackProofs`, nor of `IInv` on 4087 states of 255 programs.

| Theorem | States | Of |
|---|---|---|
| `CallInvariance` (`CallStackProofs`) | `IInv` | programs that are `WellTyped` |
| `CallFrames` (`CallStackProofs`) | `FramesIntact` | the same |
| `CallFlags` (`CallStackProofs`) | `FlagsRight`, and the stack pointer in the block | the same |
| `CallArrays`, `CallBlocks` (`CallStackProofs`) | `ArraysAgree`, `BlockFits` | the same |
| `CallFits` (`CallStackProofs`) | `NeverOverrun` | the same that satisfy `Fits` |

`IInv` has three parts. `Types`: the block of the stack, as many flags as slots,
and the flag of each slot below the stack pointer tells whether it holds a
reference. `Frames`: `Layout`, the frames lie one after the other from slot 0 on,
have as many variables as their function says, and a native function is called
by one that is not; `Stored`, each frame is on the stack where it should be
(`Within`) with the call information of its caller (`Linked`); and `Activated`,
`native` has what the native functions saved, in their order. `ArraysRight`:
every array is `Whole` and has the elements that are meant.

A step changes the top of the stack only. `Kept` says that frames are not
disturbed by what is written above them, `FramePushed`, `FramesPopped` and
`FrameChanged` what becomes of `Layout` and `Stored` when a frame comes, goes or
is replaced, and the lemmas on `Activated` the same of the native functions.
`OperandsStep` is the instructions that push and pop, `FrameBegun` the entry of a
function, for `InvokeDiksam` and, twice, for `CallBack`; `ReturnsTo` is the
return, of one frame or, to a native function, of two. `CallWritten` and
`CallFlagged` follow the two writes of a call, information and local variables,
through the block and its flags. `InvokeArrayMethodKeeps` rests on `ArrayMethods`
and `ArrayResize`.

That the block is large enough is not part of `IInv`: a step that would write past
the end stops with `overrun`, and `NeverOverrun`, which excludes it, does not hold
of every program. `CallFits` proves it for those that satisfy `Fits` too, which has
three parts. `SmallFunctions`: the call information takes one slot or two (16 bytes
of `CallInfo` in 16 of `DVM_Value` where pointers have 8 bytes, 12 in 8 where
they have 4), and call information, local variables and pushed values of a function
are fewer than `STACK_ALLOC_SIZE` (4096). `dvm_expand_stack` adds by what is left
of the block and not by what is needed, but never less than `STACK_ALLOC_SIZE`
(`ExpansionEnough`): a larger function would not be given enough. `ResizeFits`: no
`resize` as in `array_grow`. `CallBackFits`: for a function that is called back
`dvm_expand_stack` would have nothing to do, which is what the code leaves out.
In the run `calls` the first two hold in all states. With the third as a
constraint on the steps 99080 of its states are left, among them callbacks, and
TLC finds the invariant of the proof in all of them.

That invariant, `Roomy`, adds `Room` to `IInv`. What a frame has pushed is at most
the number of pushing instructions before its `pc` (`Count`), so that with all of
them (`Need`) it stays within the block; a frame that waits for a call has one
value less, and gets the result. The last slot stays free, so that a native
function, for which nothing is expanded, has room for its call information.

### What is left to TLC

- Liveness (`AllocationEnds`, `LoadEnds`, `Terminates`), which is outside the
  proof system, with the `ENABLED` in it.
- Everything about exceptions and expressions: `TryCode`, `TryMeaning`,
  `ExprCode`, `ExprMeaning` and `Expr` have recursive operators over syntax
  trees, and an induction over a tree would need the library's induction
  theorems, which take an operator as parameter and cannot be instantiated.
  Inductions over numbers and sets are made by taking the
  least counterexample (`LeastElement`, `LeastSize`).
- `SuperEnds`, that a chain of calls on super does not come back to a method:
  for it the provers would need an order on the frames that calls on `this`
  preserve, and a program may well recurse on `this`.

## 5. Findings

- `native.c:866`: `substr` is registered with `return_pointer` false and its
  result is in no context: a collection frees it while it is an operand
  (`heap_substr`).
- `execute.c:584`: `throw_in_try` does not do what its comment says for an
  exception in a catch clause (`exceptions_catch`).
- `generate.c:1777`: the saved finally label is never restored
  (`exceptions_nested`).
- `fix_tree.c:22`: a method is looked up by its bare name in the function table
  (`linker_method`).
- `nativeif.c:160`: `resize_array` limits the growth of a block to
  `ARRAY_ALLOC_SIZE` even when more is asked for, and `DVM_array_resize` fills the
  array past its block: 600 elements resized to 1100 get 856 (`array_grow`).

Other places where the code looks wrong, but no text of the repository says what
is right, are hazards of `PROJECT.json` with a note, the exclusions of section
3, or one of these:

- `create.c:100`: the check for packages required twice (an error of
  `error_message_cl.c:37`) skips the last element: `require P; require P;` is
  accepted. Linking it is harmless.
- `fix_tree.c:3110`: the type of a constant is taken from its initializer before
  `fix_expression` has set it, and the null pointer is compared (`util_cl.c:103`);
  `Linker` takes both outcomes.
- `execute.c:1371`: `%` by zero divides without a check, although
  `error_message_cl.c:33` knows the error for `/`.
- `execute.c:733`: the three values saved around a callback are not restored but
  saved again; `DVM_invoke_delegate` returns an uninitialised value
  (`execute.c:1998`), and does not load a function that is not implemented.
- `util_vm.c:47`: `dvm_initialize_value` stops at an assertion for local
  variables, fields and statics of delegate, enumeration and native pointer type.
- `native.c:747`: the check of `substr` adds position and length, which may
  overflow; `resize` to a negative size is not checked at all.

## 6. Plan

In this order; every module with its runs, and the ones marked (P) with proofs.

1. `ObjectList` (P): `alloc_object` and `gc_sweep_objects` on the doubly linked
   list, implementing the set `live`.
2. `TypeCheck`: exception lists, scopes, finally checks.
3. Classes of several executables; enumerations.

## 7. Not modelled

Formatting, error texts and character conversion: no state, and no property
tells their outputs apart. The scanner and the parser: generated tables. The
constructors of `create.c` that only allocate and copy, `dispose.c`, the pages
of `storage.c`, and the list of blocks of `memory.c`: each is local to one call
and has no second actor. File and console I/O and the mathematical functions of
`native.c`: they call the C library with their arguments. Line numbers and stack
traces: they are read for messages only. Exception lists (`throws`) and the
scopes of declarations are planned. Files that the project file does not build
are older copies.
