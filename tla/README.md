# Verification of the OpenCL static analyzer

The analyzer parses an OpenCL kernel with clang, executes it symbolically and
asks the z3 solver whether a memory access can leave its buffer (bounds
checker) or clash with an access through another pointer although one of the
two is `restrict` (restrict checker). Everything it reports is a satisfiable
query. Two kinds of mistake therefore matter: equations or path conditions that
are too strong hide errors, silently and for good, and ones that are too weak
raise alarms about executions that do not exist. Both depend on long sequences
of forks, joins, assignments and early returns that the tests of the repository
(`src/test`, about forty small kernels) hardly reach. These modules check them.

## Inventory

| Component (`src/lib/analyzer/...`) | State | Operations | Module |
|---|---|---|---|
| Symbolic store `core/block.*` | a tree of blocks, each with an optional precondition, an assumption, versioned value references, the inner blocks not joined yet and the ids it has shadowed; the equations in the solver | `make_inner`, `join`, `write`, `value_decl`, `value_set`, `var_decl`, `var_set`, `assume`, `check`, `get_assumption`, `read` | Block, BlockClient, WorldStore |
| Optional value `core/optional_value.*` | a term or nothing, metadata (`base`, `size`) | construction, `set_metadata` | Block |
| Visitor, statements `core/ast_visitor.cpp` 41-394 | the C++ call stack, the current block, the reference of the returned value, the number of unknowns | `process_*_stmt` | Kernels, Visitor |
| Visitor, expressions `core/ast_visitor.cpp` 395-685 | as above, the depth of calls | `transform_*`, `assign`, `check_memory_access` | Visitor, Checkers |
| Kernel arguments, launch geometry `core/ast_visitor.cpp` 59-192, 687-768 | assumptions on the global block, the next free address; values and pointers with metadata | part of `VisitFunctionDecl`, the work-item functions | Launch, Checkers, PseudoCL |
| Checker base and checkers `core/abstract_checker.*`, `checkers/*` | the accesses and the writes seen so far | `check_memory_access` | Checkers |
| Pseudo-buffer registry `core/pseudocl.*` | a set of addresses behind a mutex, the heap | create, release, is_valid, get_size | PseudoCL |
| Command line tool `main.cpp` | the argument bytes, the pseudo-buffers it owns | parsing, analysis, clean-up | Launch |
| Frontend, AST consumer, C API `frontend/*`, `core/ast_consumer.*`, `c_api.*` | none that outlives a call | wiring | `analyze` is a step of Launch; otherwise not modelled |

How they interact: the frontend creates one solver, one block context, one
visitor and the checkers, and runs the visitor in one thread. The visitor calls
the store for every declaration, assignment, branch, loop iteration and return;
at every memory access it calls each checker with the current block; a checker
queries the solver under that block's path condition and gives a violation to
the caller's handler. The registry is the one piece of state that several
analyses in several threads share.

What is hard in each, and what makes it correct:

* **Store.** The tree shares one solver, and branches are kept apart only by
  block ids and versions in the names of constants and by path conditions inside
  the equations. It is correct if the equations never contradict each other
  (`Consistent`), if a call changes what is read only in worlds that reach its
  block (`Guarded`), if a join gives every world the values, and the
  metadata, of the branch it took (`JoinMerges`), and, taken together, if it is
  a store in which every world has values of its own (`Implements`).
* **Visitor.** Early returns in nested branches and loops turn into assumptions,
  loops are unwound and calls followed up to a limit, and conditions may have no
  representation. It
  is correct if what a statement sets can be found from the block the visitor is
  in (`SetFound`; otherwise the analysis ends with an exception), if at each
  statement the solver is asked about exactly the executions that are there
  (`Sound`, `Precise`), the store has their values (`StoreExact`), the returned
  value is right (`ReturnExact`), and the traversal ends (`Terminates`).
* **Checkers.** A query relates an access to metadata merged in other blocks and
  to accesses made long before, in blocks that have been joined since. They are
  correct if they report what happens in some execution and nothing else
  (`BoundsExact`, `BoundsReal`, `ClashReported`, `AnyClashReported`, `ClashReal`,
  `SilentWhenDead`).
* **Registry.** `create` allocates before it takes the mutex, `release` frees
  before it takes the mutex, and an analysis uses a handle in two calls. It is
  correct if clients own disjoint live objects (`HeldIsLive`), nothing stays
  registered without an object (`NoneDangling`), and every handle is taken for
  what it is (`Recognized`).

* **Launch.** The geometry becomes inequalities about integers, sizes that do not
  divide each other included; a number goes through a stream, bytes and the type
  of the parameter; main() owns buffers on every way out. It is correct if no work
  item is left out (`EveryWorkItem`; what is true of it: `FullGroupsSeen`,
  `LastGroupSeen`) and no group invented (`GroupsExact`), linear
  ids tell work items apart (`LinearIdsDiffer`), numbers get through
  (`ArgumentExact`), two arrays never overlap (`ArraysDisjoint`),
  the buffers live as long as the analysis and no longer (`BuffersKept`), and the
  tool ends (`Ends`), and not in a crash unless it was given what it cannot take
  (`CrashExplained`).

`PROJECT.json` lists the hazards at their lines, with the properties that would
notice each going wrong.

## Modules

```
Block ── BlockClient ── MCBlock
  │        └─ INSTANCE WorldStore (abstract)
  └── Kernels ── Visitor ── MCVisitor                (MCVisitor, MCCheckers
                   └────── Checkers ── MCCheckers     with MCKernels)
PseudoCL ── MCPseudoCL
Launch ── MCLaunch
```

and the modules of theorems, each extending the ones it cites:

```
Block ── BlockProofs ── JoinProofs                  the operators of the store
              │            ├── ClientProofs (with BlockClient)
              │            └── ExactProofs (with VisitorProofs) ── CheckerProofs
              └── VisitorProofs (with Checkers)
PseudoCL ── PseudoCLProofs
Launch ── LaunchProofs
```

### Block: the store as a data structure

z3 is external. A *world* is one valuation of everything the kernel does not
know (work item ids, memory contents, values without representation), and an
expression is represented by what it denotes: a boolean term by the set of worlds
it is true in, any other by a function from worlds to values. `Free` is the value
of a constant that no equation fixes. This keeps what z3 decides about (are two
terms equal, is a conjunction satisfiable) and drops the terms.

`Store` is a record: `blk`, the sequence of blocks (a block's id is its index),
and `eqs`, the equations. A value reference is a block and an id; its z3
constant is named, as `to_z3_expr` names it, by block, *source name*, facet and
version, and `NameOf` maps ids to source names, so two declarations of one name
can share a constant as they do in the program.

| Operator | Code |
|---|---|
| `Owner`, `Visible` | `get`, the walk to the root |
| `GetAssumptionUpTo`, `GetAssumption` | `get_assumption(until)`, `get_assumption()` |
| `GetAssignment`, `SetVersion`, `SetEquations`, `SetBlock`, `ValueSet`, `VarSet` | `value_set` with `get_assignment`: shadow in a block with a precondition, or next version of the same reference |
| `VarDecl`, `ValueDecl`, `Write` | `var_decl`, `value_decl`, `write` (a memory is one reference per sort) |
| `MakeInner`, `Assume` | `make_inner`, `assume` |
| `Takers`, `Merged`, `JoinedAssumption`, `Join` | `join`: if-then-else chains over the forks, implications of their assumptions |
| `Possible`, `Check` | the solver's `check` under a path condition |

`join` sets its merged values one after the other; none of them depends on
another, so `SetAll` sets all at once. Sets of ids replace the iteration order
of hash maps, which does not matter there.

### BlockClient: any client

State `s`, one action per operation of the interface, on any block, in any order
and with any payload. It makes only calls the interface allows: a variable is
set where it is visible and declared where neither an outer nor an inner block
has it. What holds here holds for every kernel and every traversal.

### WorldStore: what the store promises

The abstract specification has no versions, shadows or equations. Every block
has the worlds that get to it (`reach`), the worlds of its precondition
(`taken`), the branches it has not joined (`open`) and, for each variable in
scope, a value in every world that gets there (`view`). `Branch` copies the
parent's view, `Assume` removes worlds from a block and from blocks inside it,
`Set` changes one variable, `Join` takes each world's values from the branch it
took and removes the worlds the branch has ruled out. A block elsewhere in the
tree may share what is set (it does, if it reads the same reference) or keep its
own, but never reads anything else, and in worlds that do not reach the block
the call is made on it reads what it read before.

The refinement mapping is in BlockClient: `reach` is `get_assumption()` of each
block, `taken` and `open` are its precondition and its forks, and `view` is what
the solver makes of the reference that `get` finds. `Implements` says that every
behaviour of BlockClient is one of `WorldStore!Spec`.

### Kernels: what clang guarantees

A kernel is a sequence of statements, `Programs` holds the kernels and `Functions`
the bodies of what they call. clang is external; `WellFormed` is what the visitor
takes for granted of a source that clang has accepted: a variable is named only
where its declaration is in scope (`IsStatement`, `Declared`), calls pass
expressions to functions that have a body. Since functions may call each other in
circles, it cannot be defined from the leaves up, so it says that there is a set
of pieces of code, each with the variables in scope where it starts, that is
closed under "what runs next" and "what is nested in it" and has every kernel in
it with an empty scope. MCKernels computes the pieces of a kernel, and the MC modules
assume `InOrder` of those of their kernels and functions, so TLC checks that the theorems about
well-formed kernels are about the kernels it runs.

`PlainOrder` is the hypothesis of the theorems that say what the visitor *computes*
(see Proofs): on top of being well-formed, the kernel consists of declarations,
assignments, accesses, memory writes, `if`, `while` and returns, nested in any way, and
of buffers as arguments; what an
expression or a comparison reads is a variable in scope; a loop has a condition
with a representation; what is written to memory has a value; a return has none, as
a kernel of OpenCL returns void; and no variable is declared twice (`owns`).
What the checkers report takes more of a kernel. `BufferOrder`: each pointer that is
accessed points into one buffer, that of the argument or of the pointer it is
declared from; `+=` may move it there, `=` may not set it (finding 4). `Unmoved`: no
`restrict` pointer is set after its declaration. A fork that sets one gives it a
reference of the fork's own, which is what the restrict checker files the access
under; when the fork is joined that reference is no longer on the way of what
follows, and a later clash in the scope of the pointer goes unreported.
TLC evaluates all of it (`PlainKernelsInOrder`) on the kernels with branches
and with a `while` that the run `visitor` explores, and on the kernels with rows of
accesses, branches, a `while`, unknown indices and dead code of the run `checkers`:
the hypotheses of the theorems are met where TLC checks what they conclude.

### Visitor: the traversal of a kernel

The C++ recursion is `stack`, one frame per `process_*_stmt` call that has not
returned; `out` is the boolean the last one returned. Each action is the code
between two recursive calls: `If`, `Else`, `IfEnd`/`ElseEnd` are
`process_if_stmt` up to the first branch, between the branches and after the
last one; `Iterate`, `Exhausted`, `LimitReached`, `BodyReturned`,
`WhileBodyEnd`, `ForBodyEnd`, `EndlessReturned` are the parts of `process_while_stmt`
and `process_for_stmt`; `Do*` those of `process_do_stmt`.

`x = f(args)` is a statement of its own here. `Call` is `transform_call_expr` up
to the body of the function: an inner block of the *root*, in which the
parameters are declared and equal to their arguments, and a new reference for the
returned value. `CallEnd` is what follows the body, `CallTooDeep` the depth
limit. A parameter has one id, which the functions that call themselves declare
again in another block, as the code does with one declaration.

The kernel is *executed* next to it, in all worlds at once: `at` are the worlds
whose execution is where the visitor is, `mem` and `returned` what C makes of
memory and of the returned value, `cut` the worlds the visitor lost because they
need more iterations than the limit. A call beyond the depth limit has the value
`Free` in the execution too, which does not follow it. The execution never looks
at the store; the properties compare the two. In a function the solver also
considers executions that have not called it, since the caller's path condition
does not hold there (finding 8); `Precise` is about those that have (`Callers`).

### Checkers: what is reported

Extends Visitor with kernel arguments that are buffers (`Argument`), with arrays
that a kernel declares (`LocalArray`, which gets the next free addresses, `memptr`, each
time the visitor comes past the declaration) and with accesses (`Access`, `UncheckedAccess`). `accesses` is what the restrict checker
remembers, `reported` the checkers that reported something in this step. The
restrict checker's query has a model for every input that gets to the access,
and whether there is a clash is read off the model: `RestrictVerdict` is a
nondeterministic choice over the models. The execution has `object` (which
buffer a pointer points into; pointer arithmetic does not change it, although it
changes the address) and `made` (what each world has accessed). Functions are
called with two pointers; their parameters get no metadata, so every access
through them is reported as out of bounds (`BoundsReal`, finding 9), and `BoundsExact`
asks for no more than that nothing goes unreported there. For the same reason as `Precise`,
`ClashReported` and `SilentWhenDead` take every execution to have made the call.
An access at an index nothing is known of (a variable without a value, which the
solver is free to choose) has the address `Free`: it counts as out of bounds, since
it may be, but not as a clash, since two of them need not meet.

### PseudoCL: the registry under threads

`heap`, `memobjs` and the clients' handles, with `create`, `release` and the
lookup of an argument in two steps each, as the mutex divides them. The allocator and
OpenCL's own buffers are external: any free address may be used again at once.
`_pseudocl_mem` objects and `cl_mem` objects share the address space, as
`VisitFunctionDecl` casts one argument to both.

### Launch: from the command line to the kernel body

`pc` walks through main() and `VisitFunctionDecl`: `sizes` (77-84), `args` (103-144),
`dims` (59-119), `params` (121-191), `body`, and `exit` or `crash`. One action is
one turn of a loop: an argument (`Unknown`, `Buffer`, `Integer`, `BadArg`,
`BufferTooLarge`), a dimension (`Dimension`, `DivisionByZero`), a parameter
(`Pointer`, `Number`, `LeftUnknown`, `NotABuffer`, `ElementSizeZero`).

The assumptions of a dimension are the set of *views* that satisfy them, a view
being a value for each of the eight constants the code declares. `Sees` is
`get_dim_value`: the views of a dimension, the defaults beyond the last one, and any
values at all (`AnyView`) if the dimension asked for has no representation, since the
code builds a condition for that case and does not assume it. `WorkItem` is OpenCL's
definition of what a work item sees. `FullGroupsSeen` has those of full groups among the
views with all that they see. For those of a smaller last group the number of groups
is wrong (`EveryWorkItem`, finding 13), and, where no local size is given, the enqueued
size is taken for that of the group; `LastGroupSeen` claims their ids and the size of
their group. `GroupsExact` is the converse for sizes that divide.
A number is parsed as a stream does it (`Parse`: clamped when out of range, a
negative unsigned number wrapped, a character for 8 bits), put into bytes
(`Bytes`) and read with the type of the parameter (`Reinterpret`). What a pointer
parameter does with bytes that are no pseudo-buffer is up to OpenCL: an error or
a crash (`NotABuffer`).

## Runs

| Run | Checks | States | Shows |
|---|---|---|---|
| `block` | `TypeOK`, `Consistent`, `Guarded`, `JoinMerges`, `Implements` | 82k | no sequence of calls rules out an input, leaks out of its branch or loses a branch at a join, for a variable with metadata and a memory, with assumptions moved up by joins; the store implements WorldStore |
| `visitor` | `TypeOK`, `SetFound`, `Sound`, `Precise`, `StoreExact`, `ReturnExact`, `Terminates` | 45k | pairs of nested conditionals, loops of all sorts alone and in a branch or a loop, early returns, returned values, calls in rows, branches and loops, recursion, and loops and recursion without end |
| `checkers` | `CheckTypeOK`, `BoundsExact`, `ClashReported`, `SilentWhenDead` | 46k | accesses through aliasing pointers and arrays in rows, branches, loops, functions and dead code, some at an unknown index |
| `pseudocl` | `TypeOK`, `HeldIsLive`, `NoneDangling` | 16k | two threads, addresses reused at once |
| `launch` | `TypeOK`, `FullGroupsSeen`, `LastGroupSeen`, `GroupsExact`, `LinearIdsDiffer`, `ArgumentExact`, `CrashExplained`, `ArraysDisjoint`, `BuffersKept`, `Ends` | 22k | geometries, numbers and rows of buffers, down to the kernel body |
| `visitor_unreachable` | `Sound` violated | | findings 1, 2 |
| `visitor_left_loop` | `StoreExact` violated | | findings 3, 7 |
| `bounds_false` | `BoundsReal` violated | | findings 4, 8, 9 |
| `clash_false` | `ClashReal` violated | | findings 5, 10 |
| `clash_missed` | `AnyClashReported` violated | | findings 11, 12 |
| `pseudocl_race` | `Recognized` violated | | finding 6 |
| `launch_last_group` | `EveryWorkItem` violated | | finding 13 |

A run that shows several findings starts from one kernel for each
(`Unreachable`, `LeftLoop`, `FalseBounds`, `FalseClash`, `MissedClash` in the MC modules are their
unions). TLC stops at the first counterexample; with `Programs` set to one of the kernels
in the configuration it gives that of each of them.

Each property of a passing run has a mutant in its module, a plausible mistake
in one mapped definition, with which TLC finds the property violated.

### Bounds

* **Store**: two worlds (a branch that one takes and the other does not), two
  values, up to three blocks (`MaxBlocks`: a block with two forks, or three
  nested ones), calls that set a value only while there are fewer than
  `MaxEquations = 2` equations, and calls that assume something only while fewer
  than `MaxAssumptions = 1` blocks have an assumption. Joins have no bound, and
  move assumptions to further blocks. A reference needs two
  sets to get a version wrong and two blocks to get a shadow wrong. That nothing
  new comes with more blocks, values or worlds is not left to the bounds: all
  properties of the run are proved for stores of any size.
* **Visitor**: three work items and two unknown truth values, 12 worlds; `Limit = 3`, so
  loops end before, at and after the limit (`Const(5)`); two conditionals or
  loops in sequence, nesting up to three; `DepthLimit = 2`, so that a function
  calls another one, and recursion is cut off; at most four calls of functions that
  are followed (`Rets`, a guard of `Call`) and two conditions without
  representation (`Opaque`, a guard of `CountUnknown`). `Vals` is all integers, of
  which the kernels use a few.
* **Checkers**: three work items and one unknown truth value; two adjacent buffers of two
  elements, so that the address past the end of one is the first of the other, and
  arrays of none to three elements that follow them;
  two restrict and two other pointers, and a parameter of each sort.
* **PseudoCL**: two threads, two addresses, two sizes: one thread can reuse the
  address another is still releasing. The theorems have no such bound.
* **Launch**: up to five work items in groups of zero to six, two dimensions of up
  to three, three of two, one or two, and three: sizes that divide each other, that
  do not, and that are larger than what they should divide. Integers of 1, 2, 4 and
  8 bytes have 8, 9, 10 and 11 bits instead of 8, 16, 32 and 64: each still is
  narrower than the next, which is what conversions depend on, and `Numbers` holds the
  limits of each and what is just beyond them. `SizeLimit` stands for 2^64 - 1, and
  three buffers of any size but the one that is too large still fit. Up to three
  arguments; the theorems have no bound.

### What the passing kernels leave out

The families are families of what the visitor handles. Known not to hold, or not
expressible, and therefore kept out of the passing runs:

* a do loop that some executions leave before the second iteration, a branch
  with a conditional return before another return of a value, an inner
  declaration with the name of an outer variable that its branch has set, an
  assigned pointer (all shown by violation runs);
* a `for` statement that counts with a variable declared outside it: the
  increment is processed without the condition of the loop, as the do loop's
  body is;
* a `for` statement whose condition an execution that has left can satisfy again
  after further increments, as `i != n`: it enters the body again (finding 7);
* a loop with a condition that has no representation: it is a new unknown in each
  iteration, and executions that have left may be considered again;
* a restrict pointer that is set and used in a branch: there it is another
  variable for the restrict checker, with the scope of the branch (findings 10, 11);
* a function with a prototype before its definition: the call declares the parameters of
  the prototype and processes the body of the definition, which has others, and setting
  one throws (block.cpp:255);
* a function called in a branch that writes memory: it writes for executions in
  which it is not called, too, since its block is below the root;
* conditions with side effects or memory accesses, `break`, `continue`, `goto`, `switch`
  and `?:`, which the visitor does not know as control flow;
* reads of variables that have no value yet.

### Fairness and deadlock

`Visitor!Spec` has weak fairness of `Next`: the traversal is one thread that nothing
waits for, and it runs until `stack` is empty. It is written out in `Fairness`,
with `stack # <<>>` in place of `ENABLED`, which TLC would compute from all of
`Next` in every state; that an action is enabled as long as there is a frame is
what the check for deadlock shows. That the solver answers is part of the
assumption; `Exhausted` is what happens when it answers "unsatisfiable".
`Launch!Spec` has `WF_vars(Next)` for the same reason. Only `Terminates` and `Ends`
use fairness. Visitor, Checkers and Launch have a step for what is over (`Done`,
`Stopped`) and are checked for deadlock, as is the registry, which never has to
stop. BlockClient stops at its bounds, hence `CHECK_DEADLOCK FALSE`.

## Findings

1. `process_return_stmt` sets the reference it was given, not the one its block
   shadows: two returns in a branch, the first conditional, give one constant
   two values; for the inputs that take the conditional return every later query is
   unsatisfiable
   (`visitor_unreachable`, ast_visitor.cpp:343).
2. A constant is named by block and source name. A variable declared in a branch
   and an outer one of that name which the branch has set are one constant, and
   the branch becomes unreachable (`visitor_unreachable`, block.cpp:48).
3. Iterations of a do loop have no precondition, so a second iteration changes
   the variables of executions that have left (`visitor_left_loop`,
   ast_visitor.cpp:266).
4. `p = q` erases the metadata of `q`, because it is taken from the left operand,
   which is not looked at. Every access through `p` is then out of bounds; if the
   assignment is in a branch, the join keeps the old buffer instead
   (`bounds_false`, ast_visitor.cpp:519, block.cpp:100).
5. The restrict checker uses the path condition of the block that declares the
   earlier pointer instead of the earlier access's: exclusive branches clash
   (`clash_false`, restrict_checker.cpp:51).
6. `release` frees a pseudo-buffer before it is unregistered: a real buffer at the
   address is taken for a pseudo-buffer, or a new pseudo-buffer there is
   forgotten (`pseudocl_race`, pseudocl.cpp:34).
7. The increment of a `for` statement is processed without the condition of the loop:
   the counter goes on for executions that have left, and with a condition like `i != n`
   they enter the body again (`visitor_left_loop`, ast_visitor.cpp:313).
8. The block of a function is below the root: queries made in it cover inputs that
   never call it (`bounds_false`, ast_visitor.cpp:560).
9. A parameter of a function gets the value of its argument without base and size, and
   every access through it is reported (`bounds_false`, ast_visitor.cpp:565).
10. The restrict checker takes a pointer that a branch has set for another one, with
    which the pointer outside clashes (`clash_false`, restrict_checker.cpp:45),
11. and forgets accesses through it when the branch is joined (`clash_missed`,
    restrict_checker.cpp:49).
12. The restrict checker does not ask for a clash but reads it off whichever model of
    the path the solver gives. A clash on one of two paths, as in
    `test_violation_conditional`, is reported if that model happens to take it
    (`clash_missed`, restrict_checker.cpp:81).
13. The number of groups is computed from the size of the work item's own group. Where
    that is a smaller last one, no view has the right number: 5 work items in groups
    of 2 (`launch_last_group`, ast_visitor.cpp:102).

Met on the way and modelled, without a run of their own: the argument `5i8` is 53, the code
of its first character, as `operator>>` reads a character for types of 8 bits (main.cpp:68,
`Parse`); an argument of another size than the parameter is skipped, so that `--arg 5`, which is
64 bits, leaves an `int` unknown (ast_visitor.cpp:129, `LeftUnknown`); a buffer for a `void*`
is divided into elements of size zero (144, `ElementSizeZero`), and a local size of zero and a
huge buffer end in a crash, too (68, main.cpp:109); an access at an address without representation is
not checked (431, `UncheckedAccess`); a work-item function whose argument has no representation is
unconstrained, because a condition is built and not assumed (691, `AnyView`). One buffer
given to two parameters is two arrays (145).

## Proofs

TLAPS checks, for all values of the constants:

* `ClientProofs!TypeCorrect`: `Spec => []TypeOK`, from `ConstantsAssumption` and
  `ClientAssumption` alone.
* `ClientProofs!ConsistentCorrect`: if different ids have different names
  (`DistinctNames`; finding 2 is what happens otherwise), `Spec => []Consistent`:
  no sequence of calls on a tree of any size ever contradicts itself.
  `Consistent` is not inductive. The inductive invariant adds the store's type;
  that ids grow from the root down and forks lie right below their block (`Tree`);
  that what a fork has shadowed is visible in the block that joins it
  (`ShadowsVisible`, without which a join might look up nothing); that every
  equation is about a reference that exists, in a version it has had (`Fresh`);
  and that no constant has two equations (`Single`). `Fresh` is what makes a set
  add an equation about a *new* constant: either the next version, or version 0 of
  a reference the block did not own. `Single` implies `Consistent`.
* `ClientProofs!GuardedCorrect`: with `DistinctNames`, `Spec => Guarded`: a call on a
  block changes what any block reads only in worlds that reach the block it is
  made on. The invariant adds to the one above that the path of a block holds the
  paths of the blocks on it (`Nested`). A world `w` that reaches block `c` and not
  `b` then fails a condition of a block that is on `b`'s path and not on `c`'s
  (`Outside`). So `b` is not on `c`'s path, the owners `c` finds do not change, and
  either the owner's constant is the old one, about which no new equation speaks, or
  it is the next version set from `b`, where `w` is outside the assumption up to the
  owner and the new constant equals the previous one.
* `ClientProofs!JoinMergesCorrect`: with `DistinctNames`, `Spec => JoinMerges`, for
  every facet, any number of forks and trees of any size. The invariant adds
  `Joinable`: an equation is about a facet its reference has (`Faceted`); a block
  that owns a reference it has not shadowed hides none of its ancestors'
  (`Unhidden`); below the root a memory is always a shadow (`Shadowed`); a block
  without a precondition is entered by every world and shadows nothing (`Entered`,
  otherwise a join would lose what it has set); forks come after their block
  (`Later`). `JoinReads` then says what the if-then-else chain of the join is in a
  world: the value of some fork that takes it, or the old value where there is none.
  `ForkReads` says that a fork that has not shadowed a reference reads what its
  block reads.
* `ClientProofs!ImplementsCorrect`: with `DistinctNames`, `Spec => Implements`. Under
  the mapping of BlockClient each call is a step of WorldStore or a stutter:
  `make_inner` is `Branch`, `assume` is `Assume` (`Narrows`: reach shrinks in the
  block and in those below it and no view changes otherwise), a declaration, a set
  and a write are `Set`, and a join is `Join`. For the last two the
  point is `Settled`: in a world that reaches it, any block of the tree reads what
  it read before, or what the block of the call now reads, and the latter only of
  what was set and in worlds that reached that block. It rests on the invariant of `JoinMergesCorrect` and on `Guarded`'s argument for the
  worlds that do not reach the block.
* `VisitorProofs!TypeCorrect`, `SetFoundCorrect` and `CheckTypeCorrect`: for all kernels that
  clang accepts (`WellFormed`), recursive ones included, and all limits, `TypeOK`
  and `SetFound` of `Visitor!Spec`, and `CheckTypeOK` of `CheckSpec`. The values are
  z3's integers (`IntegerTerms`: a pointer that is moved must have a value, which it
  need not in a bounded set). `SetFound` is about the statement the visitor is at
  and says nothing about what will be set later, in frames further out. The
  invariant does (`Placed`): *every* frame on the stack belongs to a block that
  exists and leads on to a piece of code all of whose variables in scope are
  visible there, with the statements, increments and results of calls that are
  still to come. `Typed` adds the types, `Checked` what checkers and buffers
  add to them. Every step keeps it because the store only grows (`Grows` in
  BlockProofs): no operation takes a variable or a block away, so a frame
  that waits finds later what it could find when it was left.
* `ExactProofs!PlainSound`, `PlainPrecise` and `PlainStoreExact`: for all plain kernels, all
  limits, any number of inputs and any truths of the conditions without a
  representation, `Sound`, `Precise` and `StoreExact` of `Visitor!Spec`: the queries
  made at a statement are about exactly the executions that get there (but for
  those the limit has cut off), with the values they have. From `IntegerTerms` and
  `DistinctNames` (finding 2 is a kernel without). The properties speak of the
  statement the visitor is at; what makes them inductive is what the frames further
  out will find when they go on. `Lockstep` says it: the block of the innermost
  statement matches the executions there (`Matches`: `Covers` their inputs, `Exact`
  on the variables in sight and on memory), and of every other frame
    - that the fork it waits for is the only one that is open (`WaitsOne`), or the
      second of two (`WaitsTwo`), with the condition of the frame as its precondition;
    - that the executions that stay away (`Side`: those that take the other branch,
      or have left the loop) are those its block covers outside of that condition,
      and that the block is exact on them; for a finished first branch, that its fork is;
    - that executions which have left a loop do not meet its condition again: it
      reads variables of the loop's block, which only change for those that iterate;
    - that what it is still to declare is seen nowhere below its block (`Clear`), so a
      declaration never hides a variable.
  Each action is shown to keep it from what its calls on the store do (`Opened`,
  `Joined`, `Assumed`, `Gives`), and what these leave of blocks elsewhere (`Within`).
  These rest on `JoinReads`, `Untouched` and the invariant of
  `JoinMergesCorrect`.
* `CheckerProofs!PlainSilentWhenDead`, `PlainBoundsExact` and `PlainClashReported`: for
  the same kernels with buffers and accesses, all limits, and any sizes, addresses and
  indices, what the checkers report. An argument and an access are shown to keep
  `Lockstep`, so that at an access the query is again about exactly the executions
  there.
    - `SilentWhenDead` follows: the query has no model where no execution gets.
    - `BoundsExact`, if the pointers stay in their buffers (`BufferOrder`). The invariant
      adds that *every* block that sees a pointer finds the base and the size of its
      buffer (`PointsTo`), which each operation of the store keeps: a set
      because the pointer's new version gets the metadata of one in the same buffer,
      a join because all the branches it merges have it. The execution's pointer is
      in that buffer (`ObjectOk`), and `AddressExact` has the address of the query be
      that of the execution, so `BoundsAgree`: an execution there is in the query if and
      only if it is out of bounds.
    - `ClashReported`, if restrict pointers are not moved (`Unmoved`). Such a pointer has
      one reference wherever it is seen (`Alone`: forks shadow only what they set, and
      joins set only what a fork has shadowed), and so what the checker files an access
      under is the pointer the execution has used (`MadeOk`). An access is judged by
      the condition of the block it was made in, long after that block has been
      joined; joins add assumptions to it, and an execution that has come through must
      still satisfy them. `Alive` says that it does: every execution that is followed
      (`Active`: where the visitor is, or waiting on the stack) still gets to the
      blocks of all the accesses it has made. No step follows an execution
      again that it has given up (`ActiveShrinks`), and none takes an active one away
      from a block (`ReachKept`; at a join, because those that wait
      elsewhere do not get to the block, `CallerApart`, and `Lockstep` after the step has
      the others in it). A clash in the execution is then among the candidates
      of the query (`ClashAsked`), in whatever model the solver finds.
* `PseudoCLProofs!TypeCorrect`, `HeldIsLiveCorrect`, `NoneDanglingCorrect`, for any number of
  threads, addresses and sizes, from `PseudoCLAssumption`. The invariant adds
  that a thread between the two halves of an operation has an address
  (`BusyHasAddress`) and that a buffer which is allocated and not registered yet
  belongs to one thread and no client (`NotYetRegistered`): without it, `Register`
  might hand out an object somebody has.
* `LaunchProofs`, for all command lines, numbers of dimensions, sizes, widths of integers
  and numbers of parameters, from `LaunchAssumption` (an integer type has an even
  number of values; what main() cannot parse is `bad`, ...): `TypeCorrect`,
  `BuffersKeptCorrect`, `ArgumentExactCorrect`, `FullGroupsSeenCorrect`,
  `LastGroupSeenCorrect`, `GroupsExactCorrect`, `LinearIdsDifferCorrect`, and, if the buffers of a launch have room below 2^64
  (`BuffersFit`), `ArraysDisjointCorrect`. None of the properties says what the steps
  before the last one have left, so the invariant does: how far the program has got
  (`Progress`), that each argument is what the stream makes of it (`ArgsParsed`) and each
  parameter what its type makes of the bytes (`ParamsRead`), that the views of a
  dimension are those of *its* sizes (`DimensionsAssumed`), that main() owns what it has
  parsed (`Owned`), and that arrays lie below the next address, which has not
  wrapped (`ArraysBelow`, `Room`). Then an argument of the parameter's size arrives exactly because remainder
  and `Reinterpret` undo each other on what both types hold (`RoundTrip`); a work item
  of a full group is not overlooked because its group, its local id and the number of groups satisfy the
  inequalities (`ItemFacts`, `GroupCount`, `ItemAssumed`); and only real groups remain
  because n with `g - l < n * l < g + l` is the quotient if there is one. Linear ids
  are numbers in a mixed radix. The recursive functions `LinearId` adds up are
  first shown to exist and to satisfy their equations, by a least counterexample
  (the library's induction theorems cannot be instantiated); what the
  dimensions up to d add up to is less than the stride of dimension d + 1
  (`UpToBelow`), so the last dimension in which two ids differ decides.

Only model-checked: `Sound`, `Precise`, `StoreExact` and the verdicts of the checkers for
kernels with `for`, `do` or calls; `ReturnExact`, which is about calls and is false of
others than those in `visitor` (finding 1); accesses to arrays that a kernel declares
(`LocalArray` is covered by the type theorem only); `CrashExplained`; and, because liveness under fairness is
out of the prover's reach, `Terminates` and `Ends`. All of them are true of the
families of kernels in `visitor` and `checkers` and false of others (findings 1 to 5
and 7 to 12), so a theorem needs hypotheses about the kernels;
`Plan` says which.
That a recursive definition of the MC modules (`PiecesOf`) computes what it
should is checked on the kernels it is used for.

## Not modelled

* z3's own answers `unknown` and its arithmetic, sorts and casts (`to_bool`,
  `to_numeral`, bit-vector conversions): an expression is what it denotes.
* Addresses inside a memory: `read` and `write` with `array_values` treat a memory as one
  value. `array_values` is off by default; the buffers and arrays it fills with zeros are
  not filled in `Argument`, `LocalArray` or `Pointer`.
* Calls inside larger expressions, and of functions without a body (they have no
  representation, as `Nothing` in the kernels).
* The set-up of clang, the AST consumer and the C API: wiring without state.
  `abstract_checker`'s search for the pointer in an expression: an access names its
  pointer.
* The text of violations; of the restrict checker also which of the candidates
  the message names (the code names the last one, restrict_checker.cpp:78).
* LLVM's command line parser. `Body` of Launch is the whole traversal of Visitor
  and Checkers in one step: they share nothing but the values Launch has computed.

## Plan

All modules above and their proofs are done. What is left is proof, in this order:

1. `PlainSound` and its like for `for` statements that declare their counter, compare
   it by < and only increase it. The loop has a block of its own, whose counter is
   no longer right for executions that have left: the frame is exact on them in
   what is known around the loop only, and the condition stays false because the
   counter only grows.
2. For calls: the function's block is below the root, so the frames of the caller
   are not on its way, and `Precise` is about the callers.
