------------------------------ MODULE PseudoCL ------------------------------
(***************************************************************************)
(* The registry of pseudo-buffers (lib/analyzer/core/pseudocl.cpp) under   *)
(* threads that create and release buffers and analyze kernels with them.  *)
(* memobjs is guarded by a mutex, the objects themselves are not: create   *)
(* allocates before it takes the mutex, release frees before it takes it,  *)
(* and an analysis (ast_visitor.cpp) asks is_valid and reads the size in   *)
(* two calls.  Each of these halves is an action.                          *)
(*                                                                         *)
(* The allocator is external: new gives any address nothing lives at, so   *)
(* an address is reused as soon as it is freed.  Real OpenCL buffers live  *)
(* in the same address space and go through the same analysis.             *)
(***************************************************************************)
EXTENDS Naturals

CONSTANTS
    Threads,
    Addresses,  \* where objects can live
    Sizes,      \* sizes of pseudo-buffers
    NoAddress   \* the nullptr of an idle thread

ASSUME PseudoCLAssumption ==
    /\ NoAddress \notin Addresses
    /\ Sizes \subseteq Nat

VARIABLES
    heap,     \* what lives at an address: nothing, a real buffer or a pseudo-buffer
    memobjs,  \* the registry
    held,     \* pseudo-buffers a client has, with the size it asked for
    pc,       \* what a thread is doing
    arg,      \* the handle it is doing it with
    verdict   \* what its analysis takes the handle for

vars == <<heap, memobjs, held, pc, arg, verdict>>

Nothing == [kind |-> "nothing", size |-> 0]
Real == [kind |-> "real", size |-> 0]
Pseudo(size) == [kind |-> "pseudo", size |-> size]

Objects == {Nothing, Real} \union {Pseudo(size) : size \in Sizes}
Verdicts == {[kind |-> "none", size |-> 0], Real} \union {Pseudo(size) : size \in {0} \union Sizes}
NoVerdict == [kind |-> "none", size |-> 0]

InUse(a) == \E t \in Threads : arg[t] = a /\ pc[t] \in {"asked", "valid"}

Init ==
    /\ heap = [a \in Addresses |-> Nothing]
    /\ memobjs = {}
    /\ held = {}
    /\ pc = [t \in Threads |-> "idle"]
    /\ arg = [t \in Threads |-> NoAddress]
    /\ verdict = [t \in Threads |-> NoVerdict]

Become(t, to, a) == pc' = [pc EXCEPT ![t] = to] /\ arg' = [arg EXCEPT ![t] = a]

\* pseudocl_create_buffer: new, then the guarded emplace.
Allocate(t) ==
    \E a \in Addresses, size \in Sizes :
        /\ pc[t] = "idle"
        /\ heap[a] = Nothing
        /\ heap' = [heap EXCEPT ![a] = Pseudo(size)]
        /\ Become(t, "allocated", a)
        /\ UNCHANGED <<memobjs, held, verdict>>

\* Mutant: the handle is forgotten before it is registered.
RegisterLate(t) ==
    /\ pc[t] = "allocated"
    /\ Become(t, "idle", NoAddress)
    /\ memobjs' = memobjs \union {arg'[t]}
    /\ held' = held \union {<<arg[t], heap[arg[t]].size>>}
    /\ UNCHANGED <<heap, verdict>>

Register(t) ==
    /\ pc[t] = "allocated"
    /\ memobjs' = memobjs \union {arg[t]}
    /\ held' = held \union {<<arg[t], heap[arg[t]].size>>}
    /\ Become(t, "idle", NoAddress)
    /\ UNCHANGED <<heap, verdict>>

\* pseudocl_release_mem_object, of a buffer no analysis uses: delete, then the
\* guarded erase.
Delete(t) ==
    \E h \in held :
        /\ pc[t] = "idle"
        /\ ~InUse(h[1])
        /\ heap' = [heap EXCEPT ![h[1]] = Nothing]
        /\ held' = held \ {h}
        /\ Become(t, "deleted", h[1])
        /\ UNCHANGED <<memobjs, verdict>>

\* Mutants: the object is deleted once more, or stays registered.
DeleteAgain(t) ==
    /\ pc[t] = "deleted"
    /\ heap' = [heap EXCEPT ![arg[t]] = Nothing]
    /\ memobjs' = memobjs \ {arg[t]}
    /\ Become(t, "idle", NoAddress)
    /\ UNCHANGED <<held, verdict>>

StayRegistered(t) ==
    /\ pc[t] = "deleted"
    /\ Become(t, "idle", NoAddress)
    /\ UNCHANGED <<heap, memobjs, held, verdict>>

Unregister(t) ==
    /\ pc[t] = "deleted"
    /\ memobjs' = memobjs \ {arg[t]}
    /\ Become(t, "idle", NoAddress)
    /\ UNCHANGED <<heap, held, verdict>>

\* An analysis gets a handle its caller has, of either sort.
Ask(t) ==
    \E a \in Addresses :
        /\ pc[t] = "idle"
        /\ heap[a].kind = "real" \/ \E h \in held : h[1] = a
        /\ Become(t, "asked", a)
        /\ verdict' = [verdict EXCEPT ![t] = NoVerdict]
        /\ UNCHANGED <<heap, memobjs, held>>

\* pseudocl_is_valid_mem_object; what is not registered is left to OpenCL.
IsValid(t) ==
    /\ pc[t] = "asked"
    /\ IF arg[t] \in memobjs
       THEN Become(t, "valid", arg[t]) /\ UNCHANGED verdict
       ELSE /\ Become(t, "idle", NoAddress)
            /\ verdict' = [verdict EXCEPT ![t] = Real]
    /\ UNCHANGED <<heap, memobjs, held>>

\* pseudocl_get_mem_object_size reads the object without the mutex.
GetSize(t) ==
    /\ pc[t] = "valid"
    /\ verdict' = [verdict EXCEPT ![t] = Pseudo(heap[arg[t]].size)]
    /\ Become(t, "idle", NoAddress)
    /\ UNCHANGED <<heap, memobjs, held>>

\* External: an OpenCL implementation creates and releases buffers of its own.
RealCreate ==
    \E a \in Addresses :
        /\ heap[a] = Nothing
        /\ heap' = [heap EXCEPT ![a] = Real]
        /\ UNCHANGED <<memobjs, held, pc, arg, verdict>>

RealRelease ==
    \E a \in Addresses :
        /\ heap[a] = Real
        /\ ~InUse(a)
        /\ heap' = [heap EXCEPT ![a] = Nothing]
        /\ UNCHANGED <<memobjs, held, pc, arg, verdict>>

ThreadStep(t) ==
    \/ Allocate(t) \/ Register(t)
    \/ Delete(t) \/ Unregister(t)
    \/ Ask(t) \/ IsValid(t) \/ GetSize(t)

Next == (\E t \in Threads : ThreadStep(t)) \/ RealCreate \/ RealRelease

Spec == Init /\ [][Next]_vars

(***************************************************************************)
(* Properties.                                                             *)
(***************************************************************************)
TypeOK ==
    /\ heap \in [Addresses -> Objects]
    /\ memobjs \subseteq Addresses
    /\ held \subseteq Addresses \X Sizes
    /\ pc \in [Threads -> {"idle", "allocated", "deleted", "asked", "valid"}]
    /\ arg \in [Threads -> Addresses \union {NoAddress}]
    /\ verdict \in [Threads -> Verdicts]

\* A thread is between the two halves of a release of the buffer at a.
Releasing(a) == \E t \in Threads : pc[t] = "deleted" /\ arg[t] = a

\* What a client has got from create and not released is a live object of the
\* size it asked for: the reuse of an address never hands one object out twice.
HeldIsLive ==
    /\ \A h \in held : heap[h[1]] = Pseudo(h[2])
    /\ \A g, h \in held : g[1] = h[1] => g = h

\* No address stays registered once its object is gone and the release is
\* over; otherwise the next real buffer there would be taken for a pseudo one.
NoneDangling == \A a \in memobjs : heap[a].kind = "pseudo" \/ Releasing(a)

\* An analysis takes every handle for what it is, a buffer a client has for a
\* pseudo-buffer and a real buffer for a real one.  README.md:53 lets the
\* arguments of an analysis be "either real CL buffers or [...]
\* pseudo-buffers", and the mutex is there for concurrent callers.
Recognized ==
    [][\A t \in Threads :
         (pc[t] \in {"asked", "valid"} /\ pc'[t] = "idle") =>
            verdict'[t].kind = heap[arg[t]].kind]_vars
=============================================================================
