--------------------------- MODULE PseudoCLProofs ---------------------------
(***************************************************************************)
(* The registry of pseudo-buffers for any number of threads, addresses and *)
(* sizes.                                                                  *)
(***************************************************************************)
EXTENDS PseudoCL, TLAPS

\* A thread between the two halves of a create or a release has an address.
BusyHasAddress == \A t \in Threads : pc[t] # "idle" => arg[t] \in Addresses

\* A buffer that is created and not yet registered is alive, has one creator
\* and is nobody's yet.
NotYetRegistered ==
    \A t \in Threads : pc[t] = "allocated" =>
        /\ \E size \in Sizes : heap[arg[t]] = Pseudo(size)
        /\ \A h \in held : h[1] # arg[t]
        /\ \A u \in Threads : pc[u] = "allocated" /\ arg[u] = arg[t] => u = t

Inv == TypeOK /\ BusyHasAddress /\ NotYetRegistered /\ HeldIsLive /\ NoneDangling

\* Pseudo-buffers are told apart from other objects and by their sizes.
LEMMA ObjectFacts ==
    /\ \A n : Pseudo(n).kind = "pseudo" /\ Pseudo(n) # Nothing /\ Pseudo(n) # Real
    /\ \A n : Pseudo(n).size = n
    /\ \A m, n : Pseudo(m) = Pseudo(n) => m = n
    /\ Real # Nothing /\ Nothing.kind # "pseudo" /\ Real.kind # "pseudo"
BY DEF Pseudo, Nothing, Real

\* What an action does to the state of its thread.
LEMMA BecomeFacts ==
    ASSUME TypeOK, NEW t \in Threads, NEW to, NEW a, Become(t, to, a)
    PROVE  /\ pc'[t] = to /\ arg'[t] = a
           /\ \A u \in Threads \ {t} : pc'[u] = pc[u] /\ arg'[u] = arg[u]
           /\ /\ to \in {"idle", "allocated", "deleted", "asked", "valid"}
              /\ a \in Addresses \union {NoAddress}
              => /\ pc' \in [Threads -> {"idle", "allocated", "deleted", "asked", "valid"}]
                 /\ arg' \in [Threads -> Addresses \union {NoAddress}]
BY DEF TypeOK, Become

LEMMA InitInv == Init => Inv
<1> SUFFICES ASSUME Init PROVE Inv
  OBVIOUS
<1>1. TypeOK
  BY DEF Init, TypeOK, Objects, Verdicts, NoVerdict
<1> QED BY <1>1 DEF Init, Inv, BusyHasAddress, NotYetRegistered, HeldIsLive, NoneDangling

\* The first half of a create: an address where nothing lives is neither a
\* client's nor another creator's.
LEMMA AllocateKeeps ==
    ASSUME Inv, NEW t \in Threads, Allocate(t)
    PROVE  Inv'
<1>1. PICK a \in Addresses, size \in Sizes :
        /\ pc[t] = "idle"
        /\ heap[a] = Nothing
        /\ heap' = [heap EXCEPT ![a] = Pseudo(size)]
        /\ Become(t, "allocated", a)
        /\ memobjs' = memobjs /\ held' = held /\ verdict' = verdict
  BY DEF Allocate
<1>2. /\ pc'[t] = "allocated" /\ arg'[t] = a
      /\ \A u \in Threads \ {t} : pc'[u] = pc[u] /\ arg'[u] = arg[u]
      /\ pc' \in [Threads -> {"idle", "allocated", "deleted", "asked", "valid"}]
      /\ arg' \in [Threads -> Addresses \union {NoAddress}]
  BY <1>1, BecomeFacts DEF Inv
<1>3. /\ heap'[a] = Pseudo(size)
      /\ \A c \in Addresses \ {a} : heap'[c] = heap[c]
  BY <1>1 DEF Inv, TypeOK
<1>4. TypeOK'
  BY <1>1, <1>2 DEF Inv, TypeOK, Objects
<1>5. BusyHasAddress'
  BY <1>2 DEF Inv, BusyHasAddress
<1>6. \A h \in held : h[1] # a /\ h[1] \in Addresses
  BY <1>1, ObjectFacts DEF Inv, TypeOK, HeldIsLive
<1>7. \A u \in Threads \ {t} : pc[u] = "allocated" => arg[u] # a /\ arg[u] \in Addresses
  BY <1>1, ObjectFacts DEF Inv, NotYetRegistered, BusyHasAddress
<1>8. NotYetRegistered'
  BY <1>1, <1>2, <1>3, <1>6, <1>7 DEF Inv, NotYetRegistered
<1>9. HeldIsLive'
  BY <1>1, <1>3, <1>6 DEF Inv, HeldIsLive
<1>10. NoneDangling'
  <2> SUFFICES ASSUME NEW c \in memobjs
               PROVE  heap'[c].kind = "pseudo" \/ Releasing(c)'
    BY <1>1 DEF NoneDangling
  <2>1. c \in Addresses
    BY DEF Inv, TypeOK
  <2>2. CASE c = a
    BY <2>2, <1>3, ObjectFacts
  <2>3. CASE c # a
    BY <2>1, <2>3, <1>1, <1>2, <1>3 DEF Inv, NoneDangling, Releasing
  <2> QED BY <2>2, <2>3
<1> QED BY <1>4, <1>5, <1>8, <1>9, <1>10 DEF Inv

\* The second half of a create.
LEMMA RegisterKeeps ==
    ASSUME Inv, NEW t \in Threads, Register(t)
    PROVE  Inv'
<1> DEFINE a == arg[t]
<1>1. /\ pc[t] = "allocated"
      /\ memobjs' = memobjs \union {a}
      /\ held' = held \union {<<a, heap[a].size>>}
      /\ Become(t, "idle", NoAddress)
      /\ heap' = heap /\ verdict' = verdict
  BY DEF Register
<1>2. /\ pc'[t] = "idle" /\ arg'[t] = NoAddress
      /\ \A u \in Threads \ {t} : pc'[u] = pc[u] /\ arg'[u] = arg[u]
      /\ pc' \in [Threads -> {"idle", "allocated", "deleted", "asked", "valid"}]
      /\ arg' \in [Threads -> Addresses \union {NoAddress}]
  BY <1>1, BecomeFacts DEF Inv
<1>3. PICK size \in Sizes : heap[a] = Pseudo(size)
  BY <1>1 DEF Inv, NotYetRegistered
<1>4. a \in Addresses /\ heap[a].size = size /\ \A h \in held : h[1] # a
  BY <1>1, <1>3, ObjectFacts DEF Inv, NotYetRegistered, BusyHasAddress
<1> HIDE DEF a
<1>5. TypeOK'
  BY <1>1, <1>2, <1>4 DEF Inv, TypeOK
<1>6. BusyHasAddress'
  BY <1>2 DEF Inv, BusyHasAddress
<1>7. NotYetRegistered'
  <2>1. \A u \in Threads \ {t} : pc[u] = "allocated" => arg[u] # a
    BY <1>1 DEF Inv, NotYetRegistered, a
  <2> QED BY <2>1, <1>1, <1>2, <1>4 DEF Inv, NotYetRegistered
<1>8. HeldIsLive'
  BY <1>1, <1>3, <1>4 DEF Inv, HeldIsLive
<1>9. NoneDangling'
  BY <1>1, <1>2, <1>3, ObjectFacts DEF Inv, NoneDangling, Releasing
<1> QED BY <1>5, <1>6, <1>7, <1>8, <1>9 DEF Inv

\* The first half of a release: no other client has the buffer.
LEMMA DeleteKeeps ==
    ASSUME Inv, NEW t \in Threads, Delete(t)
    PROVE  Inv'
<1>1. PICK h \in held :
        /\ pc[t] = "idle"
        /\ heap' = [heap EXCEPT ![h[1]] = Nothing]
        /\ held' = held \ {h}
        /\ Become(t, "deleted", h[1])
        /\ memobjs' = memobjs /\ verdict' = verdict
  BY DEF Delete
<1> DEFINE a == h[1]
<1>2. a \in Addresses
  BY DEF Inv, TypeOK
<1>3. /\ pc'[t] = "deleted" /\ arg'[t] = a
      /\ \A u \in Threads \ {t} : pc'[u] = pc[u] /\ arg'[u] = arg[u]
      /\ pc' \in [Threads -> {"idle", "allocated", "deleted", "asked", "valid"}]
      /\ arg' \in [Threads -> Addresses \union {NoAddress}]
  BY <1>1, <1>2, BecomeFacts DEF Inv
<1>4. \A c \in Addresses \ {a} : heap'[c] = heap[c]
  BY <1>1 DEF Inv, TypeOK
<1>5. \A g \in held \ {h} : g[1] # a /\ g[1] \in Addresses
  BY DEF Inv, HeldIsLive, TypeOK
<1>6. TypeOK'
  BY <1>1, <1>3 DEF Inv, TypeOK, Objects
<1> HIDE DEF a
<1>7. BusyHasAddress'
  BY <1>2, <1>3 DEF Inv, BusyHasAddress
<1>8. NotYetRegistered'
  <2>1. \A u \in Threads \ {t} : pc[u] = "allocated" => arg[u] # a /\ arg[u] \in Addresses
    BY DEF Inv, NotYetRegistered, BusyHasAddress, a
  <2> QED BY <2>1, <1>1, <1>3, <1>4 DEF Inv, NotYetRegistered
<1>9. HeldIsLive'
  BY <1>1, <1>4, <1>5 DEF Inv, HeldIsLive
<1>10. NoneDangling'
  <2> SUFFICES ASSUME NEW c \in memobjs
               PROVE  heap'[c].kind = "pseudo" \/ Releasing(c)'
    BY <1>1 DEF NoneDangling
  <2>1. c \in Addresses
    BY DEF Inv, TypeOK
  <2>2. CASE c = a
    BY <2>2, <1>3 DEF Releasing
  <2>3. CASE c # a
    BY <2>1, <2>3, <1>1, <1>3, <1>4 DEF Inv, NoneDangling, Releasing
  <2> QED BY <2>2, <2>3
<1> QED BY <1>6, <1>7, <1>8, <1>9, <1>10 DEF Inv

\* The second half of a release.
LEMMA UnregisterKeeps ==
    ASSUME Inv, NEW t \in Threads, Unregister(t)
    PROVE  Inv'
<1>1. /\ pc[t] = "deleted"
      /\ memobjs' = memobjs \ {arg[t]}
      /\ Become(t, "idle", NoAddress)
      /\ heap' = heap /\ held' = held /\ verdict' = verdict
  BY DEF Unregister
<1>2. /\ pc'[t] = "idle" /\ arg'[t] = NoAddress
      /\ \A u \in Threads \ {t} : pc'[u] = pc[u] /\ arg'[u] = arg[u]
      /\ pc' \in [Threads -> {"idle", "allocated", "deleted", "asked", "valid"}]
      /\ arg' \in [Threads -> Addresses \union {NoAddress}]
  BY <1>1, BecomeFacts DEF Inv
<1>3. TypeOK' /\ BusyHasAddress'
  BY <1>1, <1>2 DEF Inv, TypeOK, BusyHasAddress
<1>4. NotYetRegistered' /\ HeldIsLive'
  BY <1>1, <1>2 DEF Inv, NotYetRegistered, HeldIsLive
<1>5. NoneDangling'
  BY <1>1, <1>2 DEF Inv, NoneDangling, Releasing
<1> QED BY <1>3, <1>4, <1>5 DEF Inv

\* An analysis changes nothing but its own progress.
LEMMA AnalysisKeeps ==
    ASSUME Inv, NEW t \in Threads, Ask(t) \/ IsValid(t) \/ GetSize(t)
    PROVE  Inv'
<1>1. /\ heap' = heap /\ memobjs' = memobjs /\ held' = held
      /\ pc[t] \in {"idle", "asked", "valid"}
      /\ \E to \in {"idle", "asked", "valid"}, a \in Addresses \union {NoAddress} :
            /\ Become(t, to, a)
            /\ to # "idle" => a \in Addresses
      /\ verdict' \in [Threads -> Verdicts]
  <2>1. CASE Ask(t)
    BY <2>1 DEF Ask, Inv, TypeOK, Verdicts, NoVerdict
  <2>2. CASE IsValid(t)
    BY <2>2 DEF IsValid, Inv, TypeOK, BusyHasAddress, Verdicts
  <2>3. CASE GetSize(t)
    <3>1. arg[t] \in Addresses /\ heap[arg[t]] \in Objects
      BY <2>3 DEF GetSize, Inv, TypeOK, BusyHasAddress
    <3>2. heap[arg[t]].size \in {0} \union Sizes
      <4>1. ASSUME NEW o \in Objects PROVE o.size \in {0} \union Sizes
        <5>1. Nothing.size = 0 /\ Real.size = 0
          BY DEF Nothing, Real
        <5> QED BY <5>1, ObjectFacts DEF Objects
      <4> QED BY <3>1, <4>1
    <3>3. Pseudo(heap[arg[t]].size) \in Verdicts
      BY <3>2 DEF Verdicts
    <3> QED BY <2>3, <3>3 DEF GetSize, Inv, TypeOK
  <2> QED BY <2>1, <2>2, <2>3
<1>2. PICK to \in {"idle", "asked", "valid"}, a \in Addresses \union {NoAddress} :
        Become(t, to, a) /\ (to # "idle" => a \in Addresses)
  BY <1>1
<1>3. /\ pc'[t] = to /\ arg'[t] = a
      /\ \A u \in Threads \ {t} : pc'[u] = pc[u] /\ arg'[u] = arg[u]
      /\ pc' \in [Threads -> {"idle", "allocated", "deleted", "asked", "valid"}]
      /\ arg' \in [Threads -> Addresses \union {NoAddress}]
  BY <1>2, BecomeFacts DEF Inv
<1>4. TypeOK' /\ BusyHasAddress'
  BY <1>1, <1>2, <1>3 DEF Inv, TypeOK, BusyHasAddress
<1>5. NotYetRegistered' /\ HeldIsLive'
  BY <1>1, <1>3 DEF Inv, NotYetRegistered, HeldIsLive
<1>6. NoneDangling'
  BY <1>1, <1>3 DEF Inv, NoneDangling, Releasing
<1> QED BY <1>4, <1>5, <1>6 DEF Inv

\* A real buffer takes an address where nothing lives and gives it back.
LEMMA RealKeeps ==
    ASSUME Inv, RealCreate \/ RealRelease
    PROVE  Inv'
<1>1. PICK a \in Addresses, new \in {Nothing, Real} :
        /\ heap[a] \in {Nothing, Real}
        /\ heap' = [heap EXCEPT ![a] = new]
        /\ UNCHANGED <<memobjs, held, pc, arg, verdict>>
  BY DEF RealCreate, RealRelease
<1>2. heap[a].kind # "pseudo" /\ \A n : heap[a] # Pseudo(n)
  BY <1>1, ObjectFacts
<1>3. \A c \in Addresses \ {a} : heap'[c] = heap[c]
  BY <1>1 DEF Inv, TypeOK
<1>4. TypeOK' /\ BusyHasAddress'
  BY <1>1 DEF Inv, TypeOK, BusyHasAddress, Objects
<1>5. NotYetRegistered'
  BY <1>1, <1>2, <1>3 DEF Inv, NotYetRegistered, BusyHasAddress
<1>6. HeldIsLive'
  BY <1>1, <1>2, <1>3 DEF Inv, HeldIsLive, TypeOK
<1>7. NoneDangling'
  BY <1>1, <1>2, <1>3 DEF Inv, NoneDangling, Releasing, TypeOK
<1> QED BY <1>4, <1>5, <1>6, <1>7 DEF Inv

LEMMA InvInvariant == Spec => []Inv
<1>1. Inv /\ [Next]_vars => Inv'
  <2> SUFFICES ASSUME Inv, [Next]_vars PROVE Inv'
    OBVIOUS
  <2>1. CASE RealCreate \/ RealRelease
    BY <2>1, RealKeeps
  <2>2. CASE \E t \in Threads : ThreadStep(t)
    BY <2>2, AllocateKeeps, RegisterKeeps, DeleteKeeps, UnregisterKeeps, AnalysisKeeps
       DEF ThreadStep
  <2>3. CASE UNCHANGED vars
    BY <2>3 DEF vars, Inv, TypeOK, BusyHasAddress, NotYetRegistered, HeldIsLive,
                NoneDangling, Releasing
  <2> QED BY <2>1, <2>2, <2>3 DEF Next
<1> QED BY <1>1, InitInv, PTL DEF Spec

\* What a client has from create and has not released is alive, of its size
\* and nobody else's, whatever the threads do between the two halves of their
\* calls.
THEOREM HeldIsLiveCorrect == Spec => []HeldIsLive
<1>1. Inv => HeldIsLive
  BY DEF Inv
<1> QED BY <1>1, InvInvariant, PTL

\* The registry forgets every buffer that is gone, at the latest when its
\* release is over.
THEOREM NoneDanglingCorrect == Spec => []NoneDangling
<1>1. Inv => NoneDangling
  BY DEF Inv
<1> QED BY <1>1, InvInvariant, PTL

\* Every thread, object and handle is in one of the states it can be in.
THEOREM TypeCorrect == Spec => []TypeOK
<1>1. Inv => TypeOK
  BY DEF Inv
<1> QED BY <1>1, InvInvariant, PTL
=============================================================================
