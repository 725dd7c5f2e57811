--------------------------- MODULE HostCallsProofs --------------------------
(***************************************************************************)
(* What crosses the boundary of a call, proved for every module of         *)
(* bytecode functions with any signatures, any arguments and any number    *)
(* of stubs: a stub's function starts with the arguments its C++ caller    *)
(* passed, and the caller finds its result.  The proofs do not use the     *)
(* alignment of the frame, because of which x86_64 gets no further than    *)
(* AdapterEntry.                                                           *)
(***************************************************************************)
EXTENDS HostCalls, FiniteSetTheorems, SequenceTheorems, TLAPS

-----------------------------------------------------------------------------
(* The calling convention. *)

\* The arguments of k's class up to k.
ClassUpTo(kinds, k) ==
    {j \in 1 .. k : (kinds[j] \in FloatKinds) = (kinds[k] \in FloatKinds)}

LEMMA ClassFinite ==
    ASSUME NEW kinds, NEW k \in Nat \ {0}
    PROVE  /\ IsFiniteSet(ClassUpTo(kinds, k))
           /\ k \in ClassUpTo(kinds, k)
           /\ RankOf(kinds, k) = Cardinality(ClassUpTo(kinds, k))
<1>1. IsFiniteSet(1 .. k)
  BY FS_Interval
<1>2. ClassUpTo(kinds, k) \in SUBSET (1 .. k)
  BY DEF ClassUpTo
<1>3. k \in ClassUpTo(kinds, k)
  BY DEF ClassUpTo
<1>4. RankOf(kinds, k) = Cardinality(ClassUpTo(kinds, k))
  BY DEF RankOf, ClassUpTo
<1> QED BY <1>1, <1>2, <1>3, <1>4, FS_Subset

\* Registers are counted from 1.
LEMMA RankIsPositive ==
    ASSUME NEW kinds, NEW k \in Nat \ {0}
    PROVE  RankOf(kinds, k) \in Nat \ {0}
<1>1. Cardinality(ClassUpTo(kinds, k)) \in Nat
  BY ClassFinite, FS_CardinalityType
<1>2. Cardinality(ClassUpTo(kinds, k)) # 0
  BY ClassFinite, FS_EmptySet
<1> QED BY <1>1, <1>2, ClassFinite

\* A later argument of the same class has a higher rank.
LEMMA RankGrows ==
    ASSUME NEW kinds, NEW i \in Nat \ {0}, NEW k \in Nat \ {0}, i < k,
           (kinds[i] \in FloatKinds) = (kinds[k] \in FloatKinds)
    PROVE  RankOf(kinds, i) # RankOf(kinds, k)
<1>1. ClassUpTo(kinds, i) \in SUBSET ClassUpTo(kinds, k)
  BY DEF ClassUpTo
<1>2. k \notin ClassUpTo(kinds, i)
  BY DEF ClassUpTo
<1>3. ClassUpTo(kinds, i) # ClassUpTo(kinds, k)
  BY <1>2, ClassFinite
<1> QED BY <1>1, <1>3, ClassFinite, FS_Subset

\* No two arguments share a register.
LEMMA RegistersDiffer ==
    ASSUME NEW kinds, NEW i \in Nat \ {0}, NEW k \in Nat \ {0},
           (kinds[i] \in FloatKinds) = (kinds[k] \in FloatKinds),
           RankOf(kinds, i) = RankOf(kinds, k)
    PROVE  i = k
<1>1. ~ i < k
  BY RankGrows
<1>2. ~ k < i
  BY RankGrows
<1> QED BY <1>1, <1>2

\* The register of an argument's rank holds it.
LEMMA ArgumentInItsRegister ==
    ASSUME NEW kinds, NEW args, NEW n \in Nat, DOMAIN args = 1 .. n,
           NEW k \in 1 .. n, NEW float \in BOOLEAN, kinds[k] \in FloatKinds <=> float,
           NEW size \in Nat, RankOf(kinds, k) <= size
    PROVE  RegisterFile(kinds, args, float, size)[RankOf(kinds, k)] = args[k]
<1> DEFINE r == RankOf(kinds, k)
           Held(i) == i \in DOMAIN args /\ (kinds[i] \in FloatKinds) = float /\ RankOf(kinds, i) = r
           held == CHOOSE i \in DOMAIN args : (kinds[i] \in FloatKinds) = float /\ RankOf(kinds, i) = r
<1>1. r \in 1 .. size
  BY RankIsPositive
<1>2. k \in DOMAIN args
  OBVIOUS
<1>3. /\ held \in DOMAIN args
      /\ (kinds[held] \in FloatKinds) = float
      /\ RankOf(kinds, held) = r
  BY <1>2
<1>4. held = k
  BY <1>3, RegistersDiffer
<1>5. RegisterFile(kinds, args, float, size)[r] = args[held]
  BY <1>1, <1>2 DEF RegisterFile
<1> QED BY <1>4, <1>5

LEMMA FloatInItsRegister ==
    ASSUME NEW kinds, NEW args, NEW n \in Nat, DOMAIN args = 1 .. n,
           NEW k \in 1 .. n, kinds[k] \in FloatKinds,
           NEW size \in Nat, RankOf(kinds, k) <= size
    PROVE  RegisterFile(kinds, args, TRUE, size)[RankOf(kinds, k)] = args[k]
<1>1. \A float \in BOOLEAN :
        (kinds[k] \in FloatKinds <=> float) =>
            RegisterFile(kinds, args, float, size)[RankOf(kinds, k)] = args[k]
  BY ArgumentInItsRegister
<1> QED BY <1>1, Zenon

LEMMA IntegerInItsRegister ==
    ASSUME NEW kinds, NEW args, NEW n \in Nat, DOMAIN args = 1 .. n,
           NEW k \in 1 .. n, kinds[k] \notin FloatKinds,
           NEW size \in Nat, RankOf(kinds, k) <= size
    PROVE  RegisterFile(kinds, args, FALSE, size)[RankOf(kinds, k)] = args[k]
<1>1. \A float \in BOOLEAN :
        (kinds[k] \in FloatKinds <=> float) =>
            RegisterFile(kinds, args, float, size)[RankOf(kinds, k)] = args[k]
  BY ArgumentInItsRegister
<1> QED BY <1>1, Zenon

\* The registers the adapter looks at hold the argument.
LEMMA AdapterLooksThere ==
    ASSUME NEW kinds, NEW args, NEW n \in Nat, DOMAIN kinds = 1 .. n, DOMAIN args = 1 .. n,
           RegistersSuffice(kinds), NEW k \in 1 .. n
    PROVE  /\ kinds[k] \in FloatKinds =>
                /\ RankOf(kinds, k) <= NumFprs
                /\ RegisterFile(kinds, args, TRUE, NumFprs)[RankOf(kinds, k)] = args[k]
           /\ kinds[k] \notin FloatKinds =>
                /\ RankOf(kinds, k) <= MaxParams
                /\ RegisterFile(kinds, args, FALSE, NumGprs)[RankOf(kinds, k)] = args[k]
<1>1. NumFprs \in Nat /\ NumGprs \in Nat /\ MaxParams \in Nat /\ MaxParams <= NumGprs
  BY DEF NumFprs, NumGprs, MaxParams
<1>2. RankOf(kinds, k) \in Nat
  BY RankIsPositive
<1>3. CASE kinds[k] \in FloatKinds
  <2>1. RankOf(kinds, k) <= NumFprs
    BY <1>3 DEF RegistersSuffice
  <2> QED BY <1>1, <1>3, <2>1, FloatInItsRegister
<1>4. CASE kinds[k] \notin FloatKinds
  <2>1. RankOf(kinds, k) <= MaxParams
    BY <1>4 DEF RegistersSuffice
  <2>2. NumGprs \in Nat /\ RankOf(kinds, k) <= NumGprs
    BY <1>1, <1>2, <2>1
  <2>3. RegisterFile(kinds, args, FALSE, NumGprs)[RankOf(kinds, k)] = args[k]
    BY <1>4, <2>2, IntegerInItsRegister
  <2> QED BY <1>4, <2>1, <2>3
<1> QED BY <1>3, <1>4

\* What the adapter unpacks is what the caller passed.
LEMMA UnpackGivesArguments ==
    ASSUME NEW bind, bind.param_kinds \in Seq(ArgKinds),
           NEW args, DOMAIN args = DOMAIN bind.param_kinds,
           frame.gpr = PassArgs(bind.param_kinds, args).gpr,
           frame.fpr = PassArgs(bind.param_kinds, args).fpr,
           RegistersSuffice(bind.param_kinds)
    PROVE  UnpackArgsToVm(bind) = [k \in DOMAIN bind.param_kinds |-> args[k]]
<1> DEFINE kinds == bind.param_kinds
           n == Len(kinds)
<1>1. n \in Nat /\ DOMAIN kinds = 1 .. n
  BY LenProperties
<1>2. DOMAIN args = 1 .. n
  BY <1>1
<1>3. ASSUME NEW k \in 1 .. n
      PROVE  UnpackArgsToVm(bind)[k] = args[k]
  <2>1. /\ kinds[k] \in FloatKinds =>
                /\ RankOf(kinds, k) <= NumFprs
                /\ frame.fpr[RankOf(kinds, k)] = args[k]
        /\ kinds[k] \notin FloatKinds =>
                /\ RankOf(kinds, k) <= MaxParams
                /\ frame.gpr[RankOf(kinds, k)] = args[k]
    <3> HIDE DEF n
    <3>1. RegistersSuffice(kinds)
      OBVIOUS
    <3> HIDE DEF kinds
    <3>2. /\ kinds[k] \in FloatKinds =>
                /\ RankOf(kinds, k) <= NumFprs
                /\ RegisterFile(kinds, args, TRUE, NumFprs)[RankOf(kinds, k)] = args[k]
          /\ kinds[k] \notin FloatKinds =>
                /\ RankOf(kinds, k) <= MaxParams
                /\ RegisterFile(kinds, args, FALSE, NumGprs)[RankOf(kinds, k)] = args[k]
      BY <1>1, <1>2, <3>1, AdapterLooksThere
    <3> QED BY <3>2 DEF kinds, PassArgs
  <2> QED BY <2>1, <1>1 DEF UnpackArgsToVm
<1>4. UnpackArgsToVm(bind) = [k \in 1 .. n |-> UnpackArgsToVm(bind)[k]]
  BY <1>1 DEF UnpackArgsToVm
<1> QED BY <1>1, <1>3, <1>4

-----------------------------------------------------------------------------
(* The record of what was entered. *)

IsSequence(s) == s \in Seq({s[k] : k \in DOMAIN s})

LEMMA AppendKeepsFirst ==
    ASSUME NEW s, IsSequence(s), NEW e
    PROVE  /\ IsSequence(Append(s, e))
           /\ Append(s, e) # <<>>
           /\ s # <<>> => Append(s, e)[1] = s[1]
           /\ s = <<>> => Append(s, e)[1] = e
<1> DEFINE S == {s[k] : k \in DOMAIN s} \cup {e}
           t == Append(s, e)
<1>1. s \in Seq(S) /\ e \in S
  BY SeqMonotonic DEF IsSequence
<1>2. /\ t \in Seq(S) /\ Len(t) = Len(s) + 1 /\ t[Len(s) + 1] = e
      /\ \A k \in 1 .. Len(s) : t[k] = s[k]
  BY <1>1, AppendProperties
<1>3. Len(s) \in Nat /\ DOMAIN s = 1 .. Len(s)
  BY <1>1, LenProperties
<1>4. t # <<>>
  BY <1>1, <1>2, <1>3, EmptySeq
<1>5. t \in Seq({t[k] : k \in DOMAIN t})
  <2> DEFINE T == {t[k] : k \in DOMAIN t}
  <2>1. Len(t) \in Nat /\ DOMAIN t = 1 .. Len(t) /\ t \in [1 .. Len(t) -> S]
    BY <1>2, LenProperties
  <2>2. t = [k \in 1 .. Len(t) |-> t[k]]
    BY <2>1
  <2>3. \A k \in 1 .. Len(t) : t[k] \in T
    BY <2>1
  <2>4. t \in [1 .. Len(t) -> T]
    BY <2>2, <2>3
  <2> QED BY <2>1, <2>4, SeqDef
<1>6. s # <<>> => t[1] = s[1]
  BY <1>1, <1>2, <1>3, EmptySeq
<1>7. s = <<>> => t[1] = e
  BY <1>2, EmptySeq
<1> QED BY <1>4, <1>5, <1>6, <1>7 DEF IsSequence

\* An instruction adds at most one call to the record, and loads no function.
LEMMA VmStepEnters ==
    ASSUME VmStep
    PROVE  /\ UNCHANGED image
           /\ entered' = entered \/ \E e : entered' = Append(entered, e)
<1>1. CASE Compute
  BY <1>1 DEF Compute
<1>2. CASE Load
  BY <1>2 DEF Load
<1>3. CASE Store
  BY <1>3 DEF Store
<1>4. CASE Allocate
  BY <1>4 DEF Allocate
<1>5. CASE Release
  BY <1>5 DEF Release
<1>6. CASE Jump
  BY <1>6 DEF Jump
<1>7. CASE Skip
  BY <1>7 DEF Skip
<1>8. CASE Throw
  BY <1>8 DEF Throw
<1>9. CASE Call
  <2>1. image' = image
    BY <1>9 DEF Call
  <2>2. \/ entered' = entered
        \/ entered' = Append(entered, <<Inst.imm, ArgsFrom(Inst.a, Inst.b)>>)
        \/ CallsNative(NativeOf[Inst.imm], Pad(ArgsFrom(Inst.a, Inst.b), 6))
    BY <1>9 DEF Call
  <2> QED BY <2>1, <2>2 DEF CallsNative
<1>10. CASE CallVirtual
  BY <1>10 DEF CallVirtual, CallsNative
<1>11. CASE CallPointer
  BY <1>11 DEF CallPointer, CallsNative
<1>12. CASE Return
  BY <1>12 DEF Return
<1>13. CASE Unknown
  BY <1>13 DEF Unknown
<1> QED
  BY <1>1, <1>2, <1>3, <1>4, <1>5, <1>6, <1>7, <1>8, <1>9, <1>10, <1>11, <1>12, <1>13
     DEF VmStep

-----------------------------------------------------------------------------
(* One lemma per action. *)

LEMMA StartKeeps ==
    ASSUME HostInit
    PROVE  HostInv
<1>1. /\ control \in {"source", "module"} /\ IsModule(functions)
      /\ request = NoCall /\ entered = <<>> /\ frame = NoFrame
  BY DEF HostInit, Start
<1>2. Idle /\ ~ ByStub /\ ~ InVm
  BY <1>1 DEF Idle, ByStub, InVm, NoCall
<1> QED
  BY <1>1, <1>2
     DEF HostInv, Places, BoundInStep, OneCall, StubsFunction, RegistersKept, FirstEntered,
         ResultStored, ResultArrives

LEMMA ObtainKeeps ==
    ASSUME HostInv, Obtain
    PROVE  HostInv'
<1>1. /\ control' = "module" /\ IsModule(functions)'
      /\ request' = NoCall /\ entered' = <<>> /\ frame' = NoFrame
  BY DEF HostInv, OneCall, Idle, Obtain, vmVars, IsModule
<1>2. Idle' /\ ~ ByStub' /\ ~ InVm'
  BY <1>1 DEF Idle, ByStub, InVm, NoCall
<1> QED
  BY <1>1, <1>2
     DEF HostInv, Places, BoundInStep, OneCall, StubsFunction, RegistersKept, FirstEntered,
         ResultStored, ResultArrives

LEMMA InstallKeeps ==
    ASSUME HostInv, Install
    PROVE  HostInv'
<1>1. /\ control' = "ready" /\ IsModule(functions)'
      /\ request' = NoCall /\ entered' = <<>> /\ frame' = NoFrame
  BY DEF HostInv, OneCall, Idle, Install, IsModule
<1>2. Idle' /\ ~ ByStub' /\ ~ InVm'
  BY <1>1 DEF Idle, ByStub, InVm, NoCall
<1>3. Len(functions) \in Nat /\ DOMAIN functions = 1 .. Len(functions)
  BY LenProperties DEF HostInv, IsModule
<1>4. /\ DOMAIN image' = 0 .. (Len(functions) - 1)
      /\ DOMAIN wrappers' = 0 .. Len(functions)
  BY DEF Install
<1>5. ASSUME NEW f \in DOMAIN image'
      PROVE  /\ f \in DOMAIN wrappers' /\ wrappers'[f] = VmBind(image'[f])
             /\ image'[f].func_id = f
             /\ image'[f].ret_kind \in RetKinds
             /\ image'[f].param_kinds \in Seq(ArgKinds)
  <2>1. /\ f \in Int /\ 0 <= f /\ f < Len(functions)
        /\ f + 1 \in DOMAIN functions /\ image'[f] = functions[f + 1]
    BY <1>3, <1>4 DEF Install
  <2>2. f \in DOMAIN wrappers' /\ wrappers'[f] = VmBind(image'[f])
    BY <1>3, <1>4, <2>1 DEF Install
  <2> QED BY <2>1, <2>2 DEF HostInv, IsModule
<1>6. ASSUME NEW w \in DOMAIN wrappers' \ DOMAIN image'
      PROVE  wrappers'[w].mode = "kNative"
  <2>1. w = Len(functions)
    BY <1>3, <1>4
  <2> QED BY <1>3, <1>4, <2>1 DEF Install, NativeBind
<1>7. BoundInStep'
  BY <1>3, <1>4, <1>5, <1>6 DEF BoundInStep, VmBind
<1> QED
  BY <1>1, <1>2, <1>7
     DEF HostInv, Places, OneCall, StubsFunction, RegistersKept, FirstEntered,
         ResultStored, ResultArrives

LEMMA CallDirectlyKeeps ==
    ASSUME HostInv, CallDirectly
    PROVE  HostInv'
<1>1. /\ control' = "vm" /\ IsModule(functions)' /\ UNCHANGED <<image, wrappers, frame>>
      /\ control = "ready"
  BY DEF HostInv, CallDirectly, Execute, IsModule
<1>2. request'.wrapper = NoWrapper /\ frame' = NoFrame
  BY <1>1 DEF HostInv, OneCall, Idle, CallDirectly
<1>3. ~ Idle' /\ ~ ThroughStub' /\ ~ ByStub'
  BY <1>1, <1>2 DEF Idle, ByStub, ThroughStub
<1>4. BoundInStep'
  BY <1>1 DEF HostInv, BoundInStep, VmBind
<1> QED
  BY <1>1, <1>2, <1>3, <1>4
     DEF HostInv, Places, OneCall, StubsFunction, RegistersKept, FirstEntered,
         ResultStored, ResultArrives

LEMMA CallStubKeeps ==
    ASSUME HostInv, CallStub
    PROVE  HostInv'
<1>1. /\ control' = "called" /\ IsModule(functions)' /\ UNCHANGED <<image, wrappers, frame, entered>>
      /\ control = "ready" /\ entered = <<>>
  BY DEF HostInv, CallStub, IsModule, OneCall, Idle, vmVars
<1>2. PICK w \in 0 .. (Len(functions) + 1) :
        LET kinds == IF w \in DOMAIN wrappers THEN wrappers[w].param_kinds ELSE <<>>
        IN  \E args \in ArgsFor(kinds) :
            /\ request' = [func |-> IF w \in DOMAIN image THEN w ELSE -1, args |-> args, wrapper |-> w]
            /\ machine' = PassArgs(kinds, args)
  BY DEF CallStub
<1> DEFINE kinds == IF w \in DOMAIN wrappers THEN wrappers[w].param_kinds ELSE <<>>
<1>3. PICK args \in ArgsFor(kinds) :
        /\ request' = [func |-> IF w \in DOMAIN image THEN w ELSE -1, args |-> args, wrapper |-> w]
        /\ machine' = PassArgs(kinds, args)
  BY <1>2
<1>4. ~ Idle' /\ ThroughStub'
  BY <1>1, <1>3 DEF Idle, ThroughStub, NoWrapper
<1>5. BoundInStep'
  BY <1>1 DEF HostInv, BoundInStep, VmBind
<1>6. OneCall'
  BY <1>4 DEF OneCall
<1>7. ASSUME ByStub'
      PROVE  /\ request'.func = w /\ request'.wrapper = w /\ w \in DOMAIN image
             /\ request'.args = args /\ kinds = image[w].param_kinds
             /\ args \in Seq(Words) /\ Len(args) = Len(kinds) /\ kinds \in Seq(ArgKinds)
  <2>1. w \in DOMAIN image
    BY <1>3, <1>7 DEF ByStub, InVm
  <2>2. wrappers[w] = VmBind(image[w]) /\ w \in DOMAIN wrappers /\ image[w].param_kinds \in Seq(ArgKinds)
    BY <1>1, <2>1 DEF HostInv, BoundInStep
  <2>3. kinds = image[w].param_kinds
    BY <2>2 DEF VmBind
  <2>4. args \in Seq(Words) /\ Len(args) = Len(kinds)
    BY ArgumentsAssumption DEF ArgsFor
  <2> QED BY <1>3, <2>1, <2>2, <2>3, <2>4
<1>8. StubsFunction' /\ RegistersKept'
  <2> SUFFICES ASSUME ByStub' PROVE StubsFunction' /\ RegistersKept'
    BY DEF StubsFunction, RegistersKept
  <2>1. Callee' = image[w]
    BY <1>1, <1>7 DEF Callee
  <2>2. args = [k \in DOMAIN kinds |-> args[k]]
    <3> HIDE DEF kinds
    <3>1. args \in [1 .. Len(args) -> Words] /\ DOMAIN kinds = 1 .. Len(kinds) /\ Len(args) = Len(kinds)
      BY <1>7, LenProperties
    <3> QED BY <3>1
  <2>3. StubsFunction'
    BY <1>1, <1>7, <2>1, <2>2 DEF StubsFunction
  <2>4. RegistersKept'
    BY <1>1, <1>3, <1>7, <2>1 DEF RegistersKept, PassArgs
  <2> QED BY <2>3, <2>4
<1>9. FirstEntered' /\ ResultStored' /\ ResultArrives'
  BY <1>1 DEF FirstEntered, ResultStored, ResultArrives
<1> QED
  BY <1>1, <1>5, <1>6, <1>8, <1>9 DEF HostInv, Places

\* A step of the machine leaves the request, the bindings and so what they say
\* of the call alone.
LEMMA CallStays ==
    ASSUME HostInv, ~ Idle, ~ Idle', UNCHANGED <<image, wrappers, functions, request>>
    PROVE  /\ IsModule(functions)'
           /\ BoundInStep' /\ StubsFunction'
           /\ ByStub' <=> ByStub
           /\ ThroughStub' <=> ThroughStub
           /\ Callee' = Callee
<1>1. IsModule(functions)'
  BY DEF HostInv, IsModule
<1>2. control \notin {"source", "module"}
  BY DEF Idle
<1>3. BoundInStep'
  BY <1>2 DEF HostInv, BoundInStep, VmBind
<1>4. (ByStub' <=> ByStub) /\ (ThroughStub' <=> ThroughStub) /\ Callee' = Callee
  BY DEF ByStub, ThroughStub, InVm, Callee
<1>5. StubsFunction'
  BY <1>4 DEF HostInv, StubsFunction
<1> QED BY <1>1, <1>3, <1>4, <1>5

LEMMA EntryKeeps ==
    ASSUME HostInv, AdapterEntry(request.wrapper), UNCHANGED <<functions, request>>
    PROVE  HostInv'
<1>1. /\ control = "called" /\ UNCHANGED <<image, wrappers, functions, request, entered, outcome, machine>>
      /\ \/ control' = "faulted"
         \/ control' = "dispatch" /\ frame' = SavedFrame(request.wrapper)
  BY DEF AdapterEntry, vmVars
<1>2. ~ Idle /\ ~ Idle' /\ ThroughStub
  BY <1>1 DEF HostInv, OneCall, Idle
<1>3. /\ IsModule(functions)' /\ BoundInStep' /\ StubsFunction'
      /\ ByStub' <=> ByStub
      /\ ThroughStub' <=> ThroughStub
      /\ Callee' = Callee
  BY <1>1, <1>2, CallStays
<1>4. OneCall'
  BY <1>2, <1>3 DEF OneCall
<1>5. RegistersKept'
  BY <1>1, <1>3 DEF HostInv, RegistersKept, SavedFrame, PassArgs
<1>6. FirstEntered' /\ ResultStored' /\ ResultArrives'
  BY <1>1, <1>3 DEF HostInv, FirstEntered, ResultStored, ResultArrives
<1> QED BY <1>1, <1>3, <1>4, <1>5, <1>6 DEF HostInv, Places

\* What AdapterDispatch does of a call that reaches bytecode: the function behind
\* the stub starts, with the caller's arguments.
LEMMA DispatchEnters ==
    ASSUME HostInv, ByStub, AdapterDispatch
    PROVE  /\ control' = "vm" /\ UNCHANGED frame
           /\ IsSequence(entered') /\ entered' # <<>>
           /\ RegistersSuffice(Callee.param_kinds) => entered'[1] = <<request.func, request.args>>
<1> DEFINE w == request.func
           bind == wrappers[w]
<1>1. /\ control = "dispatch" /\ frame = SavedFrame(request.wrapper)
      /\ machine = PassArgs(Callee.param_kinds, request.args)
      /\ entered = <<>>
  BY DEF AdapterDispatch, HostInv, RegistersKept, FirstEntered
<1>2. /\ request.wrapper = w /\ w \in DOMAIN image
      /\ request.args = [k \in DOMAIN Callee.param_kinds |-> request.args[k]]
  BY DEF HostInv, StubsFunction
<1>3. /\ w \in DOMAIN wrappers /\ bind = VmBind(Callee)
      /\ Callee.func_id = w /\ Callee.param_kinds \in Seq(ArgKinds)
  BY <1>1, <1>2 DEF HostInv, BoundInStep, Callee
<1>4. bind.mode = "kVM" /\ bind.func_id = w /\ bind.param_kinds = Callee.param_kinds
  BY <1>3 DEF VmBind
<1>5. frame.wrapper_id = w
  BY <1>1, <1>2 DEF SavedFrame
<1>6. Execute(w, UnpackArgsToVm(bind)) /\ UNCHANGED frame
  <2> HIDE DEF w
  <2> QED BY <1>3, <1>4, <1>5 DEF AdapterDispatch
<1>7. control' = "vm" /\ entered' = Append(entered, <<w, UnpackArgsToVm(bind)>>)
  BY <1>2, <1>6 DEF Execute
<1>8. IsSequence(entered)
  BY <1>1, EmptySeq DEF IsSequence
<1>9. IsSequence(entered') /\ entered' # <<>> /\ entered'[1] = <<w, UnpackArgsToVm(bind)>>
  BY <1>1, <1>7, <1>8, AppendKeepsFirst
<1>10. ASSUME RegistersSuffice(Callee.param_kinds)
       PROVE  UnpackArgsToVm(bind) = request.args
  <2>1. /\ frame.gpr = PassArgs(bind.param_kinds, request.args).gpr
        /\ frame.fpr = PassArgs(bind.param_kinds, request.args).fpr
    BY <1>1, <1>4 DEF SavedFrame
  <2>2. DOMAIN request.args = DOMAIN bind.param_kinds
    BY <1>2, <1>4
  <2>3. bind.param_kinds \in Seq(ArgKinds) /\ RegistersSuffice(bind.param_kinds)
    BY <1>3, <1>4, <1>10
  <2>4. UnpackArgsToVm(bind) = [k \in DOMAIN bind.param_kinds |-> request.args[k]]
    <3> HIDE DEF bind
    <3> QED BY <2>1, <2>2, <2>3, UnpackGivesArguments
  <2> QED BY <1>2, <1>4, <2>4
<1> QED BY <1>6, <1>7, <1>9, <1>10

LEMMA DispatchKeeps ==
    ASSUME HostInv, AdapterDispatch, UNCHANGED <<functions, request>>
    PROVE  HostInv'
<1>1. /\ control = "dispatch" /\ control' \in {"leaving", "vm"}
      /\ UNCHANGED <<image, wrappers, functions, request, machine>>
  BY DEF AdapterDispatch, NativeForward, Execute, vmVars
<1>2. ~ Idle /\ ~ Idle' /\ ThroughStub
  BY <1>1 DEF HostInv, OneCall, Idle
<1>3. /\ IsModule(functions)' /\ BoundInStep' /\ StubsFunction'
      /\ ByStub' <=> ByStub
      /\ ThroughStub' <=> ThroughStub
      /\ Callee' = Callee
  BY <1>1, <1>2, CallStays
<1>4. OneCall'
  BY <1>2, <1>3 DEF OneCall
<1>5. CASE ByStub
  <2>1. /\ control' = "vm" /\ UNCHANGED frame
        /\ IsSequence(entered') /\ entered' # <<>>
        /\ RegistersSuffice(Callee.param_kinds) => entered'[1] = <<request.func, request.args>>
    BY <1>5, DispatchEnters
  <2>2. RegistersKept'
    BY <1>1, <1>3, <2>1 DEF HostInv, RegistersKept, SavedFrame, PassArgs
  <2>3. FirstEntered'
    BY <1>1, <1>3, <2>1 DEF FirstEntered, IsSequence, RegistersSuffice
  <2>4. ResultStored' /\ ResultArrives'
    BY <2>1 DEF ResultStored, ResultArrives
  <2> QED BY <1>1, <1>3, <1>4, <2>2, <2>3, <2>4 DEF HostInv, Places
<1>6. CASE ~ ByStub
  <2>1. RegistersKept' /\ FirstEntered' /\ ResultStored' /\ ResultArrives'
    BY <1>1, <1>3, <1>6 DEF RegistersKept, FirstEntered, ResultStored, ResultArrives
  <2> QED BY <1>1, <1>3, <1>4, <2>1 DEF HostInv, Places
<1> QED BY <1>5, <1>6

LEMMA StoreResultKeeps ==
    ASSUME HostInv, StoreResult, UNCHANGED <<functions, request>>
    PROVE  HostInv'
<1>1. /\ control = "vm" /\ control' = "leaving" /\ frame.wrapper_id # NoWrapper
      /\ UNCHANGED <<image, wrappers, functions, request, machine, entered, outcome>>
  BY DEF StoreResult, vmVars
<1>2. ~ Idle /\ ~ Idle' /\ ThroughStub
  BY <1>1 DEF HostInv, OneCall, Idle, NoFrame
<1>3. /\ IsModule(functions)' /\ BoundInStep' /\ StubsFunction'
      /\ ByStub' <=> ByStub
      /\ ThroughStub' <=> ThroughStub
      /\ Callee' = Callee
  BY <1>1, <1>2, CallStays
<1>4. OneCall'
  BY <1>2, <1>3 DEF OneCall
<1>5. RegistersKept' /\ FirstEntered' /\ ResultArrives'
  BY <1>1, <1>3 DEF HostInv, RegistersKept, FirstEntered, ResultArrives, PassArgs, RegistersSuffice
<1>6. ResultStored'
  <2> SUFFICES ASSUME ByStub PROVE ResultStored'
    BY <1>3 DEF ResultStored
  <2>1. frame = SavedFrame(request.wrapper)
    BY <1>1 DEF HostInv, RegistersKept
  <2>2. wrappers[frame.wrapper_id].ret_kind = Callee.ret_kind
    <3>1. frame.wrapper_id = request.func /\ request.func \in DOMAIN image
      BY <2>1 DEF HostInv, StubsFunction, SavedFrame
    <3>2. wrappers[request.func] = VmBind(Callee)
      BY <1>1, <3>1 DEF HostInv, BoundInStep, Callee
    <3> QED BY <3>1, <3>2 DEF VmBind
  <2>3. frame' = [frame EXCEPT
            !.ret_int = IF Callee.ret_kind \in {"I64", "Ptr"} THEN outcome.value ELSE @,
            !.ret_fp  = IF Callee.ret_kind = "F64" THEN outcome.value ELSE @,
            !.ret_kind = Callee.ret_kind]
    BY <2>2 DEF StoreResult
  <2>4. /\ frame'.ret_kind = Callee.ret_kind
        /\ Callee.ret_kind \in {"I64", "Ptr"} => frame'.ret_int = outcome.value
        /\ Callee.ret_kind = "F64" => frame'.ret_fp = outcome.value
    BY <2>1, <2>3 DEF SavedFrame
  <2> QED BY <1>1, <1>3, <2>4 DEF ResultStored
<1> QED BY <1>1, <1>3, <1>4, <1>5, <1>6 DEF HostInv, Places

LEMMA UnwindKeeps ==
    ASSUME HostInv, Unwind, UNCHANGED <<functions, request>>
    PROVE  HostInv'
<1>1. /\ control = "vm" /\ control' = "terminated" /\ frame.wrapper_id # NoWrapper
      /\ UNCHANGED <<image, wrappers, functions, request, machine, entered, outcome>>
  BY DEF Unwind, vmVars
<1>2. ~ Idle /\ ~ Idle' /\ ThroughStub
  BY <1>1 DEF HostInv, OneCall, Idle, NoFrame
<1>3. /\ IsModule(functions)' /\ BoundInStep' /\ StubsFunction'
      /\ ByStub' <=> ByStub
      /\ ThroughStub' <=> ThroughStub
      /\ Callee' = Callee
  BY <1>1, <1>2, CallStays
<1>4. OneCall'
  BY <1>2, <1>3 DEF OneCall
<1>5. RegistersKept' /\ FirstEntered' /\ ResultStored' /\ ResultArrives'
  BY <1>1, <1>3
     DEF HostInv, RegistersKept, FirstEntered, ResultStored, ResultArrives, RegistersSuffice
<1> QED BY <1>1, <1>3, <1>4, <1>5 DEF HostInv, Places

\* The value goes to the register that the kind of the result asks for, where
\* the C++ caller looks for it.
LEMMA AdapterReturnKeeps ==
    ASSUME HostInv, AdapterReturn, UNCHANGED <<functions, request>>
    PROVE  HostInv'
<1>1. /\ control = "leaving" /\ control' = "returned"
      /\ UNCHANGED <<image, wrappers, functions, request, frame, entered, outcome>>
  BY DEF AdapterReturn, vmVars
<1>2. ~ Idle /\ ~ Idle' /\ ThroughStub
  BY <1>1 DEF HostInv, OneCall, Idle
<1>3. /\ IsModule(functions)' /\ BoundInStep' /\ StubsFunction'
      /\ ByStub' <=> ByStub
      /\ ThroughStub' <=> ThroughStub
      /\ Callee' = Callee
  BY <1>1, <1>2, CallStays
<1>4. OneCall'
  BY <1>2, <1>3 DEF OneCall
<1>5. RegistersKept' /\ FirstEntered' /\ ResultStored'
  BY <1>1, <1>3 DEF HostInv, RegistersKept, FirstEntered, ResultStored, RegistersSuffice
<1>6. ResultArrives'
  <2> SUFFICES ASSUME InVm, Callee.ret_kind # "Void"
               PROVE  Answer' = outcome.value
    BY <1>1 DEF ResultArrives, InVm, Callee
  <2>1. ByStub
    BY <1>2 DEF ByStub
  <2>2. machine = PassArgs(Callee.param_kinds, request.args)
    BY <1>1, <2>1 DEF HostInv, RegistersKept
  <2>3. /\ frame.ret_kind = Callee.ret_kind
        /\ Callee.ret_kind \in {"I64", "Ptr"} => frame.ret_int = outcome.value
        /\ Callee.ret_kind = "F64" => frame.ret_fp = outcome.value
    BY <1>1, <2>1 DEF HostInv, ResultStored
  <2>4. Callee.ret_kind \in {"I64", "F64", "Ptr"}
    <3>1. request.func \in DOMAIN image
      BY <2>1 DEF HostInv, StubsFunction
    <3>2. Callee.ret_kind \in RetKinds
      BY <1>1, <3>1 DEF HostInv, BoundInStep, Callee
    <3> QED BY <3>2 DEF RetKinds
  <2>5. Answer' = IF Callee.ret_kind = "F64" THEN machine'.ret_fp ELSE machine'.ret_int
    BY <1>1, <1>2, <1>3 DEF Answer, Callee
  <2>6. CASE Callee.ret_kind = "F64"
    <3>1. machine'.ret_fp = frame.ret_fp
      BY <2>2, <2>3, <2>6 DEF AdapterReturn, PassArgs
    <3> QED BY <2>3, <2>5, <2>6, <3>1
  <2>7. CASE Callee.ret_kind \in {"I64", "Ptr"}
    <3>1. machine'.ret_int = frame.ret_int
      BY <2>2, <2>3, <2>7 DEF AdapterReturn, PassArgs
    <3> QED BY <2>3, <2>5, <2>7, <3>1
  <2> QED BY <2>4, <2>6, <2>7
<1> QED BY <1>1, <1>3, <1>4, <1>5, <1>6 DEF HostInv, Places

LEMMA RunKeeps ==
    ASSUME HostInv, Run, UNCHANGED <<functions, request>>
    PROVE  HostInv'
<1>1. /\ control = "vm" /\ VmStep
      /\ UNCHANGED <<wrappers, functions, request, frame, machine, control>>
  BY DEF Run, adapterVars
<1>2. UNCHANGED image /\ (entered' = entered \/ \E e : entered' = Append(entered, e))
  BY <1>1, VmStepEnters
<1>3. ~ Idle /\ ~ Idle'
  BY <1>1 DEF Idle
<1>4. /\ IsModule(functions)' /\ BoundInStep' /\ StubsFunction'
      /\ ByStub' <=> ByStub
      /\ ThroughStub' <=> ThroughStub
      /\ Callee' = Callee
  BY <1>1, <1>2, <1>3, CallStays
<1>5. OneCall'
  BY <1>1, <1>3, <1>4 DEF HostInv, OneCall
<1>6. RegistersKept' /\ ResultStored' /\ ResultArrives'
  BY <1>1, <1>4 DEF HostInv, RegistersKept, ResultStored, ResultArrives, SavedFrame, PassArgs
<1>7. FirstEntered'
  <2> SUFFICES ASSUME ByStub PROVE FirstEntered'
    BY <1>4 DEF FirstEntered
  <2>1. /\ IsSequence(entered) /\ entered # <<>>
        /\ RegistersSuffice(Callee.param_kinds) => entered[1] = <<request.func, request.args>>
    BY <1>1 DEF HostInv, FirstEntered, IsSequence
  <2>2. IsSequence(entered') /\ entered' # <<>> /\ entered'[1] = entered[1]
    <3>1. CASE entered' = entered
      BY <2>1, <3>1
    <3>2. CASE \E e : entered' = Append(entered, e)
      BY <2>1, <3>2, AppendKeepsFirst
    <3> QED BY <1>2, <3>1, <3>2
  <2> QED BY <1>1, <1>4, <2>1, <2>2 DEF FirstEntered, IsSequence, RegistersSuffice
<1> QED BY <1>1, <1>4, <1>5, <1>6, <1>7 DEF HostInv, Places

LEMMA StutterKeeps ==
    ASSUME HostInv, UNCHANGED hostVars
    PROVE  HostInv'
<1>1. UNCHANGED <<image, stack, entered, outcome, wrappers, machine, frame, control, functions, request>>
  BY DEF hostVars, vmVars, adapterVars
<1>2. control' \in Places /\ IsModule(functions)'
  BY <1>1 DEF HostInv, Places, IsModule
<1>3. BoundInStep'
  BY <1>1 DEF HostInv, BoundInStep, VmBind
<1>4. (Idle' <=> Idle) /\ (ByStub' <=> ByStub) /\ (ThroughStub' <=> ThroughStub) /\ Callee' = Callee
  BY <1>1 DEF Idle, ByStub, ThroughStub, InVm, Callee
<1>5. OneCall' /\ StubsFunction'
  BY <1>1, <1>4 DEF HostInv, OneCall, StubsFunction
<1>6. RegistersKept'
  BY <1>1, <1>4 DEF HostInv, RegistersKept, SavedFrame, PassArgs
<1>7. FirstEntered' /\ ResultStored'
  BY <1>1, <1>4 DEF HostInv, FirstEntered, ResultStored, RegistersSuffice
<1>8. ResultArrives'
  BY <1>1, <1>4 DEF HostInv, ResultArrives, InVm, Answer
<1> QED BY <1>2, <1>3, <1>5, <1>6, <1>7, <1>8 DEF HostInv, Places

-----------------------------------------------------------------------------

\* The inductive invariant, for every module of bytecode functions.
THEOREM HostInvariance == HostSpec => []HostInv
<1>1. HostInit => HostInv
  BY StartKeeps
<1>2. HostInv /\ [HostNext]_hostVars => HostInv'
  <2> SUFFICES ASSUME HostInv, [HostNext]_hostVars
               PROVE  HostInv'
    OBVIOUS
  <2>1. CASE UNCHANGED hostVars
    BY <2>1, StutterKeeps
  <2>2. CASE Obtain
    BY <2>2, ObtainKeeps
  <2>3. CASE Install
    BY <2>3, InstallKeeps
  <2>4. CASE CallDirectly
    BY <2>4, CallDirectlyKeeps
  <2>5. CASE CallStub
    BY <2>5, CallStubKeeps
  <2>6. CASE Step
    BY <2>6, EntryKeeps, DispatchKeeps, StoreResultKeeps, UnwindKeeps, AdapterReturnKeeps, RunKeeps
       DEF Step, AdapterStep
  <2> QED BY <2>1, <2>2, <2>3, <2>4, <2>5, <2>6 DEF HostNext
<1> QED BY <1>1, <1>2, PTL DEF HostSpec

\* UnpackArgsToVm finds each argument where the calling convention of the C++
\* caller put it, whatever the signature, as long as the registers suffice.
THEOREM CallersArgumentsArrive == HostSpec => []ArgumentsArrive
<1>1. HostInv => ArgumentsArrive
  <2> SUFFICES ASSUME HostInv, ThroughStub, InVm, entered # <<>>,
                      RegistersSuffice(image[request.func].param_kinds)
               PROVE  entered[1] = <<request.func, request.args>>
    BY DEF ArgumentsArrive
  <2>1. ByStub
    BY DEF HostInv, OneCall, ByStub
  <2>2. control \in {"vm", "leaving", "returned", "terminated"}
    BY <2>1 DEF HostInv, FirstEntered, Places, ByStub, Idle
  <2> QED BY <2>1, <2>2 DEF HostInv, FirstEntered, Callee
<1> QED BY <1>1, HostInvariance, PTL

\* AdapterDispatch and AdapterEntry give the C++ caller the value with which
\* Interpreter::Execute returned.
THEOREM CallersResultArrives == HostSpec => []ResultArrives
<1>1. HostInv => ResultArrives
  BY DEF HostInv
<1> QED BY <1>1, HostInvariance, PTL

=============================================================================
