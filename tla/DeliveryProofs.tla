---------------------------- MODULE DeliveryProofs ----------------------------
(***************************************************************************)
(* A program under its developer's hands: proved for any versions, any     *)
(* files made from them and any depth of patches.                          *)
(*                                                                         *)
(* Every step but the start is one of the patch manager's, so its          *)
(* invariant carries over; WrappersFit adds to it that a wrapper in VM     *)
(* mode is bound to the function it is found for and unpacks by the        *)
(* signature of what it runs, until something is rolled back.              *)
(***************************************************************************)
EXTENDS Delivery, PatchManagerProofs

-----------------------------------------------------------------------------
(* The patch manager's invariant. *)

LEMMA LoadStep ==
    ASSUME DeliveryInv, NEW v \in Started, LoadModule(v)
    PROVE  IInv'
<1> USE DEF DeliveryInv, IInv, TypeOK, RuntimeTypeOK
<1>1. /\ functions = EmptyMap /\ expected = <<>>
      /\ functions' = RegisterAll(functions, Loaded[v].functions)
      /\ UNCHANGED <<tableVars, dispatch_table, patchVars>>
  BY DEF LoadModule, NothingStarted
<1>2. functions' \in MapsOf(FuncIds, Bodies)
  BY <1>1, DeliveryAssumption
<1>3. DOMAIN functions = {}
  BY <1>1 DEF EmptyMap
<1>4. UsedSlots' = UsedSlots
  BY <1>1 DEF UsedSlots, tableVars
<1>5. TypeOK' /\ CountIsExact'
  BY <1>1, <1>2, <1>4 DEF tableVars, patchVars, TableTypeOK, CountIsExact
<1>6. Recoverable \subseteq Recoverable'
  BY <1>1, <1>3, RecoverableMono DEF patchVars
<1>7. BindsUsable'
  BY <1>1, <1>4, <1>6, BindsStep DEF patchVars, tableVars
<1>8. VersionIsDepth' /\ NothingOpen' /\ RestoredSoFar'
  BY <1>1, <1>3 DEF patchVars, VersionIsDepth, NothingOpen, RestoredSoFar, Top
<1>9. DispatchSound'
  BY <1>1, <1>4, DispatchKept
<1> QED BY <1>5, <1>6, <1>7, <1>8, <1>9

\* The program exports what it has.
LEMMA ExportIsRegistration ==
    ASSUME DeliveryInv, ExportNative
    PROVE  ProgramRegistersNative
<1>1. /\ pc = "idle" /\ UNCHANGED patchVars
      /\ \E f \in Exported \cap DOMAIN functions, fn \in NativeFns :
            RegisterNativeFunction(f, fn, SigOf[functions[f]])
  BY DEF ExportNative
<1>2. \A f \in DOMAIN functions : f \in FuncIds /\ functions[f] \in Bodies
  BY MapApply DEF DeliveryInv, IInv, TypeOK, RuntimeTypeOK
<1>3. \A f \in DOMAIN functions : f \in FuncIds /\ SigOf[functions[f]] \in Sigs
  BY <1>2, TypesAssumption
<1> QED BY <1>1, <1>3 DEF ProgramRegistersNative

\* All that the program does after its start, the patch manager can do.
LEMMA StepIsStep ==
    ASSUME DeliveryInv, [DeliveryNext]_deliveryVars, \A v \in Started : ~ LoadModule(v)
    PROVE  [Next]_vars
<1>1. CASE UNCHANGED deliveryVars
  BY <1>1 DEF deliveryVars
<1>2. CASE ExportNative
  BY <1>2, ExportIsRegistration DEF Next
<1>3. CASE \E p \in Asked : Hotdiff(p)
  BY <1>3 DEF Hotdiff
<1>4. CASE ApplyFile \/ EndOfPatch \/ EndOfRollback \/ PatchStep
  BY <1>4 DEF ApplyFile, EndOfPatch, EndOfRollback, PatchStep, Next
<1> QED BY <1>1, <1>2, <1>3, <1>4 DEF DeliveryNext

LEMMA InvariantKept ==
    ASSUME DeliveryInv, [DeliveryNext]_deliveryVars
    PROVE  IInv'
<1>1. CASE \E v \in Started : LoadModule(v)
  BY <1>1, LoadStep
<1>2. CASE \A v \in Started : ~ LoadModule(v)
  BY <1>2, StepIsStep, NextStep DEF StepOK, DeliveryInv
<1> QED BY <1>1, <1>2
-----------------------------------------------------------------------------
(* What the developer takes to be running. *)

\* Before its start the program can do nothing else.
LEMMA OnlyStart ==
    ASSUME DeliveryInv, expected = <<>>, [DeliveryNext]_deliveryVars
    PROVE  UNCHANGED deliveryVars \/ \E v \in Started : LoadModule(v)
<1>1. /\ DOMAIN functions = {} /\ pc = "idle" /\ history = <<>> /\ patch_file = <<>>
  BY DEF DeliveryInv, NothingStarted, EmptyMap
<1>2. ~ ExportNative /\ ~ ApplyFile /\ \A p : ~ Hotdiff(p)
  BY <1>1 DEF ExportNative, ApplyFile, Hotdiff
<1>3. ~ EndOfPatch /\ ~ EndOfRollback /\ ~ PatchStep
  BY <1>1 DEF EndOfPatch, ApplyEnd, EndOfRollback, RollbackEnd, PatchStep, ApplyModified,
              ApplyAdded, ApplyRemoved, AtEntry, RollbackBegin, RestoreBytecode, RestoreBind
<1> QED BY <1>2, <1>3 DEF DeliveryNext

\* A version more for every patch, one less for every rollback.
LEMMA ExpectedStep ==
    ASSUME DeliveryInv, expected # <<>>, DeliveryNext
    PROVE  /\ expected' \in Seq(Versions \cup {Unknown}) /\ Len(expected') = Len(history') + 1
           /\ expected' # <<>>
           /\ patch_file' # <<>> \/ pc' = "apply" => made_for' \in Asked
<1> DEFINE V == Versions \cup {Unknown}
<1>1. /\ expected \in Seq(V) /\ Len(expected) = Len(history) + 1
      /\ patch_file # <<>> \/ pc = "apply" => made_for \in Asked
      /\ history \in Seq(PatchRecord) /\ Len(history) \in Nat
      /\ Unknown \in V
  BY DEF DeliveryInv, OneVersionPerPatch, IInv, TypeOK
<1>2. \A p \in Asked : p[2] \in V
  BY DeliveryAssumption
<1> HIDE DEF V
<1>3. CASE UNCHANGED <<expected, history, patch_file, made_for>> /\ (pc' = "apply" => pc = "apply")
  BY <1>1, <1>3 DEF V
<1>4. ~ \E v \in Started : LoadModule(v)
  BY DEF LoadModule
<1>5. CASE \E p \in Asked : pc = "idle" /\ Hotdiff(p)
  <2>1. PICK p \in Asked : pc = "idle" /\ Hotdiff(p)
    BY <1>5
  <2>2. UNCHANGED <<history, pc>>
    BY <2>1 DEF Hotdiff, vars
  <2>3. made_for' = p \/ UNCHANGED <<made_for, patch_file>>
    BY <2>1 DEF Hotdiff
  <2>4. expected' \in Seq(V) /\ Len(expected') = Len(expected)
    <3>1. PICK u \in V : expected' = expected \/ expected' = [expected EXCEPT ![Len(expected)] = u]
      <4>1. \/ expected' = expected
            \/ expected' = [expected EXCEPT ![Len(expected)] =
                              IF @ = p[1] /\ Compatible(p) THEN p[2] ELSE @]
        BY <2>1 DEF Hotdiff
      <4>2. PICK u : u = IF expected[Len(expected)] = p[1] /\ Compatible(p) THEN p[2]
                         ELSE expected[Len(expected)]
        OBVIOUS
      <4>3. expected[Len(expected)] \in V
        BY <1>1
      <4>4. u \in V
        BY <1>2, <4>2, <4>3
      <4> QED BY <4>1, <4>2, <4>4
    <3> QED BY <1>1, <3>1
  <2> QED BY <1>1, <2>1, <2>2, <2>3, <2>4 DEF V
<1>6. CASE ApplyFile
  <2>1. UNCHANGED <<expected, history, patch_file, made_for>> /\ patch_file # <<>>
    BY <1>6 DEF ApplyFile, ApplyBegin
  <2> QED BY <1>1, <2>1 DEF V
<1>7. CASE EndOfPatch
  <2>1. /\ pc = "apply" /\ history' = Append(history, record) /\ pc' = "idle"
        /\ UNCHANGED <<patch_file, made_for>>
        /\ \/ expected' = Append(expected, made_for[2])
           \/ expected' = [k \in 1 .. (Len(expected) + 1) |-> Unknown]
    BY <1>7 DEF EndOfPatch, ApplyEnd
  <2>2. made_for[2] \in V
    BY <1>1, <1>2, <2>1
  <2>3. Len(history') = Len(history) + 1
    BY <1>1, <2>1 DEF DeliveryInv, IInv, TypeOK
  <2>4. expected' \in Seq(V) /\ Len(expected') = Len(expected) + 1
    <3>1. CASE expected' = Append(expected, made_for[2])
      BY <1>1, <2>2, <3>1
    <3>2. CASE expected' = [k \in 1 .. (Len(expected) + 1) |-> Unknown]
      BY <1>1, <3>2
    <3> QED BY <2>1, <3>1, <3>2
  <2> QED BY <1>1, <2>1, <2>3, <2>4 DEF V
<1>8. CASE EndOfRollback
  <2>1. /\ pc = "restore_binds" /\ history' = SubSeq(history, 1, Len(history) - 1) /\ pc' = "idle"
        /\ UNCHANGED <<patch_file, made_for>>
        /\ expected' = SubSeq(expected, 1, Len(expected) - 1)
    BY <1>8 DEF EndOfRollback, RollbackEnd, Front
  <2>2. Len(history) # 0
    BY <1>1, <2>1, TopType DEF DeliveryInv
  <2>3. Len(history') = Len(history) - 1
    BY <1>1, <2>1, <2>2, PopBack
  <2>4. expected' \in Seq(V) /\ Len(expected') = Len(expected) - 1
    BY <1>1, <2>1, PopBack
  <2> QED BY <1>1, <2>1, <2>2, <2>3, <2>4 DEF V
<1>9. CASE ExportNative \/ PatchStep
  <2>1. UNCHANGED <<expected, history, patch_file, made_for>> /\ (pc' = "apply" => pc = "apply")
    BY <1>9 DEF ExportNative, PatchStep, patchVars, ApplyModified, ApplyAdded, ApplyRemoved,
                NextEntry, RollbackBegin, RestoreBytecode, RestoreBind
  <2> QED BY <1>3, <2>1
<1> QED BY <1>4, <1>5, <1>6, <1>7, <1>8, <1>9 DEF DeliveryNext

LEMMA ExpectedKept ==
    ASSUME DeliveryInv, [DeliveryNext]_deliveryVars
    PROVE  NothingStarted' /\ OneVersionPerPatch'
<1>1. CASE UNCHANGED deliveryVars
  BY <1>1 DEF deliveryVars, vars, DeliveryInv, NothingStarted, OneVersionPerPatch
<1>2. CASE \E v \in Started : LoadModule(v)
  <2>1. PICK v \in Started : LoadModule(v)
    BY <1>2
  <2>2. /\ v \in Versions /\ expected' = <<v>> /\ history' = history /\ pc' = pc
        /\ history = <<>> /\ pc = "idle" /\ patch_file = <<>> /\ patch_file' = patch_file
    BY <2>1, DeliveryAssumption DEF LoadModule, patchVars, DeliveryInv, NothingStarted
  <2>3. expected' \in Seq(Versions \cup {Unknown}) /\ Len(expected') = 1 /\ expected' # <<>>
    BY <2>2
  <2> QED BY <2>2, <2>3 DEF NothingStarted, OneVersionPerPatch
<1>3. CASE expected # <<>> /\ DeliveryNext
  BY <1>3, ExpectedStep DEF NothingStarted, OneVersionPerPatch
<1> QED BY <1>1, <1>2, <1>3, OnlyStart

-----------------------------------------------------------------------------
(* Wrappers and the code they run. *)

LEMMA FitsStill ==
    ASSUME NEW f \in DOMAIN dispatch_table, WrapperFits(f),
           dispatch_table'[f] = dispatch_table[f],
           dispatch_table[f] \in WrapperIds =>
              bind_info'[dispatch_table[f]] = bind_info[dispatch_table[f]],
           f \in DOMAIN functions' => f \in DOMAIN functions /\ functions'[f] = functions[f]
    PROVE  WrapperFits(f)'
BY DEF WrapperFits

\* A valid entry of the dispatch table is a slot in use, and nobody else's.
LEMMA EntrySlot ==
    ASSUME IInv, NEW f \in DOMAIN dispatch_table, dispatch_table[f] \in WrapperIds
    PROVE  /\ dispatch_table[f] \in UsedSlots
           /\ \A g \in DOMAIN dispatch_table : dispatch_table[g] = dispatch_table[f] => g = f
BY WrapperTableAssumption DEF IInv, DispatchSound, WrapperIds

\* A slot is taken and f led to it: its binding is f's, or in native mode.
LEMMA FitsAlloc ==
    ASSUME IInv, \A g \in DOMAIN dispatch_table : WrapperFits(g),
           NEW f, NEW bind \in BindInfo, Alloc(bind),
           \/ dispatch_table' = dispatch_table /\ functions' = functions
           \/ dispatch_table' = Put(dispatch_table, f, AllocResult),
           \A g : g # f /\ g \in DOMAIN functions' =>
              g \in DOMAIN functions /\ functions'[g] = functions[g],
           bind.mode = kVM => /\ bind.func_id = f
                              /\ f \in DOMAIN functions' => bind.sig = SigOf[functions'[f]]
    PROVE  \A g \in DOMAIN dispatch_table' : WrapperFits(g)'
<1>1. /\ \A w \in UsedSlots : bind_info'[w] = bind_info[w]
      /\ AllocResult \in WrapperIds => bind_info'[AllocResult] = bind
  BY AllocStep DEF IInv, TypeOK, RuntimeTypeOK
<1>2. ASSUME NEW g \in DOMAIN dispatch_table', g \in DOMAIN dispatch_table,
             dispatch_table'[g] = dispatch_table[g], g # f \/ functions' = functions
      PROVE  WrapperFits(g)'
  BY <1>1, <1>2, EntrySlot, FitsStill
<1>3. CASE dispatch_table' = dispatch_table /\ functions' = functions
  BY <1>2, <1>3
<1>4. CASE dispatch_table' = Put(dispatch_table, f, AllocResult)
  <2>1. /\ DOMAIN dispatch_table' = DOMAIN dispatch_table \cup {f}
        /\ dispatch_table'[f] = AllocResult
        /\ \A g \in DOMAIN dispatch_table : g # f => dispatch_table'[g] = dispatch_table[g]
    BY <1>4 DEF Put
  <2>2. WrapperFits(f)'
    BY <1>1, <2>1 DEF WrapperFits
  <2> QED BY <1>2, <2>1, <2>2
<1> QED BY <1>3, <1>4
LEMMA FitsModified ==
    ASSUME IInv, \A g \in DOMAIN dispatch_table : WrapperFits(g), ApplyModified
    PROVE  \A g \in DOMAIN dispatch_table' : WrapperFits(g)'
<1>1. PICK f, body, wid, bind :
         /\ f = Head(todo).func_id /\ body = Head(todo).body
         /\ wid = GetWrapperForFunc(f) /\ bind = VmBind(f, body)
  OBVIOUS
<1>2. /\ functions' = Put(functions, f, body) /\ Rebind(wid, bind)
      /\ dispatch_table' = dispatch_table /\ todo # <<>>
  BY <1>1 DEF ApplyModified, RegisterFunction, AtEntry
<1>3. f \in FuncIds /\ body \in Bodies /\ bind \in BindInfo
  <2>1. Head(todo) \in PatchEntry
    BY <1>2 DEF IInv, TypeOK
  <2>2. f \in FuncIds /\ body \in Bodies
    BY <1>1, <2>1 DEF PatchEntry
  <2> QED BY <1>1, <2>2, BindTypes
<1>4. /\ UsedSlots' = UsedSlots
      /\ \A w \in WrapperIds : w # wid => bind_info'[w] = bind_info[w]
      /\ wid \in UsedSlots => bind_info'[wid] = bind
  BY <1>2, <1>3, RebindStep DEF IInv, TypeOK, RuntimeTypeOK
<1>5. /\ functions'[f] = body /\ f \in DOMAIN functions'
      /\ \A g : g # f /\ g \in DOMAIN functions' =>
            g \in DOMAIN functions /\ functions'[g] = functions[g]
  BY <1>2 DEF Put
<1>6. ASSUME NEW g \in DOMAIN dispatch_table PROVE WrapperFits(g)'
  <2>1. CASE g = f
    <3>1. dispatch_table[g] \in WrapperIds => bind_info'[dispatch_table[g]] = bind
      BY <1>1, <1>4, <1>6, <2>1, EntrySlot DEF GetWrapperForFunc
    <3>2. bind.func_id = f /\ bind.sig = SigOf[body]
      BY <1>1 DEF VmBind
    <3> QED BY <1>2, <1>5, <2>1, <3>1, <3>2 DEF WrapperFits
  <2>2. CASE g # f
    <3>1. dispatch_table[g] \in WrapperIds => dispatch_table[g] # wid
      BY <1>1, <1>6, <2>2, EntrySlot, WrapperTableAssumption DEF GetWrapperForFunc, WrapperIds
    <3> QED BY <1>2, <1>4, <1>5, <1>6, <2>2, <3>1, FitsStill
  <2> QED BY <2>1, <2>2
<1> QED BY <1>2, <1>6

LEMMA FitsAdded ==
    ASSUME IInv, \A g \in DOMAIN dispatch_table : WrapperFits(g), ApplyAdded
    PROVE  \A g \in DOMAIN dispatch_table' : WrapperFits(g)'
<1>1. PICK f, body, bind :
         f = Head(todo).func_id /\ body = Head(todo).body /\ bind = VmBind(f, body)
  OBVIOUS
<1>2. /\ functions' = Put(functions, f, body) /\ Alloc(bind) /\ todo # <<>>
      /\ dispatch_table' = Put(dispatch_table, f, AllocResult)
  BY <1>1 DEF ApplyAdded, RegisterFunction, SetDispatchEntry, AtEntry
<1>3. f \in FuncIds /\ body \in Bodies /\ bind \in BindInfo
  <2>1. Head(todo) \in PatchEntry
    BY <1>2 DEF IInv, TypeOK
  <2>2. f \in FuncIds /\ body \in Bodies
    BY <1>1, <2>1 DEF PatchEntry
  <2> QED BY <1>1, <2>2, BindTypes
<1>4. /\ functions'[f] = body
      /\ \A g : g # f /\ g \in DOMAIN functions' =>
            g \in DOMAIN functions /\ functions'[g] = functions[g]
  BY <1>2 DEF Put
<1>5. bind.func_id = f /\ bind.sig = SigOf[body]
  BY <1>1 DEF VmBind
<1> QED BY <1>2, <1>3, <1>4, <1>5, FitsAlloc

LEMMA FitsExport ==
    ASSUME IInv, \A g \in DOMAIN dispatch_table : WrapperFits(g), ProgramRegistersNative
    PROVE  \A g \in DOMAIN dispatch_table' : WrapperFits(g)'
<1>1. PICK f \in FuncIds, fn \in NativeFns, sig \in Sigs : RegisterNativeFunction(f, fn, sig)
  BY DEF ProgramRegistersNative
<1>2. PICK bind : bind = NativeBind(f, fn, sig)
  OBVIOUS
<1>3. /\ Alloc(bind) /\ functions' = functions
      /\ dispatch_table' = dispatch_table \/ dispatch_table' = Put(dispatch_table, f, AllocResult)
  BY <1>1, <1>2 DEF RegisterNativeFunction
<1>4. bind \in BindInfo /\ bind.mode # kVM
  BY <1>2 DEF NativeBind, BindInfo, DispatchMode, kVM, kNative
<1> QED BY <1>3, <1>4, FitsAlloc

\* Until something is rolled back.
LEMMA FitsKept ==
    ASSUME DeliveryInv, [DeliveryNext]_deliveryVars
    PROVE  WrappersFit'
<1> SUFFICES ASSUME ~ undone', pc' \in {"idle", "apply"}
             PROVE  \A g \in DOMAIN dispatch_table' : WrapperFits(g)'
  BY DEF WrappersFit
<1>1. IInv
  BY DEF DeliveryInv
<1>2. CASE \E v \in Started : LoadModule(v)
  <2>1. DOMAIN dispatch_table' = {}
    BY <1>2 DEF LoadModule, DeliveryInv, NothingStarted, EmptyMap
  <2> QED BY <2>1
<1>3. ~ EndOfRollback
  BY DEF EndOfRollback
<1>4. ASSUME ~ undone, pc \in {"idle", "apply"}
      PROVE  \A g \in DOMAIN dispatch_table : WrapperFits(g)
  BY <1>4 DEF DeliveryInv, WrappersFit
<1>5. CASE UNCHANGED deliveryVars \/ (\E p \in Asked : Hotdiff(p)) \/ ApplyFile \/ EndOfPatch
  <2>1. /\ ~ undone /\ pc \in {"idle", "apply"}
        /\ UNCHANGED <<bind_info, dispatch_table, functions>>
    BY <1>5 DEF deliveryVars, vars, Hotdiff, ApplyFile, ApplyBegin, EndOfPatch, ApplyEnd,
                runtimeVars
  <2> QED BY <1>4, <2>1, FitsStill
<1>6. CASE ExportNative
  BY <1>1, <1>4, <1>6, ExportIsRegistration, FitsExport DEF ExportNative
<1>7. CASE PatchStep
  <2>1. ~ RollbackBegin /\ ~ RestoreBytecode /\ ~ RestoreBind
    BY DEF RollbackBegin, RestoreBytecode, RestoreBind
  <2>2. ~ undone /\ pc \in {"idle", "apply"}
    BY <1>7, <2>1 DEF PatchStep, ApplyModified, ApplyAdded, ApplyRemoved, AtEntry
  <2>3. CASE ApplyRemoved
    <3>1. /\ UNCHANGED <<bind_info, dispatch_table>>
          /\ functions' = Erase(functions, Head(todo).func_id)
      BY <2>3 DEF ApplyRemoved, UnregisterFunction, tableVars
    <3>2. \A g \in DOMAIN functions' : g \in DOMAIN functions /\ functions'[g] = functions[g]
      BY <3>1 DEF Erase
    <3> QED BY <1>4, <2>2, <3>1, <3>2, FitsStill
  <2> QED BY <1>1, <1>4, <1>7, <2>1, <2>2, <2>3, FitsModified, FitsAdded DEF PatchStep
<1> QED BY <1>2, <1>3, <1>5, <1>6, <1>7 DEF DeliveryNext

LEMMA InitDelivery == DeliveryInit => DeliveryInv
<1> SUFFICES ASSUME DeliveryInit PROVE DeliveryInv
  OBVIOUS
<1>1. /\ Init /\ IInv /\ expected = <<>> /\ patch_file = <<>> /\ pc = "idle"
      /\ functions = EmptyMap /\ dispatch_table = EmptyMap /\ history = <<>>
  BY InitIInv DEF DeliveryInit, Init, RuntimeInit
<1>2. NothingStarted /\ OneVersionPerPatch
  BY <1>1 DEF NothingStarted, OneVersionPerPatch
<1>3. DOMAIN dispatch_table = {}
  BY <1>1 DEF EmptyMap
<1> QED BY <1>1, <1>2, <1>3 DEF DeliveryInv, WrappersFit

-----------------------------------------------------------------------------

\* Files of any versions, differences of any of them, applied in any order,
\* late or twice: what holds of the patch manager holds of the program, and the
\* developer's count of versions is the patch manager's.
THEOREM DeliveryInvariance == DeliverySpec => []DeliveryInv
<1>1. DeliveryInv /\ [DeliveryNext]_deliveryVars => DeliveryInv'
  BY InvariantKept, ExpectedKept, FitsKept DEF DeliveryInv
<1> QED BY InitDelivery, <1>1, PTL DEF DeliverySpec

\* A wrapper in VM mode unpacks by the signature of the bytecode it runs, and
\* of its own function, until something is rolled back (patch_manager.cpp:48-56,
\* runtime.cpp:101).
THEOREM SignaturesStayInStep == DeliverySpec => []SignatureInStep
<1>1. DeliveryInv => SignatureInStep
  BY DEF DeliveryInv, WrappersFit, WrapperFits, SignatureInStep
<1> QED BY <1>1, DeliveryInvariance, PTL

-----------------------------------------------------------------------------
(* Versions: numbers, names and the functions that bear them. *)

\* Of some positions of a sequence there is a last.
LEMMA LastOfSome ==
    ASSUME NEW n \in Nat, NEW T, T \subseteq 1 .. n, T # {}
    PROVE  \E k \in T : \A j \in T : j <= k
<1> DEFINE D == {i \in Nat : n - i \in T}
<1>1. PICK t \in T : TRUE
  OBVIOUS
<1>2. n - t \in D
  BY <1>1
<1>3. PICK i \in D : \A j \in D : ~ (<<j, i>> \in OpToRel(<, Nat))
  BY <1>2, NatLessThanWellFounded, WFMin
<1>4. ASSUME NEW j \in T PROVE j <= n - i
  <2>1. n - j \in D
    BY <1>4
  <2>2. ~ (n - j < i)
    BY <1>3, <2>1 DEF OpToRel
  <2>3. i \in Nat
    BY DEF D
  <2>4. j \in 1 .. n
    BY <1>4
  <2> QED BY <2>2, <2>3, <2>4
<1> QED BY <1>3, <1>4

\* A position with a property that some position has, and the last one.
LEMMA SequenceDomain ==
    ASSUME NEW v \in Versions
    PROVE  \E n \in Nat : DOMAIN Compiled[v].functions = 1 .. n
<1> DEFINE fns == Compiled[v].functions
<1>1. PICK S : fns \in Seq(S)
  BY NumberingAssumption
<1> QED BY <1>1

LEMMA NamedIsThere ==
    ASSUME NEW v \in Versions, NEW n \in Names(Compiled[v])
    PROVE  \E k \in DOMAIN Compiled[v].functions :
              Named(Compiled[v], n) = Compiled[v].functions[k] /\ Named(Compiled[v], n).name = n
<1> DEFINE fns == Compiled[v].functions
           T == {k \in DOMAIN fns : fns[k].name = n}
<1>1. PICK l \in Nat : DOMAIN fns = 1 .. l
  BY SequenceDomain
<1>2. T # {}
  BY DEF Names
<1>3. PICK k \in T : \A j \in T : j <= k
  BY <1>1, <1>2, LastOfSome
<1>4. k \in DOMAIN fns /\ fns[k].name = n /\ \A j \in DOMAIN fns : fns[j].name = n => j <= k
  BY <1>3
<1> QED BY <1>4 DEF Named

\* Two functions of a version do not share a number.
LEMMA NumbersDiffer ==
    ASSUME NEW v \in Versions, NEW m \in Names(Compiled[v]), NEW n \in Names(Compiled[v]),
           Named(Compiled[v], m).func_id = Named(Compiled[v], n).func_id
    PROVE  m = n
<1>1. PICK j \in DOMAIN Compiled[v].functions :
         Named(Compiled[v], m) = Compiled[v].functions[j] /\ Named(Compiled[v], m).name = m
  BY NamedIsThere
<1>2. PICK k \in DOMAIN Compiled[v].functions :
         Named(Compiled[v], n) = Compiled[v].functions[k] /\ Named(Compiled[v], n).name = n
  BY NamedIsThere
<1>3. j = k
  BY <1>1, <1>2, NumberingAssumption
<1> QED BY <1>1, <1>2, <1>3

\* Registering a file leaves each of its named functions under its number.
LEMMA RegisterAllHas ==
    ASSUME NEW v \in Versions, NEW n \in Names(Compiled[v]), NEW m
    PROVE  LET fn == Named(Compiled[v], n)
               all == RegisterAll(m, Compiled[v].functions)
           IN  fn.func_id \in DOMAIN all /\ all[fn.func_id] = Body(fn)
<1> DEFINE fns == Compiled[v].functions
           ids == {fns[k].func_id : k \in DOMAIN fns}
           IsLast(f, k) == /\ fns[k].func_id = f
                           /\ \A j \in DOMAIN fns : fns[j].func_id = f => j <= k
           LastOf(f) == CHOOSE k \in DOMAIN fns : IsLast(f, k)
           fn == Named(Compiled[v], n)
<1>1. PICK k \in DOMAIN fns : fn = fns[k]
  BY NamedIsThere
<1>2. PICK l \in Nat : DOMAIN fns = 1 .. l
  BY SequenceDomain
<1>3. \A j \in DOMAIN fns : fns[j].func_id = fn.func_id => j = k
  BY <1>1, NumberingAssumption
<1>4. IsLast(fn.func_id, k)
  BY <1>1, <1>2, <1>3
<1>5. LastOf(fn.func_id) \in DOMAIN fns /\ IsLast(fn.func_id, LastOf(fn.func_id))
  BY <1>1, <1>4
<1>6. LastOf(fn.func_id) = k
  BY <1>3, <1>5
<1>7. fn.func_id \in ids
  BY <1>1
<1>8. RegisterAll(m, fns) = [f \in DOMAIN m \cup ids |-> IF f \in ids THEN Body(fns[LastOf(f)]) ELSE m[f]]
  BY DEF RegisterAll
<1> QED BY <1>1, <1>6, <1>7, <1>8

-----------------------------------------------------------------------------
(* What hotdiff lists. *)

\* s lists the set S: each element once.
Lists(s, S) ==
    /\ s \in Seq(S)
    /\ \A i, j \in DOMAIN s : s[i] = s[j] => i = j
    /\ \A e \in S : \E i \in DOMAIN s : s[i] = e

LEMMA ListingOf ==
    ASSUME NEW S, IsFiniteSet(S), NEW s \in SetToSeqs(S)
    PROVE  Lists(s, S)
<1> DEFINE n == Cardinality(S)
<1>1. n \in Nat
  BY FS_CardinalityType
<1>2. s \in [1 .. n -> S] /\ \A i, j \in 1 .. n : i # j => s[i] # s[j]
  BY DEF SetToSeqs
<1>3. IsFiniteSet(1 .. n) /\ Cardinality(1 .. n) = n
  BY <1>1, FS_Interval
<1>4. s \in Injection(1 .. n, S)
  BY <1>2 DEF Injection, IsInjective
<1>5. s \in Surjection(1 .. n, S)
  BY <1>3, <1>4, FS_Injection
<1>6. \A e \in S : \E i \in 1 .. n : s[i] = e
  BY <1>5 DEF Surjection
<1> QED BY <1>1, <1>2, <1>6 DEF Lists

LEMMA FiniteNames ==
    ASSUME NEW v \in Versions
    PROVE  IsFiniteSet(Names(Compiled[v]))
<1> DEFINE fns == Compiled[v].functions
           name == [k \in DOMAIN fns |-> fns[k].name]
<1>1. PICK n \in Nat : DOMAIN fns = 1 .. n
  BY SequenceDomain
<1>2. IsFiniteSet(DOMAIN fns)
  BY <1>1, FS_Interval
<1>3. name \in Surjection(DOMAIN fns, Names(Compiled[v]))
  BY DEF Surjection, Names
<1> QED BY <1>2, <1>3, FS_Surjection

\* The entries of one kind are as many as the names they are of.
LEMMA FiniteEntries ==
    ASSUME NEW N, IsFiniteSet(N), NEW f, DOMAIN f = N
    PROVE  IsFiniteSet({f[n] : n \in N})
<1> DEFINE S == {f[n] : n \in N}
           g == [n \in N |-> f[n]]
<1>1. g \in Surjection(N, S)
  BY DEF Surjection
<1> QED BY <1>1, FS_Surjection

\* The files hold the functions that were written to them.
LEMMA LoadedIsCompiled ==
    ASSUME NEW v \in Versions
    PROVE  /\ Names(Loaded[v]) = Names(Compiled[v])
           /\ \A n : Named(Loaded[v], n) = Named(Compiled[v], n)
BY FilesAssumption DEF Names, Named

\* A difference is a listing of what goes and what changes, and behind it one
\* of what is new.
LEMMA DifferenceParts ==
    ASSUME NEW p \in Asked, NEW manifest \in Differences[p]
    PROVE  LET u == Compiled[p[1]]
               w == Compiled[p[2]]
               gone    == {RemovedEntry(u, n, NoFunction) : n \in Names(u) \ Names(w)}
               changed == {ModifiedEntry(u, w, n) :
                              n \in {m \in Names(u) \cap Names(w) : ~ FunctionsEqual(Named(u, m), Named(w, m))}}
               added   == {AddedEntry(w, n) : n \in Names(w) \ Names(u)}
           IN  \E first \in SetToSeqs(gone \cup changed), last \in SetToSeqs(added) :
                  /\ manifest.entries = first \o last
                  /\ IsFiniteSet(gone \cup changed) /\ IsFiniteSet(added)
<1> DEFINE u == Compiled[p[1]]
           w == Compiled[p[2]]
           removed  == Names(u) \ Names(w)
           modified == {n \in Names(u) \cap Names(w) : ~ FunctionsEqual(Named(u, n), Named(w, n))}
           new      == Names(w) \ Names(u)
           gone    == {RemovedEntry(u, n, NoFunction) : n \in removed}
           changed == {ModifiedEntry(u, w, n) : n \in modified}
           added   == {AddedEntry(w, n) : n \in new}
<1>1. p[1] \in Versions /\ p[2] \in Versions
  BY DeliveryAssumption
<1>2. IsFiniteSet(Names(u)) /\ IsFiniteSet(Names(w))
  BY <1>1, FiniteNames
<1>3. IsFiniteSet(removed) /\ IsFiniteSet(modified) /\ IsFiniteSet(new)
  BY <1>2, FS_Subset
<1>4. IsFiniteSet(gone)
  <2> DEFINE f == [n \in removed |-> RemovedEntry(u, n, NoFunction)]
  <2>1. IsFiniteSet({f[n] : n \in removed})
    BY <1>3, FiniteEntries
  <2> QED BY <2>1
<1>5. IsFiniteSet(changed)
  <2> DEFINE f == [n \in modified |-> ModifiedEntry(u, w, n)]
  <2>1. IsFiniteSet({f[n] : n \in modified})
    BY <1>3, FiniteEntries
  <2> QED BY <2>1
<1>6. IsFiniteSet(added)
  <2> DEFINE f == [n \in new |-> AddedEntry(w, n)]
  <2>1. IsFiniteSet({f[n] : n \in new})
    BY <1>3, FiniteEntries
  <2> QED BY <2>1
<1>7. IsFiniteSet(gone \cup changed)
  BY <1>4, <1>5, FS_Union
<1>8. /\ Names(Loaded[p[1]]) = Names(u) /\ Names(Loaded[p[2]]) = Names(w)
      /\ \A n : Named(Loaded[p[1]], n) = Named(u, n) /\ Named(Loaded[p[2]], n) = Named(w, n)
  BY <1>1, LoadedIsCompiled
<1>9. /\ \A n : RemovedEntry(Loaded[p[1]], n, NoFunction) = RemovedEntry(u, n, NoFunction)
      /\ \A n : ModifiedEntry(Loaded[p[1]], Loaded[p[2]], n) = ModifiedEntry(u, w, n)
      /\ \A n : AddedEntry(Loaded[p[2]], n) = AddedEntry(w, n)
  BY <1>8 DEF RemovedEntry, ModifiedEntry, AddedEntry
<1>10. manifest \in Diff(Loaded[p[1]], Loaded[p[2]], NoFunction)
  BY DEF Differences
<1>11. \E first \in SetToSeqs(gone \cup changed), last \in SetToSeqs(added) :
          manifest.entries = first \o last
  <2> DEFINE lu == Loaded[p[1]]
             lw == Loaded[p[2]]
             lgone    == {RemovedEntry(lu, n, NoFunction) : n \in Names(lu) \ Names(lw)}
             lchanged == {ModifiedEntry(lu, lw, n) :
                             n \in {m \in Names(lu) \cap Names(lw) : ~ FunctionsEqual(Named(lu, m), Named(lw, m))}}
             ladded   == {AddedEntry(lw, n) : n \in Names(lw) \ Names(lu)}
  <2>1. PICK first \in SetToSeqs(lgone \cup lchanged), last \in SetToSeqs(ladded) :
           manifest = [version |-> 1, base_version_hash |-> ModuleHash(lu), entries |-> first \o last]
    <3>1. PICK lists \in SetToSeqs(lgone \cup lchanged) \X SetToSeqs(ladded) :
             manifest = [version |-> 1, base_version_hash |-> ModuleHash(lu), entries |-> lists[1] \o lists[2]]
      BY <1>10 DEF Diff
    <3> QED BY <3>1
  <2>2. manifest.entries = first \o last
    BY <2>1
  <2>3. lgone = gone
    BY <1>8, <1>9
  <2>4. ladded = added
    BY <1>8, <1>9
  <2>5. {m \in Names(lu) \cap Names(lw) : ~ FunctionsEqual(Named(lu, m), Named(lw, m))} = modified
    BY <1>8
  <2>6. lchanged = changed
    BY <1>9, <2>5
  <2> QED BY <2>1, <2>2, <2>3, <2>4, <2>6
<1> QED BY <1>6, <1>7, <1>11

LEMMA Concatenated ==
    ASSUME NEW S, NEW T, S \cap T = {}, NEW s, Lists(s, S), NEW t, Lists(t, T)
    PROVE  Lists(s \o t, S \cup T)
<1> DEFINE c == s \o t
<1> USE DEF Lists
<1>1. /\ DOMAIN s = 1 .. Len(s) /\ DOMAIN t = 1 .. Len(t) /\ Len(s) \in Nat /\ Len(t) \in Nat
      /\ \A i \in 1 .. Len(s) : s[i] \in S
      /\ \A i \in 1 .. Len(t) : t[i] \in T
  OBVIOUS
<1>2. s \in Seq(S \cup T) /\ t \in Seq(S \cup T)
  BY <1>1
<1>3. /\ DOMAIN c = 1 .. Len(s) + Len(t)
      /\ \A i \in DOMAIN c : c[i] = IF i <= Len(s) THEN s[i] ELSE t[i - Len(s)]
  BY <1>2
<1> HIDE DEF c
<1>4. \A i \in DOMAIN c : \/ i \in 1 .. Len(s) /\ c[i] = s[i] /\ c[i] \in S
                          \/ i \notin 1 .. Len(s) /\ i - Len(s) \in 1 .. Len(t) /\ c[i] = t[i - Len(s)] /\ c[i] \in T
  BY <1>1, <1>3
<1>5. ASSUME NEW i \in DOMAIN c, NEW j \in DOMAIN c, c[i] = c[j] PROVE i = j
  <2>1. CASE i \in 1 .. Len(s) /\ j \in 1 .. Len(s)
    BY <1>1, <1>4, <1>5, <2>1
  <2>2. CASE i \notin 1 .. Len(s) /\ j \notin 1 .. Len(s)
    <3>1. i - Len(s) = j - Len(s)
      BY <1>1, <1>4, <1>5, <2>2
    <3> QED BY <1>1, <1>3, <1>5, <3>1
  <2>3. CASE (i \in 1 .. Len(s)) # (j \in 1 .. Len(s))
    BY <1>4, <1>5, <2>3
  <2> QED BY <2>1, <2>2, <2>3
<1>6. \A i \in DOMAIN s : i \in DOMAIN c /\ c[i] = s[i]
  BY <1>1, <1>3
<1>7. \A i \in DOMAIN t : Len(s) + i \in DOMAIN c /\ c[Len(s) + i] = t[i]
  BY <1>1, <1>3
<1>8. c \in Seq(S \cup T)
  BY <1>2 DEF c
<1>9. \A e \in S \cup T : \E i \in DOMAIN c : c[i] = e
  BY <1>6, <1>7
<1> QED BY <1>5, <1>8, <1>9 DEF c

\* Entries that turn module u into module w.
Turns(e, u, w) ==
    /\ \A i, j \in DOMAIN e : e[i].func_id = e[j].func_id => i = j
    /\ \A i \in DOMAIN e :
         \/ \E n \in Names(u) \ Names(w) :
               e[i].action = kRemoved /\ e[i].func_id = Named(u, n).func_id
         \/ \E n \in Names(w) :
               /\ e[i].action = (IF n \in Names(u) THEN kModified ELSE kAdded)
               /\ e[i].func_id = Named(w, n).func_id
               /\ e[i].body = Body(Named(w, n))
    /\ \A n \in Names(w) :
         n \notin Names(u) \/ ~ FunctionsEqual(Named(u, n), Named(w, n)) =>
            \E i \in DOMAIN e : /\ e[i].action # kRemoved
                                /\ e[i].func_id = Named(w, n).func_id
                                /\ e[i].body = Body(Named(w, n))
    /\ \A n \in Names(u) \ Names(w) :
         \E i \in DOMAIN e : e[i].action = kRemoved /\ e[i].func_id = Named(u, n).func_id

\* The entries of a manifest as the patch manager reads them.
Entries(manifest) ==
    LET e == manifest.entries
    IN  [k \in DOMAIN e |-> [action |-> e[k].action, func_id |-> e[k].func_id,
                             body |-> Body(e[k].new_func)]]

\* The difference of compatible versions has an entry for each function that is
\* not the same in both, and no two of one number.
LEMMA DifferenceTurns ==
    ASSUME NEW p \in Asked, Compatible(p), NEW manifest \in Differences[p]
    PROVE  Turns(Entries(manifest), Compiled[p[1]], Compiled[p[2]])
<1> DEFINE u == Compiled[p[1]]
           w == Compiled[p[2]]
           e == manifest.entries
           removed  == Names(u) \ Names(w)
           modified == {n \in Names(u) \cap Names(w) : ~ FunctionsEqual(Named(u, n), Named(w, n))}
           new      == Names(w) \ Names(u)
           gone    == {RemovedEntry(u, n, NoFunction) : n \in removed}
           changed == {ModifiedEntry(u, w, n) : n \in modified}
           added   == {AddedEntry(w, n) : n \in new}
<1>1. p[1] \in Versions /\ p[2] \in Versions
  BY DeliveryAssumption
<1>2. PICK first \in SetToSeqs(gone \cup changed), last \in SetToSeqs(added) :
         e = first \o last /\ IsFiniteSet(gone \cup changed) /\ IsFiniteSet(added)
  BY DifferenceParts
<1>3. \A x \in gone : \E n \in removed : x.action = kRemoved /\ x.func_id = Named(u, n).func_id
  BY DEF RemovedEntry, kRemoved
<1>4. \A n \in Names(u) \cap Names(w) : Named(u, n).func_id = Named(w, n).func_id
  BY DEF Compatible
<1>5. \A n \in modified : /\ ModifiedEntry(u, w, n).action = kModified
                          /\ ModifiedEntry(u, w, n).func_id = Named(w, n).func_id
                          /\ Body(ModifiedEntry(u, w, n).new_func) = Body(Named(w, n))
  <2> TAKE n \in modified
  <2>1. PICK fn : fn = Named(w, n)
    OBVIOUS
  <2>2. PICK id : id = Named(u, n).func_id
    OBVIOUS
  <2>3. Body([fn EXCEPT !.func_id = id]) = Body(fn)
    BY DEF Body
  <2>4. ModifiedEntry(u, w, n).new_func = [fn EXCEPT !.func_id = id]
    BY <2>1, <2>2 DEF ModifiedEntry
  <2> QED BY <1>4, <2>1, <2>3, <2>4 DEF ModifiedEntry, kModified
<1>6. \A n \in new : /\ AddedEntry(w, n).action = kAdded
                     /\ AddedEntry(w, n).func_id = Named(w, n).func_id
                     /\ AddedEntry(w, n).new_func = Named(w, n)
  BY DEF AddedEntry, kAdded
<1>7. \A n \in removed : RemovedEntry(u, n, NoFunction).action = kRemoved
                         /\ RemovedEntry(u, n, NoFunction).func_id = Named(u, n).func_id
  BY DEF RemovedEntry, kRemoved
<1>8. /\ \A m, n \in Names(u) : Named(u, m).func_id = Named(u, n).func_id => m = n
      /\ \A m, n \in Names(w) : Named(w, m).func_id = Named(w, n).func_id => m = n
  BY <1>1, NumbersDiffer
<1>9. \A n \in new, m \in Names(u) : Named(w, n).func_id # Named(u, m).func_id
  BY DEF Compatible
<1>10. \A n \in modified : n \in Names(u) /\ n \in Names(w) /\ n \notin removed /\ n \notin new
  OBVIOUS
<1> HIDE DEF u, w, e
\* Of two entries with one number.
<1>11. ASSUME NEW x \in gone \cup changed \cup added, NEW y \in gone \cup changed \cup added,
              x.func_id = y.func_id
       PROVE  x = y
  <2>1. CASE x \in gone /\ y \in gone
    <3>1. PICK m \in removed, n \in removed : x = RemovedEntry(u, m, NoFunction) /\ y = RemovedEntry(u, n, NoFunction)
      BY <2>1
    <3> QED BY <1>7, <1>8, <1>11, <3>1
  <2>2. CASE x \in changed /\ y \in changed
    <3>1. PICK m \in modified, n \in modified : x = ModifiedEntry(u, w, m) /\ y = ModifiedEntry(u, w, n)
      BY <2>2
    <3> QED BY <1>5, <1>8, <1>10, <1>11, <3>1
  <2>3. CASE x \in added /\ y \in added
    <3>1. PICK m \in new, n \in new : x = AddedEntry(w, m) /\ y = AddedEntry(w, n)
      BY <2>3
    <3> QED BY <1>6, <1>8, <1>11, <3>1
  <2>4. \A g \in gone, c \in changed : g.func_id # c.func_id
    <3> TAKE g \in gone, c \in changed
    <3>1. PICK m \in removed, n \in modified : g = RemovedEntry(u, m, NoFunction) /\ c = ModifiedEntry(u, w, n)
      OBVIOUS
    <3>2. g.func_id = Named(u, m).func_id /\ c.func_id = Named(u, n).func_id
      BY <1>4, <1>5, <1>7, <1>10, <3>1
    <3> QED BY <1>8, <1>10, <3>1, <3>2
  <2>5. \A g \in gone \cup changed, a \in added : g.func_id # a.func_id
    <3> TAKE g \in gone \cup changed, a \in added
    <3>1. PICK n \in new : a = AddedEntry(w, n)
      OBVIOUS
    <3>2. \E m \in Names(u) : g.func_id = Named(u, m).func_id
      BY <1>4, <1>5, <1>7, <1>10
    <3> QED BY <1>6, <1>9, <3>1, <3>2
  <2> QED BY <1>11, <2>1, <2>2, <2>3, <2>4, <2>5
<1>12. /\ \A g \in gone \cup changed : g.action # kAdded
       /\ \A a \in added : a.action = kAdded
  BY <1>5, <1>6, <1>7 DEF kAdded, kModified, kRemoved
<1>13. (gone \cup changed) \cap added = {}
  BY <1>12
<1>14. Lists(first, gone \cup changed) /\ Lists(last, added)
  <2> HIDE DEF gone, changed, added
  <2> QED BY <1>2, ListingOf
<1>15. Lists(e, gone \cup changed \cup added)
  <2> HIDE DEF gone, changed, added
  <2> QED BY <1>2, <1>13, <1>14, Concatenated
<1> USE DEF Lists
<1>16. \A i, j \in DOMAIN e : e[i].func_id = e[j].func_id => i = j
  <2> HIDE DEF gone, changed, added
  <2> QED BY <1>11, <1>15
<1>17. ASSUME NEW i \in DOMAIN e
       PROVE  \/ \E n \in removed : e[i].action = kRemoved /\ e[i].func_id = Named(u, n).func_id
              \/ \E n \in Names(w) :
                    /\ e[i].action = (IF n \in Names(u) THEN kModified ELSE kAdded)
                    /\ e[i].func_id = Named(w, n).func_id
                    /\ Body(e[i].new_func) = Body(Named(w, n))
  <2>1. CASE e[i] \in gone
    BY <1>3, <2>1
  <2>2. CASE e[i] \in changed
    <3>1. PICK n \in modified : e[i] = ModifiedEntry(u, w, n)
      BY <2>2
    <3> QED BY <1>5, <1>10, <3>1
  <2>3. CASE e[i] \in added
    <3>1. PICK n \in new : e[i] = AddedEntry(w, n)
      BY <2>3
    <3> QED BY <1>6, <3>1
  <2> QED BY <1>15, <1>17, <2>1, <2>2, <2>3
<1>18. ASSUME NEW n \in Names(w), n \notin Names(u) \/ ~ FunctionsEqual(Named(u, n), Named(w, n))
       PROVE  \E i \in DOMAIN e : /\ e[i].action # kRemoved
                                  /\ e[i].func_id = Named(w, n).func_id
                                  /\ Body(e[i].new_func) = Body(Named(w, n))
  <2>1. CASE n \in new
    <3>1. PICK i \in DOMAIN e : e[i] = AddedEntry(w, n)
      BY <1>15, <2>1
    <3> QED BY <1>6, <2>1, <3>1 DEF kAdded, kRemoved
  <2>2. CASE n \in modified
    <3>1. PICK i \in DOMAIN e : e[i] = ModifiedEntry(u, w, n)
      BY <1>15, <2>2
    <3> QED BY <1>5, <2>2, <3>1 DEF kModified, kRemoved
  <2> QED BY <1>18, <2>1, <2>2
<1>19. ASSUME NEW n \in removed
       PROVE  \E i \in DOMAIN e : e[i].action = kRemoved /\ e[i].func_id = Named(u, n).func_id
  <2>1. PICK i \in DOMAIN e : e[i] = RemovedEntry(u, n, NoFunction)
    BY <1>15, <1>19
  <2> QED BY <1>7, <1>19, <2>1
<1> DEFINE q == Entries(manifest)
<1>20. /\ DOMAIN q = DOMAIN e
       /\ \A k \in DOMAIN e : /\ q[k].action = e[k].action
                              /\ q[k].func_id = e[k].func_id
                              /\ q[k].body = Body(e[k].new_func)
  BY DEF Entries, e
<1> HIDE DEF q, gone, changed, added
<1>21. \A i, j \in DOMAIN q : q[i].func_id = q[j].func_id => i = j
  BY <1>16, <1>20
<1>22. ASSUME NEW i \in DOMAIN q
       PROVE  \/ \E n \in Names(u) \ Names(w) : q[i].action = kRemoved /\ q[i].func_id = Named(u, n).func_id
              \/ \E n \in Names(w) :
                    /\ q[i].action = (IF n \in Names(u) THEN kModified ELSE kAdded)
                    /\ q[i].func_id = Named(w, n).func_id
                    /\ q[i].body = Body(Named(w, n))
  BY <1>17, <1>20, <1>22
<1>23. ASSUME NEW n \in Names(w), n \notin Names(u) \/ ~ FunctionsEqual(Named(u, n), Named(w, n))
       PROVE  \E i \in DOMAIN q : /\ q[i].action # kRemoved
                                  /\ q[i].func_id = Named(w, n).func_id
                                  /\ q[i].body = Body(Named(w, n))
  BY <1>18, <1>20, <1>23
<1>24. ASSUME NEW n \in Names(u) \ Names(w)
       PROVE  \E i \in DOMAIN q : q[i].action = kRemoved /\ q[i].func_id = Named(u, n).func_id
  BY <1>19, <1>20, <1>24
<1> QED BY <1>21, <1>22, <1>23, <1>24 DEF Turns, u, w, q

-----------------------------------------------------------------------------
(* What a patch does to the version that it was made for. *)

LEMMA PatchTurns ==
    ASSUME FileIsDifference, patch_file # <<>>, made_for \in Asked, Compatible(made_for)
    PROVE  Turns(FromFile, Compiled[made_for[1]], Compiled[made_for[2]])
<1>1. PICK manifest \in Differences[made_for] : patch_file = WritePatchManifest(manifest)
  BY DEF FileIsDifference
<1>2. ReadPatchManifest(patch_file).entries = manifest.entries
  BY <1>1, FilesAssumption
<1>3. FromFile = Entries(manifest)
  BY <1>2 DEF FromFile, Entries
<1> QED BY <1>1, <1>3, DifferenceTurns

\* Functions of one name that the differ takes to be equal are equal.
LEMMA EqualIsSame ==
    ASSUME NEW v \in Versions, NEW w \in Versions,
           NEW n \in Names(Compiled[v]) \cap Names(Compiled[w]),
           FunctionsEqual(Named(Compiled[v], n), Named(Compiled[w], n))
    PROVE  Body(Named(Compiled[v], n)) = Body(Named(Compiled[w], n))
<1>1. Named(Compiled[v], n).param_kinds = Named(Compiled[w], n).param_kinds
  <2>1. <<v, w>> \in Versions \X Versions /\ <<v, w>>[1] = v /\ <<v, w>>[2] = w
    OBVIOUS
  <2> QED BY <2>1, ManglingAssumption
<1>2. /\ Named(Compiled[v], n).code = Named(Compiled[w], n).code
      /\ Named(Compiled[v], n).ret_kind = Named(Compiled[w], n).ret_kind
  BY DEF FunctionsEqual
<1>3. <<v, w>> \in Versions \X Versions /\ <<v, w>>[1] = v /\ <<v, w>>[2] = w
  OBVIOUS
<1> QED BY <1>1, <1>2, <1>3, GenerationAssumption

\* An empty difference of compatible versions: they have the same functions
\* under the same numbers.
LEMMA EmptyDifference ==
    ASSUME NEW p \in Asked, Compatible(p), NEW manifest \in Differences[p],
           manifest.entries = <<>>
    PROVE  /\ Numbers(p[1]) \subseteq Numbers(p[2])
           /\ \A n \in Names(Compiled[p[2]]) :
                 /\ n \in Names(Compiled[p[1]])
                 /\ Named(Compiled[p[1]], n).func_id = Named(Compiled[p[2]], n).func_id
                 /\ Body(Named(Compiled[p[1]], n)) = Body(Named(Compiled[p[2]], n))
<1> DEFINE u == Compiled[p[1]]
           w == Compiled[p[2]]
<1>1. p[1] \in Versions /\ p[2] \in Versions
  BY DeliveryAssumption
<1>2. /\ \A n \in Names(w) : n \in Names(u) /\ FunctionsEqual(Named(u, n), Named(w, n))
      /\ \A n \in Names(u) : n \in Names(w)
  <2>1. DOMAIN Entries(manifest) = {}
    BY DEF Entries
  <2>2. Turns(Entries(manifest), u, w)
    BY DifferenceTurns
  <2> QED BY <2>1, <2>2 DEF Turns
<1>3. \A n \in Names(u) \cap Names(w) : Named(u, n).func_id = Named(w, n).func_id
  BY DEF Compatible
<1>4. \A n \in Names(w) : Body(Named(u, n)) = Body(Named(w, n))
  BY <1>1, <1>2, EqualIsSame
<1> QED BY <1>2, <1>3, <1>4 DEF Numbers

-----------------------------------------------------------------------------
(* What a rollback brings back, after a step. *)

LEMMA Depth ==
    ASSUME DeliveryInv, expected # <<>>
    PROVE  /\ history \in Seq(PatchRecord) /\ record \in PatchRecord /\ Len(history) \in Nat
           /\ expected \in Seq(Versions \cup {Unknown}) /\ Len(expected) = Len(history) + 1
           /\ DOMAIN expected = Layers /\ Layers = 1 .. Len(history) + 1
           /\ Current = expected[Len(expected)]
           /\ Layer(Len(history) + 1) = record
<1>1. /\ history \in Seq(PatchRecord) /\ record \in PatchRecord
      /\ expected \in Seq(Versions \cup {Unknown}) /\ Len(expected) = Len(history) + 1
  BY DEF DeliveryInv, IInv, TypeOK, OneVersionPerPatch
<1>2. Len(history) \in Nat /\ DOMAIN expected = 1 .. Len(history) + 1
  BY <1>1
<1> QED BY <1>1, <1>2 DEF Layers, Layer, Current, Last

\* A record as it is, or with the present code of one more function.
LEMMA BackKept ==
    ASSUME Len(history) \in Nat, history' = history, record \in PatchRecord, NEW f,
           \/ record'.old_bytecodes = record.old_bytecodes
           \/ /\ f \in DOMAIN functions /\ f \notin SavedIn(record)
              /\ record'.old_bytecodes =
                    Append(record.old_bytecodes, [func_id |-> f, body |-> functions[f]]),
           \A g \in DOMAIN functions : g # f => g \in DOMAIN functions' /\ functions'[g] = functions[g],
           NEW n \in Layers, NEW g, NEW body, ComesBack(n, g, body),
           g = f /\ record'.old_bytecodes = record.old_bytecodes /\ f \in DOMAIN functions =>
              \/ f \in DOMAIN functions' /\ functions'[f] = functions[f]
              \/ \E j \in Layers : n <= j /\ f \in SavedIn(Layer(j))
    PROVE  ComesBack(n, g, body)'
<1> DEFINE old == record.old_bytecodes
<1>0. PICK top \in Nat : top = Len(history) + 1
  OBVIOUS
<1>1. /\ Layers = 1 .. top /\ Layers' = Layers
      /\ \A k \in Layers : k < top => Layer(k) = history[k] /\ Layer(k)' = history[k]
      /\ Layer(top) = record /\ Layer(top)' = record'
  BY <1>0 DEF Layers, Layer
<1>2. \A k \in Layers : k < top => SavedIn(Layer(k))' = SavedIn(Layer(k)) /\ (Saves(k, g, body) => Saves(k, g, body)')
  BY <1>1 DEF SavedIn, Saves
<1>3. old \in Seq(VmFunction)
  BY DEF PatchRecord
<1>4. CASE record'.old_bytecodes = old
  <2>1. SavedIn(Layer(top))' = SavedIn(Layer(top)) /\ (Saves(top, g, body) => Saves(top, g, body)')
    BY <1>1, <1>4 DEF SavedIn, Saves
  <2>2. \A k \in Layers : SavedIn(Layer(k))' = SavedIn(Layer(k)) /\ (Saves(k, g, body) => Saves(k, g, body)')
    BY <1>1, <1>2, <2>1
  <2>3. CASE \E k \in Layers : /\ n <= k /\ Saves(k, g, body)
                               /\ \A j \in Layers : n <= j /\ j < k => g \notin SavedIn(Layer(j))
    BY <1>1, <2>2, <2>3 DEF ComesBack
  <2>4. CASE /\ \A j \in Layers : n <= j => g \notin SavedIn(Layer(j))
             /\ g \in DOMAIN functions /\ functions[g] = body
    <3>1. g \in DOMAIN functions' /\ functions'[g] = body
      BY <1>4, <2>4
    <3> QED BY <1>1, <2>2, <2>4, <3>1 DEF ComesBack
  <2> QED BY <2>3, <2>4 DEF ComesBack
<1>5. CASE /\ f \in DOMAIN functions /\ f \notin SavedIn(record)
           /\ record'.old_bytecodes = Append(old, [func_id |-> f, body |-> functions[f]])
  <2> DEFINE entry == [func_id |-> f, body |-> functions[f]]
             new == Append(old, entry)
  <2>1. /\ DOMAIN new = DOMAIN old \cup {Len(old) + 1} /\ new[Len(old) + 1] = entry
        /\ \A i \in DOMAIN old : new[i] = old[i]
        /\ DOMAIN old = 1 .. Len(old) /\ DOMAIN new = 1 .. Len(new)
    <3>1. PICK S : old \in Seq(S) /\ entry \in S
      <4>1. old \in Seq(VmFunction \cup {entry}) /\ entry \in VmFunction \cup {entry}
        BY <1>3
      <4> QED BY <4>1
    <3> QED BY <3>1, AppendElements
  <2> HIDE DEF new
  <2>2. record'.old_bytecodes = new
    BY <1>5 DEF new
  <2>3. SavedIn(Layer(top))' = SavedIn(Layer(top)) \cup {f}
    <3>1. SavedIn(Layer(top))' = {new[i].func_id : i \in DOMAIN new}
      <4>1. Layer(top)'.old_bytecodes = new
        BY <1>1, <2>2
      <4> QED BY <2>1, <4>1 DEF SavedIn
    <3>2. SavedIn(Layer(top)) = {old[i].func_id : i \in DOMAIN old}
      BY <1>1, <2>1 DEF SavedIn
    <3>3. entry.func_id = f
      OBVIOUS
    <3> QED BY <2>1, <3>1, <3>2, <3>3
  <2>4. Saves(top, g, body) => Saves(top, g, body)'
    BY <1>1, <2>1, <2>2 DEF Saves
  <2>5. Len(old) + 1 \in DOMAIN Layer(top)'.old_bytecodes /\ Layer(top)'.old_bytecodes[Len(old) + 1] = entry
    BY <1>1, <2>1, <2>2
  <2>6. CASE \E k \in Layers : /\ n <= k /\ Saves(k, g, body)
                               /\ \A j \in Layers : n <= j /\ j < k => g \notin SavedIn(Layer(j))
    <3>1. PICK k \in Layers : /\ n <= k /\ Saves(k, g, body)
                              /\ \A j \in Layers : n <= j /\ j < k => g \notin SavedIn(Layer(j))
      BY <2>6
    <3>2. Saves(k, g, body)'
      BY <1>1, <1>2, <2>4, <3>1
    <3>3. \A j \in Layers : n <= j /\ j < k => g \notin SavedIn(Layer(j))'
      BY <1>1, <1>2, <3>1
    <3> QED BY <1>1, <3>1, <3>2, <3>3 DEF ComesBack
  <2>7. CASE /\ \A j \in Layers : n <= j => g \notin SavedIn(Layer(j))
             /\ g \in DOMAIN functions /\ functions[g] = body
    <3>1. CASE g = f
      <4>1. Saves(top, g, body)'
        BY <2>5, <2>7, <3>1 DEF Saves
      <4>2. \A j \in Layers : n <= j /\ j < top => g \notin SavedIn(Layer(j))'
        BY <1>2, <2>7
      <4> QED BY <1>1, <4>1, <4>2 DEF ComesBack
    <3>2. CASE g # f
      <4>1. g \in DOMAIN functions' /\ functions'[g] = body
        BY <2>7, <3>2
      <4>2. \A j \in Layers : n <= j => g \notin SavedIn(Layer(j))'
        BY <1>1, <1>2, <2>3, <2>7, <3>2
      <4> QED BY <1>1, <4>1, <4>2 DEF ComesBack
    <3> QED BY <3>1, <3>2
  <2> QED BY <2>6, <2>7 DEF ComesBack
<1> QED BY <1>4, <1>5

LEMMA NothingSaved == SavedIn(NoRecord) = {} /\ DOMAIN NoRecord.old_bytecodes = {}
BY DEF NoRecord, NewRecord, SavedIn

\* The record joins the history: what came back comes back.
LEMMA BackPushed ==
    ASSUME Len(history) \in Nat, history \in Seq(PatchRecord), record \in PatchRecord,
           history' = Append(history, record), record' = NoRecord, functions' = functions,
           NEW n \in Layers, NEW g, NEW body, ComesBack(n, g, body)
    PROVE  ComesBack(n, g, body)'
<1>0. PICK top \in Nat : top = Len(history) + 1
  OBVIOUS
<1>1. /\ Len(history') = top /\ history'[top] = record
      /\ \A k \in 1 .. Len(history) : history'[k] = history[k]
  BY <1>0
<1>2. /\ Layers = 1 .. top /\ Layers' = 1 .. top + 1
      /\ \A k \in Layers : Layer(k)' = Layer(k)
      /\ Layer(top + 1)' = NoRecord
  BY <1>0, <1>1 DEF Layers, Layer
<1>3. \A k \in Layers : SavedIn(Layer(k))' = SavedIn(Layer(k)) /\ (Saves(k, g, body) => Saves(k, g, body)')
  BY <1>2 DEF SavedIn, Saves
<1>4. \A x : x \notin SavedIn(Layer(top + 1))'
  BY <1>2, NothingSaved DEF SavedIn
<1>5. CASE \E k \in Layers : /\ n <= k /\ Saves(k, g, body)
                             /\ \A j \in Layers : n <= j /\ j < k => g \notin SavedIn(Layer(j))
  <2>1. PICK k \in Layers : /\ n <= k /\ Saves(k, g, body)
                            /\ \A j \in Layers : n <= j /\ j < k => g \notin SavedIn(Layer(j))
    BY <1>5
  <2>2. k \in Layers' /\ \A j \in Layers' : j < k => j \in Layers
    BY <1>2
  <2> QED BY <1>3, <2>1, <2>2 DEF ComesBack
<1>6. CASE /\ \A j \in Layers : n <= j => g \notin SavedIn(Layer(j))
           /\ g \in DOMAIN functions /\ functions[g] = body
  <2>1. \A j \in Layers' : j \in Layers \/ j = top + 1
    BY <1>2
  <2>2. \A j \in Layers' : n <= j => g \notin SavedIn(Layer(j))'
    <3> SUFFICES ASSUME NEW j \in Layers', n <= j PROVE g \notin SavedIn(Layer(j))'
      OBVIOUS
    <3>1. CASE j \in Layers
      BY <1>3, <1>6, <3>1
    <3>2. CASE j = top + 1
      BY <1>4, <3>2
    <3> QED BY <2>1, <3>1, <3>2
  <2> QED BY <1>6, <2>2 DEF ComesBack
<1> QED BY <1>5, <1>6 DEF ComesBack

\* The last record is gone, and all that it held is in place.
LEMMA BackPopped ==
    ASSUME Len(history) \in Nat \ {0}, history \in Seq(PatchRecord), record = NoRecord,
           history' = SubSeq(history, 1, Len(history) - 1), record' = record, functions' = functions,
           \A i \in DOMAIN Top.old_bytecodes :
              /\ Top.old_bytecodes[i].func_id \in DOMAIN functions
              /\ functions[Top.old_bytecodes[i].func_id] = Top.old_bytecodes[i].body,
           NEW n \in 1 .. Len(history), NEW g, NEW body, ComesBack(n, g, body)
    PROVE  ComesBack(n, g, body)'
<1>0. PICK top \in Nat \ {0} : top = Len(history)
  OBVIOUS
<1>1. /\ Len(history') = top - 1
      /\ \A k \in 1 .. top - 1 : history'[k] = history[k]
  BY <1>0, PopBack
<1>2. /\ Layers = 1 .. top + 1 /\ Layers' = 1 .. top
      /\ \A k \in 1 .. top - 1 : Layer(k)' = Layer(k)
      /\ Layer(top) = Top /\ Layer(top)' = NoRecord /\ Layer(top + 1) = NoRecord
  <2>1. top \in Nat /\ top # 0 /\ Layers = 1 .. top + 1 /\ Layers' = 1 .. top
    BY <1>0, <1>1 DEF Layers
  <2>2. \A k \in 1 .. top - 1 : Layer(k)' = Layer(k)
    BY <1>0, <1>1 DEF Layer
  <2>3. Layer(top) = Top
    BY <1>0 DEF Layer, Top
  <2>4. ~ (top <= top - 1) /\ ~ (top + 1 <= top)
    OBVIOUS
  <2>5. Layer(top)' = NoRecord
    BY <1>0, <1>1, <2>4 DEF Layer
  <2>6. Layer(top + 1) = NoRecord
    BY <1>0, <2>4 DEF Layer
  <2> QED BY <2>1, <2>2, <2>3, <2>5, <2>6
<1>3. \A k \in 1 .. top - 1 : SavedIn(Layer(k))' = SavedIn(Layer(k)) /\ (Saves(k, g, body) => Saves(k, g, body)')
  BY <1>2 DEF SavedIn, Saves
<1>4. \A x : x \notin SavedIn(Layer(top))'
  BY <1>2, NothingSaved DEF SavedIn
<1>5. ~ Saves(top + 1, g, body)
  <2>1. DOMAIN NoRecord.old_bytecodes = {}
    BY DEF NoRecord, NewRecord
  <2> QED BY <1>2, <2>1 DEF Saves
<1>6. CASE \E k \in Layers : /\ n <= k /\ Saves(k, g, body)
                             /\ \A j \in Layers : n <= j /\ j < k => g \notin SavedIn(Layer(j))
  <2>1. PICK k \in Layers : /\ n <= k /\ Saves(k, g, body)
                            /\ \A j \in Layers : n <= j /\ j < k => g \notin SavedIn(Layer(j))
    BY <1>6
  <2>2. CASE k < top
    <3>1. k \in Layers' /\ \A j \in Layers' : j < k => j \in Layers /\ j \in 1 .. top - 1
      BY <1>2, <2>2
    <3>2. Saves(k, g, body)'
      BY <1>2, <1>3, <2>1, <2>2
    <3> QED BY <1>3, <2>1, <3>1, <3>2 DEF ComesBack
  <2>3. CASE k = top
    <3>1. g \in DOMAIN functions' /\ functions'[g] = body
      BY <1>2, <2>1, <2>3 DEF Saves
    <3>2. \A j \in Layers' : j = top \/ (j \in 1 .. top - 1 /\ j \in Layers /\ j < k)
      BY <1>2, <2>3
    <3>3. \A j \in Layers' : n <= j => g \notin SavedIn(Layer(j))'
      <4> SUFFICES ASSUME NEW j \in Layers', n <= j PROVE g \notin SavedIn(Layer(j))'
        OBVIOUS
      <4>1. CASE j = top
        BY <1>4, <4>1
      <4>2. CASE j \in 1 .. top - 1 /\ j \in Layers /\ j < k
        BY <1>3, <2>1, <4>2
      <4> QED BY <3>2, <4>1, <4>2
    <3> QED BY <3>1, <3>3 DEF ComesBack
  <2> QED BY <1>2, <1>5, <2>1, <2>2, <2>3
<1>7. CASE /\ \A j \in Layers : n <= j => g \notin SavedIn(Layer(j))
           /\ g \in DOMAIN functions /\ functions[g] = body
  <2>1. \A j \in Layers' : j = top \/ (j \in 1 .. top - 1 /\ j \in Layers)
    BY <1>2
  <2>2. \A j \in Layers' : n <= j => g \notin SavedIn(Layer(j))'
    <3> SUFFICES ASSUME NEW j \in Layers', n <= j PROVE g \notin SavedIn(Layer(j))'
      OBVIOUS
    <3>1. CASE j = top
      BY <1>4, <3>1
    <3>2. CASE j \in 1 .. top - 1 /\ j \in Layers
      BY <1>3, <1>7, <3>2
    <3> QED BY <2>1, <3>1, <3>2
  <2> QED BY <1>7, <2>2 DEF ComesBack
<1> QED BY <1>6, <1>7 DEF ComesBack

-----------------------------------------------------------------------------
(* One entry of a patch. *)

\* The entry at hand of a patch in progress is gone after the step, its function
\* has the entry's code or none, and what it had is in the record, unless the
\* patch adds it.
EntryApplied(e) ==
    LET f == e.func_id
    IN  /\ todo # <<>> /\ e = Head(todo) /\ todo' = Tail(todo)
        /\ pc = "apply" /\ UNCHANGED <<pc, history, patch_file, made_for, expected>>
        /\ \/ /\ record'.old_bytecodes = record.old_bytecodes
              /\ f \in DOMAIN functions => e.action = kAdded
           \/ /\ f \in DOMAIN functions
              /\ record'.old_bytecodes =
                    Append(record.old_bytecodes, [func_id |-> f, body |-> functions[f]])
        /\ \A g \in DOMAIN functions : g # f => g \in DOMAIN functions' /\ functions'[g] = functions[g]
        /\ e.action # kRemoved => f \in DOMAIN functions' /\ functions'[f] = e.body

LEMMA EntryEffect ==
    ASSUME IInv, PatchStep, ApplyModified \/ ApplyAdded \/ ApplyRemoved
    PROVE  \E e : EntryApplied(e)
<1>1. PICK e : e = Head(todo)
  OBVIOUS
<1> DEFINE f == e.func_id
<1>2. /\ todo # <<>> /\ todo' = Tail(todo) /\ pc = "apply"
      /\ UNCHANGED <<pc, history, patch_file, made_for, expected>>
  BY DEF PatchStep, ApplyModified, ApplyAdded, ApplyRemoved, AtEntry, NextEntry
<1>3. f \in FuncIds /\ record \in PatchRecord /\ RuntimeTypeOK
  <2>1. Head(todo) \in PatchEntry
    BY <1>2 DEF IInv, TypeOK
  <2> QED BY <1>1, <2>1 DEF PatchEntry, IInv, TypeOK
<1>4. CASE ApplyModified
  <2>1. /\ e.action = kModified
        /\ record' = SaveBind(SaveBytecode(record, f), GetWrapperForFunc(f))
        /\ functions' = Put(functions, f, e.body)
    BY <1>1, <1>4 DEF ApplyModified, AtEntry, RegisterFunction
  <2>2. record'.old_bytecodes = IF f \in DOMAIN functions
                                THEN Append(record.old_bytecodes, [func_id |-> f, body |-> functions[f]])
                                ELSE record.old_bytecodes
    BY <1>3, <2>1, SavedFields
  <2>3. /\ \A g \in DOMAIN functions : g # f => g \in DOMAIN functions' /\ functions'[g] = functions[g]
        /\ f \in DOMAIN functions' /\ functions'[f] = e.body
    BY <2>1 DEF Put
  <2> QED BY <1>1, <1>2, <2>2, <2>3 DEF EntryApplied
<1>5. CASE ApplyAdded
  <2>1. /\ e.action = kAdded
        /\ record' = [record EXCEPT !.modified_funcs = Append(@, f)]
        /\ functions' = Put(functions, f, e.body)
    BY <1>1, <1>5 DEF ApplyAdded, AtEntry, RegisterFunction
  <2>2. record'.old_bytecodes = record.old_bytecodes
    BY <1>3, <2>1 DEF PatchRecord
  <2>3. /\ \A g \in DOMAIN functions : g # f => g \in DOMAIN functions' /\ functions'[g] = functions[g]
        /\ f \in DOMAIN functions' /\ functions'[f] = e.body
    BY <2>1 DEF Put
  <2> QED BY <1>1, <1>2, <2>1, <2>2, <2>3 DEF EntryApplied
<1>6. CASE ApplyRemoved
  <2>1. /\ e.action = kRemoved
        /\ record' = SaveBytecode(record, f)
        /\ functions' = Erase(functions, f)
    BY <1>1, <1>6 DEF ApplyRemoved, AtEntry, UnregisterFunction
  <2>2. record'.old_bytecodes = IF f \in DOMAIN functions
                                THEN Append(record.old_bytecodes, [func_id |-> f, body |-> functions[f]])
                                ELSE record.old_bytecodes
    BY <1>3, <2>1 DEF SaveBytecode, PatchRecord
  <2>3. \A g \in DOMAIN functions : g # f => g \in DOMAIN functions' /\ functions'[g] = functions[g]
    BY <2>1 DEF Erase
  <2> QED BY <1>1, <1>2, <2>1, <2>2, <2>3 DEF EntryApplied
<1> QED BY <1>4, <1>5, <1>6

\* The rest of a patch: what is in it was in it.
LEMMA RestOfPatch ==
    ASSUME IInv, NEW e, EntryApplied(e)
    PROVE  /\ 1 \in DOMAIN todo /\ todo[1] = e
           /\ \A k \in DOMAIN todo' : k + 1 \in DOMAIN todo /\ todo'[k] = todo[k + 1] /\ k \in Nat
           /\ \A k \in DOMAIN todo : k # 1 => k - 1 \in DOMAIN todo' /\ todo'[k - 1] = todo[k]
<1>1. todo \in Seq(PatchEntry) /\ todo # <<>> /\ e = Head(todo) /\ todo' = Tail(todo)
  BY DEF IInv, TypeOK, EntryApplied
<1>2. /\ DOMAIN todo = 1 .. Len(todo) /\ Len(todo) \in Nat /\ Len(todo) # 0
      /\ DOMAIN todo' = 1 .. Len(todo) - 1
      /\ \A k \in 1 .. Len(todo) - 1 : todo'[k] = todo[k + 1]
      /\ e = todo[1]
  BY <1>1
<1> QED BY <1>2

\* What the record has after the entry.
LEMMA SavedAfter ==
    ASSUME IInv, NEW e, EntryApplied(e)
    PROVE  /\ SavedIn(record) \subseteq SavedIn(record')
           /\ SavedIn(record') \subseteq SavedIn(record) \cup {e.func_id}
           /\ e.func_id \in DOMAIN functions /\ e.action # kAdded => e.func_id \in SavedIn(record')
<1>1. record.old_bytecodes \in Seq(VmFunction)
  BY DEF IInv, TypeOK, PatchRecord
<1> DEFINE old == record.old_bytecodes
           f == e.func_id
<1>2. CASE record'.old_bytecodes = old /\ (f \in DOMAIN functions => e.action = kAdded)
  BY <1>2 DEF SavedIn
<1>3. CASE f \in DOMAIN functions /\ record'.old_bytecodes = Append(old, [func_id |-> f, body |-> functions[f]])
  <2>1. \E entry : entry = [func_id |-> f, body |-> functions[f]] /\ entry.func_id = f
    <3>1. [func_id |-> f, body |-> functions[f]].func_id = f
      OBVIOUS
    <3> QED BY <3>1
  <2> PICK entry : entry = [func_id |-> f, body |-> functions[f]] /\ entry.func_id = f
    BY <2>1
  <2>2. old \in Seq(VmFunction \cup {entry}) /\ entry \in VmFunction \cup {entry}
    BY <1>1
  <2>3. PICK new : new = Append(old, entry)
    OBVIOUS
  <2>4. /\ DOMAIN new = DOMAIN old \cup {Len(old) + 1} /\ new[Len(old) + 1] = entry
        /\ \A i \in DOMAIN old : new[i] = old[i]
    BY <2>2, <2>3, AppendElements
  <2>5. DOMAIN old = 1 .. Len(old) /\ DOMAIN new = 1 .. Len(new)
    BY <2>2, <2>3
  <2>6. record'.old_bytecodes = new
    BY <1>3, <2>1, <2>3
  <2>7. SavedIn(record') = {new[i].func_id : i \in DOMAIN new}
    BY <2>5, <2>6 DEF SavedIn
  <2>8. SavedIn(record) = {old[i].func_id : i \in DOMAIN old}
    BY <2>5 DEF SavedIn
  <2> QED BY <2>1, <2>4, <2>7, <2>8
<1> QED BY <1>2, <1>3 DEF EntryApplied

\* A record that stays the same does not save what it has not saved.
LEMMA SavedSame ==
    ASSUME record'.old_bytecodes = record.old_bytecodes
    PROVE  SavedIn(record') = SavedIn(record)
BY DEF SavedIn

\* A function that is not in the record is in it once after the entry.
LEMMA RecordOnce ==
    ASSUME IInv, NEW e, EntryApplied(e), e.func_id \notin SavedIn(record),
           \A i, j \in DOMAIN record.old_bytecodes :
              record.old_bytecodes[i].func_id = record.old_bytecodes[j].func_id => i = j
    PROVE  \A i, j \in DOMAIN record'.old_bytecodes :
              record'.old_bytecodes[i].func_id = record'.old_bytecodes[j].func_id => i = j
<1> DEFINE old == record.old_bytecodes
           f == e.func_id
<1>1. CASE record'.old_bytecodes = old
  BY <1>1
<1>2. CASE record'.old_bytecodes = Append(old, [func_id |-> f, body |-> functions[f]])
  <2>1. PICK entry : entry = [func_id |-> f, body |-> functions[f]]
    OBVIOUS
  <2>2. entry.func_id = f
    BY <2>1
  <2>3. old \in Seq(VmFunction)
    BY DEF IInv, TypeOK, PatchRecord
  <2>4. old \in Seq(VmFunction \cup {entry}) /\ entry \in VmFunction \cup {entry}
    BY <2>3
  <2>5. PICK new : new = Append(old, entry)
    OBVIOUS
  <2>6. /\ DOMAIN new = DOMAIN old \cup {Len(old) + 1} /\ new[Len(old) + 1] = entry
        /\ \A i \in DOMAIN old : new[i] = old[i]
    BY <2>4, <2>5, AppendElements
  <2>7. \A i \in DOMAIN old : old[i].func_id # f
    <3>1. DOMAIN old = 1 .. Len(old)
      BY <2>3
    <3> QED BY <3>1 DEF SavedIn
  <2>8. record'.old_bytecodes = new
    BY <1>2, <2>1, <2>5
  <2> QED BY <2>2, <2>6, <2>7, <2>8
<1> QED BY <1>1, <1>2 DEF EntryApplied

LEMMA TrackedFits ==
    ASSUME DeliveryInv, AllOrNoneKnown, Tracked
    PROVE  /\ expected # <<>> /\ \A n \in DOMAIN expected : expected[n] \in Versions
           /\ Current \in Versions
           /\ pc = "apply" => /\ made_for \in Asked /\ Compatible(made_for)
                              /\ made_for[1] \in Versions /\ made_for[2] \in Versions
                              /\ Current = made_for[1] \/ Current = made_for[2]
<1>1. expected # <<>> /\ Current # Unknown
  BY DEF Tracked
<1>2. Len(expected) \in DOMAIN expected /\ Current = expected[Len(expected)]
  BY <1>1, Depth
<1>3. \A n \in DOMAIN expected : expected[n] \in Versions
  BY <1>1, <1>2 DEF AllOrNoneKnown
<1>4. pc = "apply" => made_for \in Asked
  BY DEF DeliveryInv, OneVersionPerPatch
<1>5. \A p \in Asked : p[1] \in Versions /\ p[2] \in Versions
  BY DeliveryAssumption
<1> QED BY <1>1, <1>2, <1>3, <1>4, <1>5 DEF Tracked, Fits

\* What a step leaves to come back is all of every version.
LEMMA EntryKeepsVersions ==
    ASSUME DeliveryInv, VersionInv, Tracked, NEW e, EntryApplied(e)
    PROVE  VersionsComeBack' /\ NumbersStay' /\ SavedOnce' /\ BodiesRestored'
<1> DEFINE f == e.func_id
<1>1. /\ pc = "apply" /\ pc' = pc /\ history' = history /\ expected' = expected
      /\ todo # <<>> /\ e = Head(todo)
  BY DEF EntryApplied
<1>2. /\ VersionsComeBack /\ NumbersStay /\ SavedOnce /\ EntriesOnce /\ AddedIsNew /\ AllOrNoneKnown
  BY <1>1 DEF VersionInv
<1>3. /\ expected # <<>> /\ Len(history) \in Nat /\ record \in PatchRecord /\ IInv
      /\ DOMAIN expected = Layers /\ Len(expected) = Len(history) + 1 /\ Layers = 1 .. Len(history) + 1
      /\ Current = expected[Len(expected)] /\ Layer(Len(history) + 1) = record
  BY <1>2, Depth, TrackedFits DEF DeliveryInv
<1>4. 1 \in DOMAIN todo /\ todo[1] = e
  BY <1>3, RestOfPatch
<1>5. f \notin SavedIn(record)
  BY <1>2, <1>4 DEF EntriesOnce
<1>6. VersionsComeBack'
  <2> SUFFICES ASSUME NEW n \in DOMAIN expected, NEW name \in Names(Compiled[expected[n]]),
                      NEW fn, fn = Named(Compiled[expected[n]], name)
               PROVE  ComesBack(n, fn.func_id, Body(fn))'
    BY <1>1 DEF VersionsComeBack
  <2> DEFINE g == fn.func_id
  <2>1. n \in Layers /\ ComesBack(n, g, Body(fn))
    BY <1>1, <1>2, <1>3 DEF VersionsComeBack
  <2>2. ASSUME g = f, record'.old_bytecodes = record.old_bytecodes, f \in DOMAIN functions
        PROVE  \/ f \in DOMAIN functions' /\ functions'[f] = functions[f]
               \/ \E j \in Layers : n <= j /\ f \in SavedIn(Layer(j))
    <3>1. f \in Numbers(expected[n])
      BY <2>2 DEF Numbers
    <3>2. n <= Len(expected) /\ Len(expected) \in DOMAIN expected
      BY <1>3
    <3>3. \/ \E k \in n .. (Len(expected) - 1) : f \in SavedIn(history[k])
          \/ f \in Numbers(Current)
      BY <1>2, <1>3, <3>1, <3>2 DEF NumbersStay
    <3>4. CASE \E k \in n .. (Len(expected) - 1) : f \in SavedIn(history[k])
      <4>1. PICK k \in n .. (Len(expected) - 1) : f \in SavedIn(history[k])
        BY <3>4
      <4>2. k \in Layers /\ n <= k /\ Layer(k) = history[k]
        BY <1>3, <2>1, <4>1 DEF Layer
      <4> QED BY <4>1, <4>2
    <3>5. CASE f \in Numbers(Current)
      <4>1. e.action = kAdded
        BY <2>2, <1>3, <1>5, SavedAfter, SavedSame DEF EntryApplied
      <4>2. functions[f] = e.body
        BY <1>2, <1>4, <3>5, <4>1 DEF AddedIsNew
      <4>3. f \in DOMAIN functions' /\ functions'[f] = e.body
        BY <4>1 DEF EntryApplied, kAdded, kRemoved
      <4> QED BY <4>2, <4>3
    <3> QED BY <3>3, <3>4, <3>5
  <2>3. /\ \/ record'.old_bytecodes = record.old_bytecodes
           \/ /\ f \in DOMAIN functions /\ f \notin SavedIn(record)
              /\ record'.old_bytecodes =
                    Append(record.old_bytecodes, [func_id |-> f, body |-> functions[f]])
        /\ \A h \in DOMAIN functions : h # f => h \in DOMAIN functions' /\ functions'[h] = functions[h]
    BY <1>5 DEF EntryApplied
  <2>4. PICK body : body = Body(fn)
    OBVIOUS
  <2>5. ComesBack(n, g, body)'
    BY <1>1, <1>3, <2>1, <2>2, <2>3, <2>4, BackKept
  <2> QED BY <2>4, <2>5
<1>7. NumbersStay'
  BY <1>1, <1>2 DEF NumbersStay, SavedIn
<1>8. SavedOnce'
  <2>1. /\ Layers' = Layers /\ \A k \in Layers : k # Len(history) + 1 => Layer(k)' = Layer(k)
        /\ Layer(Len(history) + 1)' = record'
    BY <1>1, <1>3 DEF Layers, Layer
  <2>2. \A i, j \in DOMAIN record'.old_bytecodes :
           record'.old_bytecodes[i].func_id = record'.old_bytecodes[j].func_id => i = j
    BY <1>2, <1>3, <1>5, RecordOnce DEF SavedOnce
  <2>3. PICK top : top = Len(history) + 1
    OBVIOUS
  <2>4. Layer(top)' = record' /\ \A k \in Layers : k # top => Layer(k)' = Layer(k)
    BY <1>1, <2>1, <2>3
  <2> QED BY <1>2, <2>1, <2>2, <2>4 DEF SavedOnce
<1>9. BodiesRestored'
  BY <1>1 DEF BodiesRestored
<1> QED BY <1>6, <1>7, <1>8, <1>9

\* What is still to come of the new version, and still to go of the old.
LEMMA EntryKeepsPatch ==
    ASSUME DeliveryInv, VersionInv, Tracked, NEW e, EntryApplied(e)
    PROVE  EntriesOnce' /\ NewVersionArrives' /\ AddedIsNew' /\ OldVersionIsSaved'
<1> DEFINE f == e.func_id
<1>1. /\ pc = "apply" /\ expected' = expected /\ made_for' = made_for /\ Current' = Current
      /\ \A g \in DOMAIN functions : g # f => g \in DOMAIN functions' /\ functions'[g] = functions[g]
      /\ e.action # kRemoved => f \in DOMAIN functions' /\ functions'[f] = e.body
  BY DEF EntryApplied, Current
<1>2. EntriesOnce /\ NewVersionArrives /\ AddedIsNew /\ OldVersionIsSaved
  BY <1>1 DEF VersionInv
<1>3. /\ 1 \in DOMAIN todo /\ todo[1] = e
      /\ \A k \in DOMAIN todo' : k + 1 \in DOMAIN todo /\ todo'[k] = todo[k + 1] /\ k \in Nat
      /\ \A k \in DOMAIN todo : k # 1 => k - 1 \in DOMAIN todo' /\ todo'[k - 1] = todo[k]
  BY RestOfPatch DEF DeliveryInv
<1>4. /\ SavedIn(record) \subseteq SavedIn(record')
      /\ SavedIn(record') \subseteq SavedIn(record) \cup {f}
      /\ f \in DOMAIN functions /\ e.action # kAdded => f \in SavedIn(record')
  BY SavedAfter DEF DeliveryInv
<1>5. \A k \in DOMAIN todo' : todo'[k].func_id # f
  <2> SUFFICES ASSUME NEW k \in DOMAIN todo', todo'[k].func_id = f PROVE FALSE
    OBVIOUS
  <2>1. k + 1 \in DOMAIN todo /\ todo[k + 1].func_id = todo[1].func_id /\ k \in Nat
    BY <1>3
  <2>2. k + 1 = 1
    BY <1>2, <1>3, <2>1 DEF EntriesOnce
  <2>3. 0 \notin DOMAIN todo'
    <3>1. todo \in Seq(PatchEntry) /\ todo # <<>> /\ todo' = Tail(todo)
      BY DEF DeliveryInv, IInv, TypeOK, EntryApplied
    <3> QED BY <3>1
  <2> QED BY <2>1, <2>2, <2>3
<1>6. EntriesOnce'
  <2> SUFFICES ASSUME NEW i \in DOMAIN todo'
               PROVE  /\ todo'[i].func_id \notin SavedIn(record')
                      /\ \A j \in DOMAIN todo' : todo'[i].func_id = todo'[j].func_id => i = j
    BY DEF EntriesOnce
  <2>1. i + 1 \in DOMAIN todo /\ todo'[i] = todo[i + 1]
    BY <1>3
  <2>2. todo'[i].func_id \notin SavedIn(record')
    BY <1>2, <1>4, <1>5, <2>1 DEF EntriesOnce
  <2>3. ASSUME NEW j \in DOMAIN todo', todo'[i].func_id = todo'[j].func_id PROVE i = j
    <3>1. j + 1 \in DOMAIN todo /\ todo'[j] = todo[j + 1] /\ i \in Nat /\ j \in Nat
      BY <1>3, <2>3
    <3>2. i + 1 = j + 1
      BY <1>2, <2>1, <2>3, <3>1 DEF EntriesOnce
    <3> QED BY <3>1, <3>2
  <2> QED BY <2>2, <2>3
<1>7. NewVersionArrives'
  <2> SUFFICES ASSUME NEW name \in Names(Compiled[made_for[2]]),
                      NEW fn, fn = Named(Compiled[made_for[2]], name)
               PROVE  \/ \E k \in DOMAIN todo' : /\ todo'[k].func_id = fn.func_id
                                                 /\ todo'[k].action # kRemoved /\ todo'[k].body = Body(fn)
                      \/ /\ fn.func_id \in DOMAIN functions' /\ functions'[fn.func_id] = Body(fn)
                         /\ \A k \in DOMAIN todo' : todo'[k].func_id # fn.func_id
    BY <1>1 DEF NewVersionArrives
  <2>1. \/ \E k \in DOMAIN todo : /\ todo[k].func_id = fn.func_id
                                  /\ todo[k].action # kRemoved /\ todo[k].body = Body(fn)
        \/ /\ fn.func_id \in DOMAIN functions /\ functions[fn.func_id] = Body(fn)
           /\ \A k \in DOMAIN todo : todo[k].func_id # fn.func_id
    BY <1>2 DEF NewVersionArrives
  <2>2. ASSUME NEW k \in DOMAIN todo, todo[k].func_id = fn.func_id,
               todo[k].action # kRemoved, todo[k].body = Body(fn)
        PROVE  \/ \E j \in DOMAIN todo' : /\ todo'[j].func_id = fn.func_id
                                          /\ todo'[j].action # kRemoved /\ todo'[j].body = Body(fn)
               \/ /\ fn.func_id \in DOMAIN functions' /\ functions'[fn.func_id] = Body(fn)
                  /\ \A j \in DOMAIN todo' : todo'[j].func_id # fn.func_id
    <3>1. CASE k = 1
      BY <1>1, <1>3, <1>5, <2>2, <3>1
    <3>2. CASE k # 1
      <4>1. k - 1 \in DOMAIN todo' /\ todo'[k - 1] = todo[k]
        BY <1>3, <3>2
      <4> QED BY <2>2, <4>1
    <3> QED BY <3>1, <3>2
  <2>3. CASE /\ fn.func_id \in DOMAIN functions /\ functions[fn.func_id] = Body(fn)
             /\ \A k \in DOMAIN todo : todo[k].func_id # fn.func_id
    <3>1. fn.func_id # f
      BY <1>3, <2>3
    <3>2. fn.func_id \in DOMAIN functions' /\ functions'[fn.func_id] = Body(fn)
      BY <1>1, <2>3, <3>1
    <3>3. \A k \in DOMAIN todo' : todo'[k].func_id # fn.func_id
      BY <1>3, <2>3
    <3> QED BY <3>2, <3>3
  <2> QED BY <2>1, <2>2, <2>3
<1>8. AddedIsNew'
  <2> SUFFICES ASSUME NEW k \in DOMAIN todo', todo'[k].action = kAdded,
                      todo'[k].func_id \in Numbers(Current)
               PROVE  /\ todo'[k].func_id \in DOMAIN functions'
                      /\ functions'[todo'[k].func_id] = todo'[k].body
    BY <1>1 DEF AddedIsNew, kAdded
  <2>1. k + 1 \in DOMAIN todo /\ todo'[k] = todo[k + 1]
    BY <1>3
  <2>2. todo'[k].func_id \in DOMAIN functions /\ functions[todo'[k].func_id] = todo'[k].body
    BY <1>2, <2>1 DEF AddedIsNew
  <2> QED BY <1>1, <1>5, <2>2
<1>9. OldVersionIsSaved'
  <2> SUFFICES ASSUME NEW g \in Numbers(Current),
                      g \notin SavedIn(record'), g \notin Numbers(made_for[2])
               PROVE  /\ g \in DOMAIN functions'
                      /\ \E k \in DOMAIN todo' : todo'[k].func_id = g /\ todo'[k].action = kRemoved
    BY <1>1 DEF OldVersionIsSaved, kRemoved
  <2>1. PICK k \in DOMAIN todo : todo[k].func_id = g /\ todo[k].action = kRemoved /\ g \in DOMAIN functions
    BY <1>2, <1>4 DEF OldVersionIsSaved
  <2>2. k # 1
    BY <1>3, <1>4, <2>1 DEF kRemoved, kAdded
  <2>3. k - 1 \in DOMAIN todo' /\ todo'[k - 1] = todo[k]
    BY <1>3, <2>2
  <2>4. g # f
    BY <1>5, <2>1, <2>3
  <2> QED BY <1>1, <2>1, <2>3, <2>4
<1> QED BY <1>6, <1>7, <1>8, <1>9

\* A step of the patching thread within a patch.
LEMMA EntryKeepsInv ==
    ASSUME DeliveryInv, VersionInv, PatchStep, ApplyModified \/ ApplyAdded \/ ApplyRemoved
    PROVE  VersionInv'
<1>1. PICK e : EntryApplied(e)
  BY EntryEffect DEF DeliveryInv
<1>2. UNCHANGED <<pc, patch_file, made_for, expected>>
  BY <1>1 DEF EntryApplied
<1>3. Tracked' => Tracked
  BY <1>2 DEF Tracked, Fits, Current
<1>4. AllOrNoneKnown' /\ FileIsDifference'
  BY <1>2 DEF VersionInv, AllOrNoneKnown, FileIsDifference
<1> QED BY <1>1, <1>3, <1>4, EntryKeepsVersions, EntryKeepsPatch DEF VersionInv

-----------------------------------------------------------------------------
(* The beginning and the end of a patch. *)

\* Between patches and rollbacks the current version runs.
LEMMA CurrentRuns ==
    ASSUME DeliveryInv, VersionInv, expected # <<>>, Current # Unknown, pc = "idle",
           NEW name \in Names(Compiled[Current]), NEW fn, fn = Named(Compiled[Current], name)
    PROVE  fn.func_id \in DOMAIN functions /\ functions[fn.func_id] = Body(fn)
<1>1. Tracked /\ VersionsComeBack
  BY DEF Tracked, VersionInv
<1>2. /\ Len(expected) \in DOMAIN expected /\ Current = expected[Len(expected)]
      /\ Len(expected) = Len(history) + 1 /\ Layers = 1 .. Len(history) + 1 /\ Len(history) \in Nat
      /\ Layer(Len(history) + 1) = record
  BY Depth
<1>3. ComesBack(Len(expected), fn.func_id, Body(fn))
  BY <1>1, <1>2 DEF VersionsComeBack
<1>4. record = NoRecord
  BY DEF DeliveryInv, IInv, NothingOpen
<1>5. \A k \in Layers : Len(expected) <= k => ~ Saves(k, fn.func_id, Body(fn))
  <2>1. \A k \in Layers : Len(expected) <= k => Layer(k) = NoRecord
    BY <1>2, <1>4
  <2> QED BY <2>1, NothingSaved DEF Saves
<1> QED BY <1>3, <1>5 DEF ComesBack

\* The entries of a file that fits, over the version that runs.
LEMMA FileFits ==
    ASSUME DeliveryInv, VersionInv, Tracked, pc = "idle", patch_file # <<>>, Fits,
           todo' = FromFile, record'.old_bytecodes = <<>>,
           UNCHANGED <<functions, made_for, expected>>
    PROVE  EntriesOnce' /\ NewVersionArrives' /\ AddedIsNew' /\ OldVersionIsSaved'
<1> DEFINE u == Compiled[made_for[1]]
           w == Compiled[made_for[2]]
<1>1. /\ made_for \in Asked /\ made_for[1] \in Versions /\ made_for[2] \in Versions
      /\ Compatible(made_for) /\ (Current = made_for[1] \/ Current = made_for[2])
  BY DeliveryAssumption DEF DeliveryInv, OneVersionPerPatch, Fits
<1>2. Turns(FromFile, u, w)
  BY <1>1, PatchTurns DEF VersionInv
<1>3. PICK e : e = FromFile /\ todo' = e
  OBVIOUS
<1>4. /\ \A i, j \in DOMAIN e : e[i].func_id = e[j].func_id => i = j
      /\ \A i \in DOMAIN e :
           \/ \E n \in Names(u) \ Names(w) :
                 e[i].action = kRemoved /\ e[i].func_id = Named(u, n).func_id
           \/ \E n \in Names(w) :
                 /\ e[i].action = (IF n \in Names(u) THEN kModified ELSE kAdded)
                 /\ e[i].func_id = Named(w, n).func_id
                 /\ e[i].body = Body(Named(w, n))
      /\ \A n \in Names(w) :
           n \notin Names(u) \/ ~ FunctionsEqual(Named(u, n), Named(w, n)) =>
              \E i \in DOMAIN e : /\ e[i].action # kRemoved
                                  /\ e[i].func_id = Named(w, n).func_id
                                  /\ e[i].body = Body(Named(w, n))
      /\ \A n \in Names(u) \ Names(w) :
           \E i \in DOMAIN e : e[i].action = kRemoved /\ e[i].func_id = Named(u, n).func_id
  BY <1>2, <1>3 DEF Turns
<1>5. /\ \A m, n \in Names(u) : Named(u, m).func_id = Named(u, n).func_id => m = n
      /\ \A m, n \in Names(w) : Named(w, m).func_id = Named(w, n).func_id => m = n
      /\ \A n \in Names(u) \cap Names(w) : Named(u, n).func_id = Named(w, n).func_id
      /\ \A n \in Names(w) \ Names(u), m \in Names(u) : Named(w, n).func_id # Named(u, m).func_id
  BY <1>1, NumbersDiffer DEF Compatible
<1>6. \A n \in Names(Compiled[Current]) :
         /\ Named(Compiled[Current], n).func_id \in DOMAIN functions
         /\ functions[Named(Compiled[Current], n).func_id] = Body(Named(Compiled[Current], n))
  BY CurrentRuns DEF Tracked
<1>7. Current' = Current
  BY DEF Current
<1>8. EntriesOnce'
  <2>1. SavedIn(record') = {}
    BY DEF SavedIn
  <2> QED BY <1>3, <1>4, <2>1 DEF EntriesOnce
<1>9. NewVersionArrives'
  <2> SUFFICES ASSUME NEW name \in Names(w), NEW fn, fn = Named(w, name)
               PROVE  \/ \E k \in DOMAIN e : /\ e[k].func_id = fn.func_id
                                             /\ e[k].action # kRemoved /\ e[k].body = Body(fn)
                      \/ /\ fn.func_id \in DOMAIN functions /\ functions[fn.func_id] = Body(fn)
                         /\ \A k \in DOMAIN e : e[k].func_id # fn.func_id
    BY <1>3 DEF NewVersionArrives
  <2>1. CASE \E k \in DOMAIN e : e[k].func_id = fn.func_id
    <3>1. PICK k \in DOMAIN e : e[k].func_id = fn.func_id
      BY <2>1
    <3>2. ASSUME NEW n \in Names(u) \ Names(w), e[k].func_id = Named(u, n).func_id
          PROVE  FALSE
      <4>1. CASE name \in Names(u)
        BY <1>5, <3>1, <3>2, <4>1
      <4>2. CASE name \notin Names(u)
        BY <1>5, <3>1, <3>2, <4>2
      <4> QED BY <4>1, <4>2
    <3>3. PICK n \in Names(w) :
                 /\ e[k].action = (IF n \in Names(u) THEN kModified ELSE kAdded)
                 /\ e[k].func_id = Named(w, n).func_id
                 /\ e[k].body = Body(Named(w, n))
      BY <1>4, <3>2
    <3>4. n = name
      BY <1>5, <3>1, <3>3
    <3> QED BY <3>1, <3>3, <3>4 DEF kModified, kAdded, kRemoved
  <2>2. CASE \A k \in DOMAIN e : e[k].func_id # fn.func_id
    <3>1. name \in Names(u) /\ FunctionsEqual(Named(u, name), Named(w, name))
      BY <1>4, <2>2
    <3>2. Body(Named(u, name)) = Body(fn) /\ Named(u, name).func_id = fn.func_id
      BY <1>1, <1>5, <3>1, EqualIsSame
    <3>3. fn.func_id \in DOMAIN functions /\ functions[fn.func_id] = Body(fn)
      BY <1>1, <1>6, <3>1, <3>2
    <3> QED BY <2>2, <3>3
  <2> QED BY <2>1, <2>2
<1>10. AddedIsNew'
  <2> SUFFICES ASSUME NEW k \in DOMAIN e, e[k].action = kAdded, e[k].func_id \in Numbers(Current)
               PROVE  e[k].func_id \in DOMAIN functions /\ functions[e[k].func_id] = e[k].body
    BY <1>3, <1>7 DEF AddedIsNew, kAdded
  <2>1. PICK n \in Names(w) : /\ n \notin Names(u)
                              /\ e[k].func_id = Named(w, n).func_id
                              /\ e[k].body = Body(Named(w, n))
    BY <1>4 DEF kAdded, kModified, kRemoved
  <2>2. Current = made_for[2]
    <3>1. PICK m \in Names(Compiled[Current]) : Named(Compiled[Current], m).func_id = e[k].func_id
      BY DEF Numbers
    <3> QED BY <1>1, <1>5, <2>1, <3>1
  <2> QED BY <1>6, <2>1, <2>2
<1>11. OldVersionIsSaved'
  <2> SUFFICES ASSUME NEW f \in Numbers(Current), f \notin Numbers(made_for[2])
               PROVE  /\ f \in DOMAIN functions
                      /\ \E k \in DOMAIN e : e[k].func_id = f /\ e[k].action = kRemoved
    BY <1>3, <1>7 DEF OldVersionIsSaved, kRemoved
  <2>1. PICK n \in Names(Compiled[Current]) : f = Named(Compiled[Current], n).func_id
    BY DEF Numbers
  <2>2. Current = made_for[1]
    BY <1>1
  <2>3. n \in Names(u) \ Names(w)
    <3>1. ASSUME n \in Names(w) PROVE FALSE
      <4>1. Named(u, n).func_id = Named(w, n).func_id
        BY <1>5, <2>1, <2>2, <3>1
      <4>2. f \in Numbers(made_for[2])
        BY <2>1, <2>2, <3>1, <4>1 DEF Numbers
      <4> QED BY <4>2
    <3> QED BY <2>1, <2>2, <3>1
  <2> QED BY <1>4, <1>6, <2>1, <2>2, <2>3
<1> QED BY <1>8, <1>9, <1>10, <1>11

\* Steps that touch neither code nor records.
LEMMA QuietStep ==
    ASSUME DeliveryInv, expected # <<>>, history' = history, functions' = functions,
           record'.old_bytecodes = record.old_bytecodes
    PROVE  /\ \A n \in Layers : \A g, body : ComesBack(n, g, body) => ComesBack(n, g, body)'
           /\ SavedOnce => SavedOnce'
           /\ NumbersStay /\ expected' = expected => NumbersStay'
<1>1. Len(history) \in Nat /\ record \in PatchRecord /\ Layers = 1 .. Len(history) + 1
  BY Depth
<1>2. \A g \in DOMAIN functions : g \in DOMAIN functions' /\ functions'[g] = functions[g]
  OBVIOUS
<1>3. ASSUME NEW n \in Layers, NEW g, NEW body, ComesBack(n, g, body)
      PROVE  ComesBack(n, g, body)'
  BY <1>1, <1>2, <1>3, BackKept
<1>4. SavedOnce => SavedOnce'
  <2>1. Layers' = Layers /\ \A k \in Layers : Layer(k)'.old_bytecodes = Layer(k).old_bytecodes
    BY DEF Layers, Layer
  <2> QED BY <2>1 DEF SavedOnce
<1>5. NumbersStay /\ expected' = expected => NumbersStay'
  BY DEF NumbersStay, SavedIn
<1> QED BY <1>3, <1>4, <1>5

\* The same, with the same versions: the invariant but for the patch in progress.
LEMMA QuietKeeps ==
    ASSUME DeliveryInv, VersionInv, history' = history, functions' = functions,
           record'.old_bytecodes = record.old_bytecodes, expected' = expected,
           pc \in {"idle", "apply"} \/ (pc' = pc /\ pc = "restore_binds"), Tracked
    PROVE  VersionsComeBack' /\ NumbersStay' /\ SavedOnce'
<1>1. expected # <<>> /\ VersionsComeBack /\ NumbersStay /\ SavedOnce
  BY DEF VersionInv, Tracked
<1>2. /\ \A n \in Layers : \A g, body : ComesBack(n, g, body) => ComesBack(n, g, body)'
      /\ DOMAIN expected = Layers
  BY <1>1, QuietStep, Depth
<1>3. ASSUME NEW n \in DOMAIN expected, n < Len(expected) \/ pc' \in {"idle", "apply"},
             NEW name \in Names(Compiled[expected[n]]), NEW fn, fn = Named(Compiled[expected[n]], name)
      PROVE  ComesBack(n, fn.func_id, Body(fn))'
  <2>1. ComesBack(n, fn.func_id, Body(fn))
    BY <1>1, <1>3 DEF VersionsComeBack
  <2>2. PICK body : body = Body(fn)
    OBVIOUS
  <2>3. ComesBack(n, fn.func_id, body)'
    BY <1>2, <1>3, <2>1, <2>2
  <2> QED BY <2>2, <2>3
<1>4. VersionsComeBack'
  BY <1>3 DEF VersionsComeBack
<1> QED BY <1>1, <1>4, QuietStep

LEMMA FileKeepsInv ==
    ASSUME DeliveryInv, VersionInv, ApplyFile
    PROVE  VersionInv'
<1>1. /\ patch_file # <<>> /\ pc = "idle" /\ pc' = "apply" /\ todo' = FromFile
      /\ UNCHANGED <<history, functions, patch_file, made_for, expected>>
      /\ record' = NewRecord(current_version')
  BY DEF ApplyFile, ApplyBegin, runtimeVars
<1>2. record = NoRecord
  BY <1>1 DEF DeliveryInv, IInv, NothingOpen
<1>3. record'.old_bytecodes = <<>> /\ record'.old_bytecodes = record.old_bytecodes
  BY <1>1, <1>2 DEF NoRecord, NewRecord
<1>4. AllOrNoneKnown' /\ FileIsDifference'
  BY <1>1 DEF VersionInv, AllOrNoneKnown, FileIsDifference
<1>5. Tracked' => Tracked /\ Fits
  BY <1>1 DEF Tracked, Fits, Current
<1>6. Tracked => VersionsComeBack' /\ NumbersStay' /\ SavedOnce'
  BY <1>1, <1>3, QuietKeeps
<1>7. BodiesRestored'
  BY <1>1 DEF BodiesRestored
<1>8. Tracked /\ Fits => EntriesOnce' /\ NewVersionArrives' /\ AddedIsNew' /\ OldVersionIsSaved'
  BY <1>1, <1>3, FileFits
<1> QED BY <1>4, <1>5, <1>6, <1>7, <1>8 DEF VersionInv

\* The program exports a function; a rollback begins, or restores a binding.
LEMMA BindsKeepInv ==
    ASSUME DeliveryInv, VersionInv, ExportNative \/ (PatchStep /\ (RollbackBegin \/ RestoreBind))
    PROVE  VersionInv'
<1>1. /\ UNCHANGED <<history, functions, record, patch_file, made_for, expected>>
      /\ \/ pc = "idle" /\ pc' = "idle"
         \/ pc = "idle" /\ pc' = "restore_code" /\ cursor' = cursor
         \/ pc = "restore_binds" /\ pc' = pc
  BY DEF ExportNative, RegisterNativeFunction, PatchStep, RollbackBegin, RestoreBind,
         patchVars, runtimeVars
<1>2. AllOrNoneKnown' /\ FileIsDifference'
  BY <1>1 DEF VersionInv, AllOrNoneKnown, FileIsDifference
<1>3. Tracked' => Tracked
  BY <1>1 DEF Tracked, Current
<1>4. Tracked => VersionsComeBack' /\ NumbersStay' /\ SavedOnce'
  BY <1>1, QuietKeeps
<1>5. Tracked => BodiesRestored'
  <2>1. CASE pc = "idle" /\ pc' = "idle"
    BY <2>1 DEF BodiesRestored
  <2>2. CASE pc = "idle" /\ pc' = "restore_code" /\ cursor' = cursor
    <3>1. cursor' = 1 /\ Top' = Top /\ history # <<>> /\ history \in Seq(PatchRecord)
      <4>1. PatchStep /\ RollbackBegin
        BY <2>2 DEF ExportNative, patchVars, RestoreBind
      <4>2. history # <<>>
        BY <4>1 DEF RollbackBegin
      <4> QED BY <1>1, <2>2, <4>2 DEF DeliveryInv, IInv, TypeOK, NothingOpen, Top
    <3>2. Top \in PatchRecord
      BY <3>1 DEF Top
    <3>3. DOMAIN Top.old_bytecodes \subseteq Nat \ {0}
      <4>1. Top.old_bytecodes \in Seq(VmFunction)
        BY <3>2 DEF PatchRecord
      <4> QED BY <4>1
    <3>4. \A i \in DOMAIN Top.old_bytecodes : ~ (i < cursor')
      BY <3>1, <3>3
    <3> QED BY <2>2, <3>1, <3>4 DEF BodiesRestored
  <2>3. CASE pc = "restore_binds" /\ pc' = pc
    BY <1>1, <2>3 DEF VersionInv, BodiesRestored, Top
  <2> QED BY <1>1, <2>1, <2>2, <2>3
<1>6. pc' # "apply"
  BY <1>1
<1> QED BY <1>2, <1>3, <1>4, <1>5, <1>6 DEF VersionInv

\* The new version is there; the old one is in the record that joins the history.
LEMMA EndKeepsInv ==
    ASSUME DeliveryInv, VersionInv, EndOfPatch
    PROVE  VersionInv'
<1>1. /\ pc = "apply" /\ todo = <<>> /\ pc' = "idle" /\ history' = Append(history, record)
      /\ record' = NoRecord /\ UNCHANGED <<functions, patch_file, made_for>>
      /\ expected' = IF Fits THEN Append(expected, made_for[2])
                     ELSE [k \in 1 .. (Len(expected) + 1) |-> Unknown]
  BY DEF EndOfPatch, ApplyEnd, runtimeVars
<1>2. expected # <<>>
  BY <1>1 DEF DeliveryInv, NothingStarted
<1>3. /\ history \in Seq(PatchRecord) /\ record \in PatchRecord
      /\ expected \in Seq(Versions \cup {Unknown})
      /\ DOMAIN expected = Layers /\ Current = expected[Len(expected)]
  BY <1>2, Depth
<1>4. PICK top \in Nat \ {0} : top = Len(history) + 1 /\ Len(expected) = top /\ Layers = 1 .. top
  BY <1>2, Depth
<1>5. FileIsDifference'
  BY <1>1 DEF VersionInv, FileIsDifference
<1>6. CASE ~ Fits
  <2>1. expected' = [k \in 1 .. top + 1 |-> Unknown]
    BY <1>1, <1>4, <1>6
  <2>2. AllOrNoneKnown'
    BY <2>1 DEF AllOrNoneKnown
  <2>3. ~ Tracked'
    <3>1. Len(expected') \in DOMAIN expected'
      BY <1>4, <2>1
    <3>2. Current' = Unknown
      BY <2>1, <3>1 DEF Current, Last
    <3> QED BY <3>2 DEF Tracked
  <2> QED BY <1>5, <2>2, <2>3 DEF VersionInv
<1>7. CASE Fits
  <2>1. /\ made_for \in Asked /\ made_for[1] \in Versions /\ made_for[2] \in Versions
        /\ Current \in Versions
    BY <1>1, <1>7, DeliveryAssumption DEF DeliveryInv, OneVersionPerPatch, Fits
  <2>2. Tracked
    BY <1>2, <1>7, <2>1, NumberingAssumption DEF Tracked
  <2>3. /\ VersionsComeBack /\ NumbersStay /\ SavedOnce
        /\ NewVersionArrives /\ OldVersionIsSaved /\ \A n \in DOMAIN expected : expected[n] \in Versions
    BY <1>1, <2>2, TrackedFits DEF VersionInv
  <2>4. /\ DOMAIN expected' = 1 .. top + 1 /\ Len(expected') = top + 1
        /\ expected'[top + 1] = made_for[2]
        /\ \A n \in 1 .. top : expected'[n] = expected[n]
    <3>1. /\ expected \in Seq(Versions \cup {Unknown}) /\ made_for[2] \in Versions \cup {Unknown}
          /\ expected' = Append(expected, made_for[2])
      BY <1>1, <1>3, <1>7, <2>1
    <3> QED BY <1>4, <3>1
  <2>5. AllOrNoneKnown'
    BY <1>3, <1>4, <2>1, <2>3, <2>4 DEF AllOrNoneKnown
  <2>6. /\ Len(history') = top /\ history'[top] = record /\ Layers' = 1 .. top + 1
        /\ \A k \in 1 .. top - 1 : history'[k] = history[k]
    BY <1>1, <1>3, <1>4 DEF Layers
  <2>7. /\ \A k \in 1 .. top : Layer(k)' = Layer(k)
        /\ Layer(top + 1)' = NoRecord
    BY <1>1, <1>4, <2>6 DEF Layer
  <2>8. VersionsComeBack'
    <3> SUFFICES ASSUME NEW n \in 1 .. top + 1, NEW name \in Names(Compiled[expected'[n]]),
                        NEW fn, fn = Named(Compiled[expected'[n]], name)
                 PROVE  ComesBack(n, fn.func_id, Body(fn))'
      BY <2>4 DEF VersionsComeBack
    <3>1. CASE n \in 1 .. top
      <4>1. ComesBack(n, fn.func_id, Body(fn))
        BY <1>1, <1>3, <1>4, <2>3, <2>4, <3>1 DEF VersionsComeBack
      <4>2. PICK body : body = Body(fn)
        OBVIOUS
      <4>3. ComesBack(n, fn.func_id, body)'
        BY <1>1, <1>3, <1>4, <3>1, <4>1, <4>2, BackPushed
      <4> QED BY <4>2, <4>3
    <3>2. CASE n = top + 1
      <4>1. fn.func_id \in DOMAIN functions' /\ functions'[fn.func_id] = Body(fn)
        <5>1. DOMAIN todo = {}
          BY <1>1
        <5> QED BY <1>1, <2>3, <2>4, <3>2, <5>1 DEF NewVersionArrives
      <4>2. \A j \in Layers' : n <= j => fn.func_id \notin SavedIn(Layer(j))'
        <5>1. \A j \in Layers' : n <= j => j = top + 1
          BY <2>6, <3>2
        <5>2. \A x : x \notin SavedIn(Layer(top + 1))'
          BY <2>7, NothingSaved DEF SavedIn
        <5> QED BY <5>1, <5>2
      <4> QED BY <4>1, <4>2 DEF ComesBack
    <3> QED BY <1>4, <3>1, <3>2
  <2>9. NumbersStay'
    <3> SUFFICES ASSUME NEW n \in 1 .. top + 1, NEW m \in 1 .. top + 1, n <= m,
                        NEW f \in Numbers(expected'[n]), f \notin Numbers(expected'[m])
                 PROVE  \E k \in n .. (m - 1) : f \in SavedIn(history'[k])
      BY <2>4 DEF NumbersStay
    <3>1. n # m /\ n \in 1 .. top
      OBVIOUS
    <3>2. CASE m \in 1 .. top
      <4>1. PICK k \in n .. (m - 1) : f \in SavedIn(history[k])
        BY <1>3, <1>4, <2>3, <2>4, <3>1, <3>2 DEF NumbersStay
      <4>2. history'[k] = history[k]
        BY <1>4, <2>6, <3>2, <4>1
      <4> QED BY <4>1, <4>2
    <3>3. CASE m = top + 1
      <4>1. CASE f \in Numbers(Current)
        <5>1. f \in SavedIn(record)
          BY <1>1, <2>3, <2>4, <3>3, <4>1 DEF OldVersionIsSaved
        <5> QED BY <2>6, <3>1, <3>3, <5>1
      <4>2. CASE f \notin Numbers(Current)
        <5>1. top \in DOMAIN expected /\ n \in DOMAIN expected /\ n <= top
          BY <1>3, <1>4, <3>1
        <5>2. PICK k \in n .. (top - 1) : f \in SavedIn(history[k])
          BY <1>3, <1>4, <2>3, <2>4, <3>1, <4>2, <5>1 DEF NumbersStay
        <5>3. k \in n .. (m - 1) /\ history'[k] = history[k]
          BY <2>6, <3>1, <3>3, <5>2
        <5> QED BY <5>2, <5>3
      <4> QED BY <4>1, <4>2
    <3> QED BY <3>2, <3>3
  <2>10. SavedOnce'
    <3> SUFFICES ASSUME NEW k \in 1 .. top + 1,
                        NEW i \in DOMAIN Layer(k)'.old_bytecodes, NEW j \in DOMAIN Layer(k)'.old_bytecodes,
                        Layer(k)'.old_bytecodes[i].func_id = Layer(k)'.old_bytecodes[j].func_id
                 PROVE  i = j
      BY <2>6 DEF SavedOnce
    <3>1. CASE k \in 1 .. top
      BY <1>4, <2>3, <2>7, <3>1 DEF SavedOnce
    <3>2. CASE k = top + 1
      BY <2>7, <3>2, NothingSaved
    <3> QED BY <3>1, <3>2
  <2>11. BodiesRestored' /\ pc' # "apply"
    BY <1>1 DEF BodiesRestored
  <2> QED BY <1>5, <2>2, <2>5, <2>8, <2>9, <2>10, <2>11 DEF VersionInv
<1> QED BY <1>6, <1>7

\* A saved bytecode is put back: below it nothing changes.
LEMMA RestoreKeepsInv ==
    ASSUME DeliveryInv, VersionInv, PatchStep, RestoreBytecode
    PROVE  VersionInv'
<1>1. /\ pc = "restore_code" /\ pc' \in {"restore_code", "restore_binds"}
      /\ UNCHANGED <<history, record, patch_file, made_for, expected>>
      /\ \/ /\ cursor <= Len(Top.old_bytecodes) /\ cursor' = cursor + 1 /\ pc' = pc
            /\ functions' = Put(functions, Top.old_bytecodes[cursor].func_id, Top.old_bytecodes[cursor].body)
         \/ ~ (cursor <= Len(Top.old_bytecodes)) /\ functions' = functions
  BY DEF PatchStep, RestoreBytecode, RegisterFunction
<1>2. /\ AllOrNoneKnown' /\ FileIsDifference' /\ (Tracked' => Tracked)
  BY <1>1 DEF VersionInv, AllOrNoneKnown, FileIsDifference, Tracked, Current
<1> SUFFICES ASSUME Tracked
             PROVE  VersionsComeBack' /\ NumbersStay' /\ SavedOnce' /\ BodiesRestored'
  BY <1>1, <1>2 DEF VersionInv
<1>3. VersionsComeBack /\ NumbersStay /\ SavedOnce /\ BodiesRestored /\ expected # <<>>
  BY DEF VersionInv, Tracked
<1>4. /\ history \in Seq(PatchRecord) /\ record \in PatchRecord /\ Len(history) \in Nat \ {0}
      /\ DOMAIN expected = Layers /\ Len(expected) = Len(history) + 1 /\ Layers = 1 .. Len(history) + 1
      /\ Top \in PatchRecord /\ cursor \in Nat \ {0} /\ Top' = Top
  BY <1>1, <1>3, Depth, TopType DEF DeliveryInv, IInv, TypeOK, Top
<1>5. Top = Layer(Len(history)) /\ Len(history) \in Layers
  BY <1>4 DEF Top, Layer
<1>6. PICK codes : codes = Top.old_bytecodes /\ codes \in Seq(VmFunction)
  BY <1>4 DEF PatchRecord
<1>7. DOMAIN codes = 1 .. Len(codes) /\ Len(codes) \in Nat
  BY <1>6
<1>8. \A i, j \in DOMAIN codes : codes[i].func_id = codes[j].func_id => i = j
  BY <1>3, <1>5, <1>6 DEF SavedOnce
<1>9. NumbersStay' /\ SavedOnce'
  BY <1>1, <1>3 DEF NumbersStay, SavedOnce, SavedIn, Layers, Layer
<1>10. CASE cursor <= Len(codes)
  <2>1. cursor \in DOMAIN codes
    BY <1>4, <1>7, <1>10
  <2>2. PICK f : f = codes[cursor].func_id
    OBVIOUS
  <2>3. /\ cursor' = cursor + 1 /\ pc' = pc
        /\ functions' = Put(functions, f, codes[cursor].body)
    BY <1>1, <1>6, <1>10, <2>2
  <2>4. /\ f \in DOMAIN functions' /\ functions'[f] = codes[cursor].body
        /\ \A g \in DOMAIN functions : g # f => g \in DOMAIN functions' /\ functions'[g] = functions[g]
        /\ \A g : g # f => functions'[g] = functions[g] \/ g \notin DOMAIN functions
    BY <2>3 DEF Put
  <2>5. f \in SavedIn(Layer(Len(history)))
    BY <1>5, <1>6, <1>7, <2>1, <2>2 DEF SavedIn
  <2>6. VersionsComeBack'
    <3> SUFFICES ASSUME NEW n \in DOMAIN expected, n < Len(expected),
                        NEW name \in Names(Compiled[expected[n]]),
                        NEW fn, fn = Named(Compiled[expected[n]], name)
                 PROVE  ComesBack(n, fn.func_id, Body(fn))'
      BY <1>1 DEF VersionsComeBack
    <3>1. n \in Layers /\ n <= Len(history) /\ ComesBack(n, fn.func_id, Body(fn))
      <4>1. n \in Layers /\ n <= Len(history)
        BY <1>4
      <4> QED BY <1>3, <4>1 DEF VersionsComeBack
    <3>2. \E j \in Layers : n <= j /\ f \in SavedIn(Layer(j))
      BY <1>5, <2>5, <3>1
    <3>3. PICK body : body = Body(fn)
      OBVIOUS
    <3>4. ComesBack(n, fn.func_id, body)'
      BY <1>1, <1>4, <2>4, <3>1, <3>2, <3>3, BackKept
    <3> QED BY <3>3, <3>4
  <2>7. BodiesRestored'
    <3> SUFFICES ASSUME NEW i \in DOMAIN codes, i < cursor + 1
                 PROVE  functions'[codes[i].func_id] = codes[i].body
      BY <1>1, <1>4, <1>6, <2>3 DEF BodiesRestored
    <3>1. CASE i = cursor
      BY <2>2, <2>4, <3>1
    <3>2. CASE i < cursor
      <4>1. codes[i].func_id # f
        BY <1>4, <1>7, <1>8, <2>1, <2>2, <3>2
      <4>2. functions[codes[i].func_id] = codes[i].body
        BY <1>1, <1>3, <1>6, <3>2 DEF BodiesRestored
      <4>3. codes[i].func_id \in DOMAIN functions
        BY <1>1, <1>6, <1>7, <3>2 DEF DeliveryInv, IInv, RestoredSoFar
      <4> QED BY <2>4, <4>1, <4>2, <4>3
    <3> QED BY <1>4, <1>7, <3>1, <3>2
  <2> QED BY <1>9, <2>6, <2>7
<1>11. CASE ~ (cursor <= Len(codes))
  <2>1. functions' = functions
    BY <1>1, <1>6, <1>11
  <2>2. \A n \in Layers : \A g, body : ComesBack(n, g, body) => ComesBack(n, g, body)'
    BY <1>1, <1>3, <2>1, QuietStep
  <2>3. VersionsComeBack'
    <3> SUFFICES ASSUME NEW n \in DOMAIN expected, n < Len(expected),
                        NEW name \in Names(Compiled[expected[n]]),
                        NEW fn, fn = Named(Compiled[expected[n]], name)
                 PROVE  ComesBack(n, fn.func_id, Body(fn))'
      BY <1>1 DEF VersionsComeBack
    <3>1. n \in Layers /\ ComesBack(n, fn.func_id, Body(fn))
      BY <1>3, <1>4 DEF VersionsComeBack
    <3>2. PICK body : body = Body(fn)
      OBVIOUS
    <3>3. ComesBack(n, fn.func_id, body)'
      BY <2>2, <3>1, <3>2
    <3> QED BY <3>2, <3>3
  <2>4. BodiesRestored'
    <3> SUFFICES ASSUME NEW i \in DOMAIN codes
                 PROVE  functions[codes[i].func_id] = codes[i].body
      BY <1>4, <1>6, <2>1 DEF BodiesRestored
    <3>1. i < cursor
      BY <1>4, <1>7, <1>11
    <3> QED BY <1>1, <1>3, <1>6, <3>1 DEF BodiesRestored
  <2> QED BY <1>9, <2>3, <2>4
<1> QED BY <1>10, <1>11

\* The record is popped, all of it in place.
LEMMA PopKeepsInv ==
    ASSUME DeliveryInv, VersionInv, EndOfRollback
    PROVE  VersionInv'
<1>1. /\ pc = "restore_binds" /\ pc' = "idle" /\ record' = record /\ functions' = functions
      /\ history' = SubSeq(history, 1, Len(history) - 1)
      /\ expected' = SubSeq(expected, 1, Len(expected) - 1)
      /\ UNCHANGED <<patch_file, made_for>>
  BY DEF EndOfRollback, RollbackEnd, runtimeVars, Front
<1>2. expected # <<>>
  BY <1>1 DEF DeliveryInv, NothingStarted
<1>3. /\ history \in Seq(PatchRecord) /\ expected \in Seq(Versions \cup {Unknown})
      /\ DOMAIN expected = Layers /\ record = NoRecord
  BY <1>1, <1>2, Depth DEF DeliveryInv, IInv, NothingOpen
<1>4. PICK top \in Nat \ {0} : /\ top = Len(history) /\ Len(expected) = top + 1
                               /\ Layers = 1 .. top + 1
  BY <1>1, <1>2, Depth, TopType DEF DeliveryInv
<1>5. /\ Len(history') = top - 1 /\ \A k \in 1 .. top - 1 : history'[k] = history[k]
      /\ Layers' = 1 .. top
  <2>1. /\ Len(history') = top - 1 /\ \A k \in 1 .. Len(history') : history'[k] = history[k]
    BY <1>1, <1>3, <1>4, PopBack
  <2> QED BY <2>1 DEF Layers
<1>6. /\ Len(expected') = top /\ DOMAIN expected' = 1 .. top
      /\ \A n \in 1 .. top : expected'[n] = expected[n]
  <2>1. /\ Len(expected') = Len(expected) - 1 /\ expected' \in Seq(Versions \cup {Unknown})
        /\ \A n \in 1 .. Len(expected') : expected'[n] = expected[n]
    BY <1>1, <1>3, <1>4, PopBack
  <2> QED BY <1>4, <2>1
<1>7. AllOrNoneKnown' /\ FileIsDifference'
  <2>1. \A n \in DOMAIN expected' : n \in DOMAIN expected /\ expected'[n] = expected[n]
    BY <1>3, <1>4, <1>6
  <2> QED BY <1>1, <2>1 DEF VersionInv, AllOrNoneKnown, FileIsDifference
<1>8. Tracked' => Tracked
  <2> SUFFICES ASSUME Tracked' PROVE Tracked
    OBVIOUS
  <2>1. Current' = expected[top] /\ Current' # Unknown /\ top \in DOMAIN expected
    BY <1>3, <1>4, <1>6 DEF Tracked, Current, Last
  <2>2. \A n \in DOMAIN expected : expected[n] \in Versions
    BY <2>1 DEF VersionInv, AllOrNoneKnown
  <2>3. Current \in Versions
    BY <1>2, <1>3, <1>4, <2>2 DEF Current, Last
  <2> QED BY <1>1, <1>2, <2>3, NumberingAssumption DEF Tracked
<1> SUFFICES ASSUME Tracked
             PROVE  VersionsComeBack' /\ NumbersStay' /\ SavedOnce' /\ BodiesRestored'
  BY <1>1, <1>7, <1>8 DEF VersionInv
<1>9. VersionsComeBack /\ NumbersStay /\ SavedOnce /\ BodiesRestored
  BY DEF VersionInv
<1>10. \A i \in DOMAIN Top.old_bytecodes :
          /\ Top.old_bytecodes[i].func_id \in DOMAIN functions
          /\ functions[Top.old_bytecodes[i].func_id] = Top.old_bytecodes[i].body
  <2>1. DOMAIN Top.old_bytecodes = 1 .. Len(Top.old_bytecodes)
    <3>1. Top \in PatchRecord
      BY <1>1, TopType DEF DeliveryInv
    <3>2. Top.old_bytecodes \in Seq(VmFunction)
      BY <3>1 DEF PatchRecord
    <3> QED BY <3>2
  <2> QED BY <1>1, <1>9, <2>1 DEF BodiesRestored, DeliveryInv, IInv, RestoredSoFar
<1>11. VersionsComeBack'
  <2> SUFFICES ASSUME NEW n \in 1 .. top, NEW name \in Names(Compiled[expected'[n]]),
                      NEW fn, fn = Named(Compiled[expected'[n]], name)
               PROVE  ComesBack(n, fn.func_id, Body(fn))'
    BY <1>6 DEF VersionsComeBack
  <2>1. n \in DOMAIN expected /\ n < Len(expected) /\ expected'[n] = expected[n]
    BY <1>3, <1>4, <1>6
  <2>2. ComesBack(n, fn.func_id, Body(fn))
    BY <1>9, <2>1 DEF VersionsComeBack
  <2>3. PICK body : body = Body(fn)
    OBVIOUS
  <2>4. Len(history) \in Nat \ {0} /\ n \in 1 .. Len(history) /\ ComesBack(n, fn.func_id, body)
    BY <1>4, <2>2, <2>3
  <2>5. ComesBack(n, fn.func_id, body)'
    BY <1>1, <1>3, <1>10, <2>4, BackPopped
  <2> QED BY <2>3, <2>5
<1>12. NumbersStay'
  <2> SUFFICES ASSUME NEW n \in 1 .. top, NEW m \in 1 .. top, n <= m,
                      NEW f \in Numbers(expected'[n]), f \notin Numbers(expected'[m])
               PROVE  \E k \in n .. (m - 1) : f \in SavedIn(history'[k])
    BY <1>6 DEF NumbersStay
  <2>1. n \in DOMAIN expected /\ m \in DOMAIN expected /\ expected'[n] = expected[n] /\ expected'[m] = expected[m]
    BY <1>3, <1>4, <1>6
  <2>2. PICK k \in n .. (m - 1) : f \in SavedIn(history[k])
    BY <1>9, <2>1 DEF NumbersStay
  <2>3. history'[k] = history[k]
    BY <1>5, <2>2
  <2> QED BY <2>2, <2>3
<1>13. SavedOnce'
  <2>1. \A k \in 1 .. top - 1 : Layer(k)' = Layer(k) /\ k \in Layers
    BY <1>4, <1>5 DEF Layer
  <2>2. Layer(top)' = NoRecord
    <3>1. ~ (top <= top - 1)
      OBVIOUS
    <3> QED BY <1>1, <1>3, <1>5, <3>1 DEF Layer
  <2> SUFFICES ASSUME NEW k \in 1 .. top,
                      NEW i \in DOMAIN Layer(k)'.old_bytecodes, NEW j \in DOMAIN Layer(k)'.old_bytecodes,
                      Layer(k)'.old_bytecodes[i].func_id = Layer(k)'.old_bytecodes[j].func_id
               PROVE  i = j
    BY <1>5 DEF SavedOnce
  <2>3. CASE k \in 1 .. top - 1
    BY <1>9, <2>1, <2>3 DEF SavedOnce
  <2>4. CASE k = top
    BY <2>2, <2>4, NothingSaved
  <2> QED BY <2>3, <2>4
<1>14. BodiesRestored'
  BY <1>1 DEF BodiesRestored
<1> QED BY <1>11, <1>12, <1>13, <1>14

\* hotdiff writes a file, or finds that the two versions are one.
LEMMA HotdiffKeepsInv ==
    ASSUME DeliveryInv, VersionInv, NEW p \in Asked, pc = "idle", Hotdiff(p)
    PROVE  VersionInv'
<1>1. expected # <<>> /\ UNCHANGED vars /\ pc' = "idle"
      /\ UNCHANGED <<history, functions, record, cursor>>
  BY DEF Hotdiff, vars
<1>2. PICK manifest \in Differences[p] :
         IF manifest.entries = <<>>
         THEN /\ expected' = [expected EXCEPT ![Len(expected)] =
                                 IF @ = p[1] /\ Compatible(p) THEN p[2] ELSE @]
              /\ UNCHANGED <<patch_file, made_for>>
         ELSE /\ patch_file' = WritePatchManifest(manifest)
              /\ made_for' = p
              /\ UNCHANGED expected
  BY DEF Hotdiff
<1>3. FileIsDifference'
  <2>1. CASE manifest.entries = <<>>
    BY <1>2, <2>1 DEF VersionInv, FileIsDifference
  <2>2. CASE manifest.entries # <<>>
    BY <1>2, <2>2 DEF FileIsDifference
  <2> QED BY <2>1, <2>2
<1>4. BodiesRestored' /\ pc' # "apply"
  BY <1>1 DEF BodiesRestored
<1>5. /\ expected \in Seq(Versions \cup {Unknown}) /\ DOMAIN expected = Layers
      /\ Len(expected) \in DOMAIN expected /\ Current = expected[Len(expected)]
      /\ p[1] \in Versions /\ p[2] \in Versions
      /\ Layers = 1 .. Len(history) + 1 /\ Len(expected) = Len(history) + 1 /\ Len(history) \in Nat
  BY <1>1, Depth, DeliveryAssumption
<1>6. CASE expected' = expected
  <2>1. AllOrNoneKnown' /\ (Tracked' => Tracked)
    BY <1>1, <1>6 DEF VersionInv, AllOrNoneKnown, Tracked, Current
  <2>2. Tracked => VersionsComeBack' /\ NumbersStay' /\ SavedOnce'
    BY <1>1, <1>6, QuietKeeps
  <2> QED BY <1>3, <1>4, <2>1, <2>2 DEF VersionInv
<1>7. CASE manifest.entries = <<>> /\ Current = p[1] /\ Compatible(p)
  <2>1. PICK top : top = Len(expected)
    OBVIOUS
  <2>2. /\ DOMAIN expected' = DOMAIN expected /\ Len(expected') = top
        /\ expected'[top] = p[2] /\ expected[top] = p[1]
        /\ \A n \in DOMAIN expected : n # top => expected'[n] = expected[n]
    BY <1>2, <1>5, <1>7, <2>1
  <2>3. Tracked
    BY <1>1, <1>5, <1>7, NumberingAssumption DEF Tracked
  <2>4. /\ VersionsComeBack /\ NumbersStay /\ SavedOnce
        /\ \A n \in DOMAIN expected : expected[n] \in Versions
    BY <2>3, TrackedFits DEF VersionInv
  <2>5. AllOrNoneKnown'
    BY <1>5, <2>2, <2>4 DEF AllOrNoneKnown
  <2>6. /\ Numbers(p[1]) \subseteq Numbers(p[2])
        /\ \A n \in Names(Compiled[p[2]]) :
              /\ n \in Names(Compiled[p[1]])
              /\ Named(Compiled[p[1]], n).func_id = Named(Compiled[p[2]], n).func_id
              /\ Body(Named(Compiled[p[1]], n)) = Body(Named(Compiled[p[2]], n))
    BY <1>7, EmptyDifference
  <2>7. \A n \in Layers : \A g, body : ComesBack(n, g, body) => ComesBack(n, g, body)'
    BY <1>1, QuietStep
  <2>8. VersionsComeBack'
    <3> SUFFICES ASSUME NEW n \in DOMAIN expected, NEW name \in Names(Compiled[expected'[n]]),
                        NEW fn, fn = Named(Compiled[expected'[n]], name)
                 PROVE  ComesBack(n, fn.func_id, Body(fn))'
      BY <2>2 DEF VersionsComeBack
    <3>1. PICK body, g : body = Body(fn) /\ g = fn.func_id
      OBVIOUS
    <3>2. ComesBack(n, g, body)
      <4>1. CASE n = top
        <5>1. name \in Names(Compiled[p[2]]) /\ fn = Named(Compiled[p[2]], name)
          BY <2>2, <4>1
        <5>2. PICK old : old = Named(Compiled[p[1]], name)
          OBVIOUS
        <5>3. /\ name \in Names(Compiled[expected[n]]) /\ old = Named(Compiled[expected[n]], name)
              /\ old.func_id = g /\ Body(old) = body
          BY <2>2, <2>6, <3>1, <4>1, <5>1, <5>2
        <5> QED BY <2>4, <5>3 DEF VersionsComeBack
      <4>2. CASE n # top
        BY <2>2, <2>4, <3>1, <4>2 DEF VersionsComeBack
      <4> QED BY <4>1, <4>2
    <3>3. ComesBack(n, g, body)'
      BY <1>5, <2>7, <3>2
    <3> QED BY <3>1, <3>3
  <2>9. NumbersStay'
    <3> SUFFICES ASSUME NEW n \in DOMAIN expected, NEW m \in DOMAIN expected, n <= m,
                        NEW f \in Numbers(expected'[n]), f \notin Numbers(expected'[m])
                 PROVE  \E k \in n .. (m - 1) : f \in SavedIn(history[k])
      BY <1>1, <2>2 DEF NumbersStay
    <3>1. n # m /\ n # top
      BY <1>5, <2>1
    <3>2. f \notin Numbers(expected[m])
      <4>1. CASE m = top
        BY <2>2, <2>6, <4>1
      <4>2. CASE m # top
        BY <2>2, <4>2
      <4> QED BY <4>1, <4>2
    <3> QED BY <2>2, <2>4, <3>1, <3>2 DEF NumbersStay
  <2>10. SavedOnce'
    BY <1>1, <2>4, QuietStep
  <2> QED BY <1>3, <1>4, <2>3, <2>5, <2>8, <2>9, <2>10 DEF VersionInv
<1>8. ~ (manifest.entries = <<>> /\ Current = p[1] /\ Compatible(p)) => expected' = expected
  <2>1. CASE manifest.entries # <<>>
    BY <1>2, <2>1
  <2>2. CASE manifest.entries = <<>> /\ ~ (Current = p[1] /\ Compatible(p))
    <3>1. expected' = [expected EXCEPT ![Len(expected)] = expected[Len(expected)]]
      BY <1>2, <1>5, <2>2
    <3> QED BY <1>5, <3>1
  <2> QED BY <2>1, <2>2
<1> QED BY <1>6, <1>7, <1>8

\* The program starts with one of the versions.
LEMMA LoadKeepsInv ==
    ASSUME DeliveryInv, VersionInv, NEW v \in Started, LoadModule(v)
    PROVE  VersionInv'
<1>1. /\ expected = <<>> /\ expected' = <<v>> /\ v \in Versions
      /\ functions' = RegisterAll(functions, Loaded[v].functions)
      /\ UNCHANGED <<history, record, pc, patch_file, made_for>>
  BY DeliveryAssumption DEF LoadModule, patchVars
<1>2. /\ pc = "idle" /\ history = <<>> /\ record = NoRecord
  BY <1>1 DEF DeliveryInv, NothingStarted, IInv, NothingOpen
<1>3. AllOrNoneKnown' /\ FileIsDifference' /\ BodiesRestored' /\ pc' # "apply"
  BY <1>1, <1>2 DEF VersionInv, AllOrNoneKnown, FileIsDifference, BodiesRestored
<1>4. /\ DOMAIN expected' = {1} /\ expected'[1] = v /\ Layers' = {1} /\ Layer(1)' = NoRecord
  BY <1>1, <1>2 DEF Layers, Layer
<1>5. VersionsComeBack'
  <2> SUFFICES ASSUME NEW name \in Names(Compiled[v]), NEW fn, fn = Named(Compiled[v], name)
               PROVE  ComesBack(1, fn.func_id, Body(fn))'
    BY <1>4 DEF VersionsComeBack
  <2>1. fn.func_id \in DOMAIN functions' /\ functions'[fn.func_id] = Body(fn)
    BY <1>1, RegisterAllHas, FilesAssumption
  <2>2. \A j \in Layers' : 1 <= j => fn.func_id \notin SavedIn(Layer(j))'
    <3>1. \A x : x \notin SavedIn(Layer(1))'
      BY <1>4, NothingSaved DEF SavedIn
    <3> QED BY <1>4, <3>1
  <2> QED BY <2>1, <2>2 DEF ComesBack
<1>6. NumbersStay'
  BY <1>4 DEF NumbersStay
<1>7. SavedOnce'
  BY <1>4, NothingSaved DEF SavedOnce
<1> QED BY <1>3, <1>5, <1>6, <1>7 DEF VersionInv

LEMMA VersionStep ==
    ASSUME DeliveryInv, VersionInv, [DeliveryNext]_deliveryVars
    PROVE  VersionInv'
<1>1. CASE UNCHANGED deliveryVars
  <2>1. UNCHANGED <<pc, history, functions, record, todo, cursor, expected, patch_file, made_for>>
    BY <1>1 DEF deliveryVars, vars
  <2> USE DEF VersionInv
  <2>2. AllOrNoneKnown' /\ FileIsDifference' /\ Tracked' = Tracked
    BY <2>1 DEF AllOrNoneKnown, FileIsDifference, Tracked, Fits, Current
  <2>3. /\ VersionsComeBack' = VersionsComeBack /\ NumbersStay' = NumbersStay
        /\ SavedOnce' = SavedOnce /\ BodiesRestored' = BodiesRestored
    BY <2>1 DEF VersionsComeBack, ComesBack, Saves, SavedIn, Layers, Layer, NumbersStay,
                SavedOnce, BodiesRestored, Top
  <2>4. /\ EntriesOnce' = EntriesOnce /\ NewVersionArrives' = NewVersionArrives
        /\ AddedIsNew' = AddedIsNew /\ OldVersionIsSaved' = OldVersionIsSaved
    BY <2>1 DEF EntriesOnce, NewVersionArrives, AddedIsNew, OldVersionIsSaved, SavedIn, Current
  <2> QED BY <2>1, <2>2, <2>3, <2>4
<1>2. CASE \E v \in Started : LoadModule(v)
  BY <1>2, LoadKeepsInv
<1>3. CASE \E p \in Asked : pc = "idle" /\ Hotdiff(p)
  BY <1>3, HotdiffKeepsInv
<1>4. CASE PatchStep
  BY <1>4, EntryKeepsInv, BindsKeepInv, RestoreKeepsInv DEF PatchStep
<1>5. CASE ExportNative
  BY <1>5, BindsKeepInv
<1> QED BY <1>1, <1>2, <1>3, <1>4, <1>5, FileKeepsInv, EndKeepsInv, PopKeepsInv DEF DeliveryNext

LEMMA InitVersions == DeliveryInit => VersionInv
<1> SUFFICES ASSUME DeliveryInit PROVE VersionInv
  OBVIOUS
<1>1. expected = <<>> /\ patch_file = <<>>
  BY DEF DeliveryInit
<1>2. AllOrNoneKnown /\ FileIsDifference /\ ~ Tracked
  BY <1>1 DEF AllOrNoneKnown, FileIsDifference, Tracked
<1> QED BY <1>2 DEF VersionInv

-----------------------------------------------------------------------------

\* Every version below an applied patch can be had back, in full and under its
\* own numbers, at any moment of any patch or rollback (DiffModules, ApplyPatch,
\* Rollback).
THEOREM VersionsCanBeHadBack == DeliverySpec => []VersionInv
<1>1. DeliveryInv /\ VersionInv /\ [DeliveryNext]_deliveryVars => VersionInv'
  BY VersionStep
<1> QED BY InitVersions, <1>1, DeliveryInvariance, PTL DEF DeliverySpec

\* The program runs the version its developer takes it to run: every function of
\* it is there under its number with the code that was compiled, for patches
\* stacked, applied twice, found empty and rolled back (diff.cpp:37-85,
\* patch_manager.cpp:17-124).
THEOREM ExpectedVersionRuns == DeliverySpec => []RunsExpectedVersion
<1>1. DeliveryInv /\ VersionInv => RunsExpectedVersion
  BY CurrentRuns DEF RunsExpectedVersion
<1> QED BY <1>1, DeliveryInvariance, VersionsCanBeHadBack, PTL

=============================================================================
