------------------------- MODULE PatchManagerProofs -------------------------
(***************************************************************************)
(* PatchManager's properties proved for any functions, bodies, bindings,   *)
(* number of slots, manifests and number of patches.                       *)
(*                                                                         *)
(* IInv is the inductive invariant.  Its heart is BindsUsable: since a     *)
(* rollback may put any saved binding on any wrapper, what is claimed of   *)
(* the bindings in place has to be claimed of the saved ones too.          *)
(***************************************************************************)
EXTENDS PatchManager, WrapperTableProofs, SequenceTheorems

USE PatchManagerAssumption

-----------------------------------------------------------------------------
(* Maps. *)

LEMMA PutDomain ==
    ASSUME NEW m, NEW key, NEW value
    PROVE  /\ DOMAIN Put(m, key, value) = DOMAIN m \cup {key}
           /\ Put(m, key, value)[key] = value
           /\ \A k \in DOMAIN m : k # key => Put(m, key, value)[k] = m[k]
BY DEF Put

LEMMA PutType ==
    ASSUME NEW K, NEW V, NEW m \in MapsOf(K, V), NEW key \in K, NEW value \in V
    PROVE  Put(m, key, value) \in MapsOf(K, V)
<1>1. PICK D \in SUBSET K : m \in [D -> V]
  BY DEF MapsOf
<1>2. Put(m, key, value) \in [D \cup {key} -> V]
  BY <1>1 DEF Put
<1> QED BY <1>2 DEF MapsOf

LEMMA EraseType ==
    ASSUME NEW K, NEW V, NEW m \in MapsOf(K, V), NEW key
    PROVE  Erase(m, key) \in MapsOf(K, V) /\ DOMAIN Erase(m, key) = DOMAIN m \ {key}
<1>1. PICK D \in SUBSET K : m \in [D -> V]
  BY DEF MapsOf
<1>2. Erase(m, key) \in [D \ {key} -> V]
  BY <1>1 DEF Erase
<1> QED BY <1>1, <1>2 DEF MapsOf, Erase

LEMMA EmptyMapType ==
    ASSUME NEW K, NEW V
    PROVE  EmptyMap \in MapsOf(K, V) /\ DOMAIN EmptyMap = {}
<1>1. EmptyMap \in [{} -> V]
  BY DEF EmptyMap
<1> QED BY <1>1 DEF MapsOf, EmptyMap

LEMMA MapApply ==
    ASSUME NEW K, NEW V, NEW m \in MapsOf(K, V)
    PROVE  DOMAIN m \subseteq K /\ \A k \in DOMAIN m : m[k] \in V
BY DEF MapsOf

LEMMA FunctionsPut ==
    ASSUME functions \in MapsOf(FuncIds, Bodies), NEW f \in FuncIds, NEW body \in Bodies,
           functions' = Put(functions, f, body)
    PROVE  functions' \in MapsOf(FuncIds, Bodies) /\ DOMAIN functions' = DOMAIN functions \cup {f}
<1>1. functions' \in MapsOf(FuncIds, Bodies)
  BY PutType
<1>2. DOMAIN functions' = DOMAIN functions \cup {f}
  BY DEF Put
<1> QED BY <1>1, <1>2

LEMMA FunctionsErase ==
    ASSUME functions \in MapsOf(FuncIds, Bodies), NEW f \in FuncIds,
           functions' = Erase(functions, f)
    PROVE  functions' \in MapsOf(FuncIds, Bodies) /\ DOMAIN functions' = DOMAIN functions \ {f}
<1>1. functions' \in MapsOf(FuncIds, Bodies)
  BY EraseType
<1>2. DOMAIN functions' = DOMAIN functions \ {f}
  BY DEF Erase
<1> QED BY <1>1, <1>2

\* history_.pop_back()
LEMMA PopBack ==
    ASSUME NEW S, NEW s \in Seq(S), Len(s) # 0
    PROVE  LET front == SubSeq(s, 1, Len(s) - 1)
           IN  /\ front \in Seq(S)
               /\ Len(front) = Len(s) - 1
               /\ \A n \in 1 .. Len(front) : front[n] = s[n]
<1> DEFINE last == Len(s) - 1
           front == SubSeq(s, 1, last)
<1>1. last \in Nat /\ 1 \in Int /\ last \in Int
  OBVIOUS
<1>2. \A i \in 1 .. last : s[i] \in S
  OBVIOUS
<1> HIDE DEF last
<1>3. /\ front \in Seq(S)
      /\ Len(front) = IF 1 <= last THEN last - 1 + 1 ELSE 0
      /\ \A i \in 1 .. last - 1 + 1 : front[i] = s[1 + i - 1]
  BY <1>1, <1>2, SubSeqProperties
<1>4. Len(front) = last
  BY <1>1, <1>3
<1>5. \A n \in 1 .. Len(front) : front[n] = s[n]
  BY <1>1, <1>3, <1>4
<1> QED BY <1>3, <1>4, <1>5 DEF last

-----------------------------------------------------------------------------
(* Undo records. *)

LEMMA NewRecordType ==
    ASSUME NEW v \in Nat
    PROVE  /\ NewRecord(v) \in PatchRecord
           /\ SavedIn(NewRecord(v)) = {}
           /\ NewRecord(v).old_binds = <<>>
           /\ NewRecord(v).version = v
BY DEF NewRecord, PatchRecord, SavedIn

LEMMA SaveBytecodeStep ==
    ASSUME NEW rec \in PatchRecord, NEW f \in FuncIds, RuntimeTypeOK
    PROVE  /\ SaveBytecode(rec, f) \in PatchRecord
           /\ SavedIn(SaveBytecode(rec, f)) = SavedIn(rec) \cup ({f} \cap DOMAIN functions)
           /\ SaveBytecode(rec, f).old_binds = rec.old_binds
           /\ SaveBytecode(rec, f).version = rec.version
<1>1. CASE f \in DOMAIN functions
  <2> DEFINE old == [func_id |-> f, body |-> functions[f]]
             codes == rec.old_bytecodes
  <2>1. old \in VmFunction
    BY <1>1, MapApply DEF RuntimeTypeOK, VmFunction
  <2>2. /\ codes \in Seq(VmFunction)
        /\ rec.modified_funcs \in Seq(FuncIds)
    BY DEF PatchRecord
  <2>3. SaveBytecode(rec, f) = [rec EXCEPT !.modified_funcs = Append(@, f),
                                           !.old_bytecodes = Append(@, old)]
    BY <1>1 DEF SaveBytecode
  <2>4. SaveBytecode(rec, f) \in PatchRecord
    <3>1. /\ Append(codes, old) \in Seq(VmFunction)
          /\ Append(rec.modified_funcs, f) \in Seq(FuncIds)
      BY <2>1, <2>2
    <3> QED BY <2>3, <3>1 DEF PatchRecord
  <2>5. SaveBytecode(rec, f).old_bytecodes = Append(codes, old)
    BY <2>3 DEF PatchRecord
  <2>6. /\ Len(Append(codes, old)) = Len(codes) + 1
        /\ Append(codes, old)[Len(codes) + 1] = old
        /\ \A i \in 1 .. Len(codes) : Append(codes, old)[i] = codes[i]
    BY <2>1, <2>2
  <2>7. SavedIn(SaveBytecode(rec, f)) = SavedIn(rec) \cup {f}
    BY <2>2, <2>5, <2>6 DEF SavedIn
  <2>8. /\ SaveBytecode(rec, f).old_binds = rec.old_binds
        /\ SaveBytecode(rec, f).version = rec.version
    BY <2>3 DEF PatchRecord
  <2> QED BY <1>1, <2>4, <2>7, <2>8
<1>2. CASE f \notin DOMAIN functions
  BY <1>2 DEF SaveBytecode
<1> QED BY <1>1, <1>2

LEMMA SaveBindStep ==
    ASSUME NEW rec \in PatchRecord, NEW wid, TableTypeOK
    PROVE  /\ SaveBind(rec, wid) \in PatchRecord
           /\ SavedIn(SaveBind(rec, wid)) = SavedIn(rec)
           /\ SaveBind(rec, wid).version = rec.version
           /\ \A i \in 1 .. Len(SaveBind(rec, wid).old_binds) :
                 \/ i \in 1 .. Len(rec.old_binds) /\ SaveBind(rec, wid).old_binds[i] = rec.old_binds[i]
                 \/ wid \in WrapperIds /\ SaveBind(rec, wid).old_binds[i] = bind_info[wid]
<1>1. CASE wid \in WrapperIds
  <2> DEFINE bind == bind_info[wid]
             binds == rec.old_binds
  <2>1. bind \in BindInfo /\ binds \in Seq(BindInfo)
    BY <1>1 DEF TableTypeOK, PatchRecord
  <2>2. SaveBind(rec, wid) = [rec EXCEPT !.old_binds = Append(@, bind)]
    BY <1>1 DEF SaveBind
  <2>3. /\ SaveBind(rec, wid).old_binds = Append(binds, bind)
        /\ SaveBind(rec, wid).old_bytecodes = rec.old_bytecodes
        /\ SaveBind(rec, wid).version = rec.version
    BY <2>2 DEF PatchRecord
  <2>4. SaveBind(rec, wid) \in PatchRecord
    <3>1. Append(binds, bind) \in Seq(BindInfo)
      BY <2>1
    <3> QED BY <2>2, <3>1 DEF PatchRecord
  <2>5. /\ Len(Append(binds, bind)) = Len(binds) + 1
        /\ Append(binds, bind)[Len(binds) + 1] = bind
        /\ \A i \in 1 .. Len(binds) : Append(binds, bind)[i] = binds[i]
    BY <2>1
  <2>6. \A i \in 1 .. Len(Append(binds, bind)) :
           \/ i \in 1 .. Len(binds) /\ Append(binds, bind)[i] = binds[i]
           \/ Append(binds, bind)[i] = bind
    BY <2>1, <2>5
  <2> QED BY <1>1, <2>3, <2>4, <2>6 DEF SavedIn
<1>2. CASE wid \notin WrapperIds
  BY <1>2 DEF SaveBind
<1> QED BY <1>1, <1>2

\* The vectors of a record after the saves of a modified function.
LEMMA SavedFields ==
    ASSUME NEW rec \in PatchRecord, NEW f \in FuncIds, NEW wid, RuntimeTypeOK
    PROVE  LET saved == SaveBind(SaveBytecode(rec, f), wid)
           IN  /\ saved.modified_funcs =
                     IF f \in DOMAIN functions THEN Append(rec.modified_funcs, f)
                     ELSE rec.modified_funcs
               /\ saved.old_bytecodes =
                     IF f \in DOMAIN functions
                     THEN Append(rec.old_bytecodes, [func_id |-> f, body |-> functions[f]])
                     ELSE rec.old_bytecodes
               /\ saved.old_binds =
                     IF wid \in WrapperIds THEN Append(rec.old_binds, bind_info[wid])
                     ELSE rec.old_binds
<1> DEFINE mid == SaveBytecode(rec, f)
<1>1. /\ mid.modified_funcs = IF f \in DOMAIN functions THEN Append(rec.modified_funcs, f)
                              ELSE rec.modified_funcs
      /\ mid.old_bytecodes = IF f \in DOMAIN functions
                             THEN Append(rec.old_bytecodes, [func_id |-> f, body |-> functions[f]])
                             ELSE rec.old_bytecodes
      /\ mid.old_binds = rec.old_binds
  BY DEF SaveBytecode, PatchRecord
<1>2. mid \in PatchRecord
  BY SaveBytecodeStep
<1> HIDE DEF mid
<1>3. /\ SaveBind(mid, wid).modified_funcs = mid.modified_funcs
      /\ SaveBind(mid, wid).old_bytecodes = mid.old_bytecodes
      /\ SaveBind(mid, wid).old_binds = IF wid \in WrapperIds
                                        THEN Append(mid.old_binds, bind_info[wid])
                                        ELSE mid.old_binds
  BY <1>2 DEF SaveBind, PatchRecord
<1> QED BY <1>1, <1>3 DEF mid

\* What is in a sequence after one more element.
LEMMA AppendElements ==
    ASSUME NEW S, NEW s \in Seq(S), NEW e \in S
    PROVE  /\ DOMAIN Append(s, e) = DOMAIN s \cup {Len(s) + 1}
           /\ Append(s, e)[Len(s) + 1] = e
           /\ Len(s) + 1 \notin DOMAIN s
           /\ \A i \in DOMAIN s : Append(s, e)[i] = s[i]
OBVIOUS

-----------------------------------------------------------------------------
(* What the parts of IInv need of a step. *)

\* The saved bytecodes of the applied patches.
LEMMA RecoverableMono ==
    ASSUME history' = history,
           DOMAIN functions \cup SavedIn(record)
              \subseteq DOMAIN functions' \cup SavedIn(record')
    PROVE  Recoverable \subseteq Recoverable'
BY DEF Recoverable, SavedIn

LEMMA UsableMono ==
    ASSUME NEW bind, UsableBind(bind), Recoverable \subseteq Recoverable'
    PROVE  /\ bind.mode = kVM => bind.func_id \in Recoverable'
           /\ bind.mode = kNative => bind.native_fn # nullptr
BY DEF UsableBind

\* The record and the history keep their bindings, and each slot in use keeps
\* its own or has a new one that is usable.
LEMMA BindsStep ==
    ASSUME BindsUsable,
           Recoverable \subseteq Recoverable',
           record'.old_binds = record.old_binds,
           history' = history,
           \A w \in UsedSlots' :
              \/ w \in UsedSlots /\ bind_info'[w] = bind_info[w]
              \/ /\ bind_info'[w].mode = kVM => bind_info'[w].func_id \in Recoverable'
                 /\ bind_info'[w].mode = kNative => bind_info'[w].native_fn # nullptr
    PROVE  BindsUsable'
<1>1. \A w \in UsedSlots' : UsableBind(bind_info[w])'
  BY DEF BindsUsable, UsableBind
<1>2. \A i \in 1 .. Len(record'.old_binds) : UsableBind(record.old_binds[i])'
  BY DEF BindsUsable, UsableBind
<1>3. \A n \in 1 .. Len(history') : \A i \in 1 .. Len(history'[n].old_binds) :
          UsableBind(history[n].old_binds[i])'
  BY DEF BindsUsable, UsableBind
<1> QED BY <1>1, <1>2, <1>3 DEF BindsUsable

LEMMA DispatchKept ==
    ASSUME DispatchSound, UsedSlots \subseteq UsedSlots',
           dispatch_table' = dispatch_table
    PROVE  DispatchSound'
BY DEF DispatchSound

LEMMA DispatchPut ==
    ASSUME RuntimeTypeOK, DispatchSound, NEW f \in FuncIds,
           NEW bind \in BindInfo, Alloc(bind),
           dispatch_table' = Put(dispatch_table, f, AllocResult)
    PROVE  /\ DispatchSound'
           /\ dispatch_table' \in MapsOf(FuncIds, WrapperIds \cup {kInvalidWrapperId})
<1> USE DEF RuntimeTypeOK
<1>1. /\ AllocResult \in WrapperIds \cup {kInvalidWrapperId}
      /\ AllocResult # kInvalidWrapperId => AllocResult \in WrapperIds \ UsedSlots
  BY AllocResultFree
<1>2. UsedSlots' = UsedSlots \cup ({AllocResult} \cap WrapperIds)
  BY AllocStep
<1>3. /\ DOMAIN dispatch_table' = DOMAIN dispatch_table \cup {f}
      /\ dispatch_table'[f] = AllocResult
      /\ \A g \in DOMAIN dispatch_table : g # f => dispatch_table'[g] = dispatch_table[g]
  BY DEF Put
<1>4. \A g \in DOMAIN dispatch_table' :
         dispatch_table'[g] \in UsedSlots' \cup {kInvalidWrapperId}
  BY <1>1, <1>2, <1>3 DEF DispatchSound
<1>5. \A g, h \in DOMAIN dispatch_table' :
         dispatch_table'[g] = dispatch_table'[h] /\ dispatch_table'[g] # kInvalidWrapperId
            => g = h
  BY <1>1, <1>3 DEF DispatchSound
<1>6. dispatch_table' \in MapsOf(FuncIds, WrapperIds \cup {kInvalidWrapperId})
  BY <1>1, PutType
<1> QED BY <1>4, <1>5, <1>6 DEF DispatchSound

-----------------------------------------------------------------------------
(* The initial states, and one lemma per action. *)

LEMMA InitIInv == Init => IInv
<1> SUFFICES ASSUME Init PROVE IInv
  OBVIOUS
<1> USE DEF Init, RuntimeInit
<1>1. TableTypeOK /\ UsedSlots = {} /\ CountIsExact
  BY InitTable
<1>2. TypeOK
  BY <1>1, EmptyMapType, NewRecordType DEF TypeOK, RuntimeTypeOK, NoRecord
<1>3. VersionIsDepth /\ NothingOpen /\ RestoredSoFar
  BY DEF VersionIsDepth, NothingOpen, RestoredSoFar
<1>4. DispatchSound
  BY EmptyMapType DEF DispatchSound
<1>5. BindsUsable
  BY <1>1, NewRecordType DEF BindsUsable, NoRecord
<1> QED BY <1>1, <1>2, <1>3, <1>4, <1>5 DEF IInv

\* What an action has to establish.
StepOK == IInv' /\ Recoverable \subseteq Recoverable'

LEMMA StepProgramRegistersNative ==
    ASSUME IInv, ProgramRegistersNative
    PROVE  StepOK
<1>1. PICK f \in FuncIds, fn \in NativeFns, sig \in Sigs : RegisterNativeFunction(f, fn, sig)
  BY DEF ProgramRegistersNative
<1> DEFINE bind == NativeBind(f, fn, sig)
<1> USE DEF IInv, TypeOK, RuntimeTypeOK
<1>2. /\ bind \in BindInfo
      /\ bind.mode # kVM
      /\ bind.native_fn # nullptr
  BY TypesAssumption DEF NativeBind, BindInfo, DispatchMode, kVM, kNative
<1>3. Alloc(bind) /\ functions' = functions /\ UNCHANGED patchVars
  BY <1>1 DEF RegisterNativeFunction, ProgramRegistersNative
<1>4. /\ TableTypeOK' /\ CountIsExact'
      /\ UsedSlots' = UsedSlots \cup ({AllocResult} \cap WrapperIds)
      /\ \A w \in UsedSlots : bind_info'[w] = bind_info[w]
      /\ AllocResult \in WrapperIds => bind_info'[AllocResult] = bind
  BY <1>2, <1>3, AllocStep
<1>5. /\ DispatchSound'
      /\ dispatch_table' \in MapsOf(FuncIds, WrapperIds \cup {kInvalidWrapperId})
  <2>1. CASE AllocResult = kInvalidWrapperId
    BY <1>1, <1>4, <2>1, DispatchKept DEF RegisterNativeFunction
  <2>2. CASE AllocResult # kInvalidWrapperId
    BY <1>1, <1>2, <1>3, <2>2, DispatchPut DEF RegisterNativeFunction
  <2> QED BY <2>1, <2>2
<1>6. TypeOK'
  BY <1>3, <1>4, <1>5 DEF patchVars
<1>7. Recoverable \subseteq Recoverable'
  BY <1>3, RecoverableMono DEF patchVars
<1>8. BindsUsable'
  BY <1>2, <1>3, <1>4, <1>7, BindsStep DEF patchVars
<1>9. VersionIsDepth' /\ NothingOpen' /\ RestoredSoFar'
  BY <1>3 DEF patchVars, VersionIsDepth, NothingOpen, RestoredSoFar, Top
<1> QED BY <1>4, <1>5, <1>6, <1>7, <1>8, <1>9 DEF StepOK

LEMMA StepProgramRegistersVm ==
    ASSUME IInv, ProgramRegistersVm
    PROVE  StepOK
<1>1. PICK f \in FuncIds, body \in BaseBodies : RegisterVmFunction(f, body)
  BY DEF ProgramRegistersVm
<1> USE DEF IInv, TypeOK, RuntimeTypeOK
<1>2. /\ functions' = Put(functions, f, body)
      /\ UNCHANGED <<tableVars, dispatch_table, patchVars>>
  BY <1>1 DEF RegisterVmFunction, RegisterFunction, ProgramRegistersVm
<1>3. functions' \in MapsOf(FuncIds, Bodies) /\ DOMAIN functions' = DOMAIN functions \cup {f}
  BY <1>2, PutType, PutDomain
<1>4. UsedSlots' = UsedSlots
  BY <1>2 DEF UsedSlots, tableVars
<1>5. TypeOK' /\ CountIsExact'
  BY <1>2, <1>3, <1>4 DEF tableVars, patchVars, TableTypeOK, CountIsExact
<1>6. Recoverable \subseteq Recoverable'
  BY <1>2, <1>3, RecoverableMono DEF patchVars
<1>7. BindsUsable'
  BY <1>2, <1>4, <1>6, BindsStep DEF patchVars, tableVars
<1>8. VersionIsDepth' /\ NothingOpen' /\ RestoredSoFar'
  BY <1>2, <1>3 DEF patchVars, VersionIsDepth, NothingOpen, RestoredSoFar, Top
<1>9. DispatchSound'
  BY <1>2, <1>4, DispatchKept
<1> QED BY <1>5, <1>6, <1>7, <1>8, <1>9 DEF StepOK

LEMMA StepApplyBegin ==
    ASSUME IInv, ApplyBegin
    PROVE  StepOK
<1> USE DEF IInv, TypeOK
<1>1. /\ UNCHANGED <<runtimeVars, history, cursor>>
      /\ pc = "idle" /\ pc' = "apply"
      /\ current_version' = current_version + 1
      /\ record' = NewRecord(current_version')
      /\ todo' \in Seq(PatchEntry)
  BY DEF ApplyBegin
<1>2. /\ record' \in PatchRecord
      /\ SavedIn(record') = {}
      /\ record'.old_binds = <<>>
      /\ record'.version = current_version'
  BY <1>1, NewRecordType
<1>3. SavedIn(record) = {} /\ record.old_binds = <<>>
  BY <1>1, NewRecordType DEF NothingOpen, NoRecord
<1>4. RuntimeTypeOK' /\ CountIsExact' /\ UsedSlots' = UsedSlots
  BY <1>1 DEF runtimeVars, RuntimeTypeOK, TableTypeOK, CountIsExact, UsedSlots
<1>5. TypeOK'
  BY <1>1, <1>2, <1>4
<1>6. Recoverable \subseteq Recoverable'
  BY <1>1, <1>2, <1>3, RecoverableMono DEF runtimeVars
<1>7. BindsUsable'
  BY <1>1, <1>2, <1>3, <1>4, <1>6, BindsStep DEF runtimeVars
<1>8. DispatchSound'
  BY <1>1, <1>4, DispatchKept DEF runtimeVars
<1>9. VersionIsDepth' /\ NothingOpen' /\ RestoredSoFar'
  BY <1>1, <1>2 DEF VersionIsDepth, NothingOpen, RestoredSoFar
<1> QED BY <1>4, <1>5, <1>6, <1>7, <1>8, <1>9 DEF StepOK

\* What the three entry actions share: the entry's types and the frame.
LEMMA EntryStep ==
    ASSUME IInv, NEW action, AtEntry(action), NextEntry
    PROVE  /\ Head(todo) \in PatchEntry
           /\ Head(todo).func_id \in FuncIds
           /\ Head(todo).body \in Bodies
           /\ pc = "apply" /\ pc' = pc
           /\ todo' \in Seq(PatchEntry)
           /\ history' = history
           /\ current_version' = current_version
           /\ cursor' = cursor
<1>1. todo \in Seq(PatchEntry) /\ todo # <<>>
  BY DEF IInv, TypeOK, AtEntry
<1>2. Head(todo) \in PatchEntry /\ Tail(todo) \in Seq(PatchEntry)
  BY <1>1
<1> QED BY <1>2 DEF AtEntry, NextEntry, PatchEntry

\* The parts of IInv an entry action does not disturb.
LEMMA EntryKeeps ==
    ASSUME IInv, pc = "apply", pc' = pc, history' = history,
           current_version' = current_version, cursor' = cursor,
           record'.version = record.version
    PROVE  VersionIsDepth' /\ NothingOpen' /\ RestoredSoFar'
BY DEF IInv, VersionIsDepth, NothingOpen, RestoredSoFar

LEMMA StepApplyModified ==
    ASSUME IInv, ApplyModified
    PROVE  StepOK
<1> DEFINE f == Head(todo).func_id
           body == Head(todo).body
           wid == GetWrapperForFunc(f)
           saved == SaveBytecode(record, f)
<1> USE DEF IInv, TypeOK, RuntimeTypeOK
<1>1. /\ f \in FuncIds /\ body \in Bodies
      /\ pc = "apply" /\ pc' = pc
      /\ todo' \in Seq(PatchEntry)
      /\ history' = history
      /\ current_version' = current_version
      /\ cursor' = cursor
  BY EntryStep DEF ApplyModified
<1>2. /\ record' = SaveBind(saved, wid)
      /\ functions' = Put(functions, f, body)
      /\ Rebind(wid, VmBind(f, body))
      /\ dispatch_table' = dispatch_table
  BY DEF ApplyModified, RegisterFunction
<1>3. functions' \in MapsOf(FuncIds, Bodies) /\ DOMAIN functions' = DOMAIN functions \cup {f}
  BY <1>1, <1>2, FunctionsPut
<1>4. /\ saved \in PatchRecord
      /\ SavedIn(saved) = SavedIn(record) \cup ({f} \cap DOMAIN functions)
      /\ saved.old_binds = record.old_binds
      /\ saved.version = record.version
  BY <1>1, SaveBytecodeStep
<1>5. /\ record' \in PatchRecord
      /\ SavedIn(record') = SavedIn(record) \cup ({f} \cap DOMAIN functions)
      /\ record'.version = record.version
      /\ \A i \in 1 .. Len(record'.old_binds) :
            \/ i \in 1 .. Len(record.old_binds) /\ record'.old_binds[i] = record.old_binds[i]
            \/ wid \in WrapperIds /\ record'.old_binds[i] = bind_info[wid]
  BY <1>2, <1>4, SaveBindStep
<1>6. /\ TableTypeOK' /\ CountIsExact' /\ UsedSlots' = UsedSlots
      /\ \A w \in WrapperIds : w # wid => bind_info'[w] = bind_info[w]
      /\ wid \in UsedSlots => bind_info'[wid] = VmBind(f, body)
  BY <1>1, <1>2, BindTypes, RebindStep
<1>7. TypeOK'
  BY <1>1, <1>2, <1>3, <1>5, <1>6
<1>8. Recoverable \subseteq Recoverable'
  BY <1>1, <1>3, <1>5, RecoverableMono
<1>9. BindsUsable'
  <2>1. \A w \in UsedSlots' : UsableBind(bind_info[w])'
    <3> SUFFICES ASSUME NEW w \in UsedSlots PROVE UsableBind(bind_info[w])'
      BY <1>6
    <3>1. CASE w = wid
      <4>1. f \in Recoverable'
        BY <1>3 DEF Recoverable
      <4>2. bind_info'[w].mode = kVM /\ bind_info'[w].func_id = f
        BY <1>6, <3>1 DEF VmBind
      <4> QED BY <4>1, <4>2 DEF UsableBind, kVM, kNative
    <3>2. CASE w # wid
      BY <1>6, <1>8, <3>2 DEF BindsUsable, UsableBind, UsedSlots
    <3> QED BY <3>1, <3>2
  <2>2. \A i \in 1 .. Len(record'.old_binds) : UsableBind(record.old_binds[i])'
    <3> SUFFICES ASSUME NEW i \in 1 .. Len(record'.old_binds)
                 PROVE  UsableBind(record.old_binds[i])'
      OBVIOUS
    <3>1. CASE i \in 1 .. Len(record.old_binds) /\ record'.old_binds[i] = record.old_binds[i]
      BY <1>8, <3>1 DEF BindsUsable, UsableBind
    <3>2. CASE wid \in WrapperIds /\ record'.old_binds[i] = bind_info[wid]
      <4>1. wid \in UsedSlots
        BY <3>2, WrapperTableAssumption
           DEF GetWrapperForFunc, DispatchSound, WrapperIds
      <4> QED BY <1>8, <3>2, <4>1 DEF BindsUsable, UsableBind
    <3> QED BY <1>5, <3>1, <3>2
  <2>3. \A n \in 1 .. Len(history') : \A i \in 1 .. Len(history'[n].old_binds) :
           UsableBind(history[n].old_binds[i])'
    BY <1>1, <1>8 DEF BindsUsable, UsableBind
  <2> QED BY <2>1, <2>2, <2>3 DEF BindsUsable
<1>10. DispatchSound'
  BY <1>2, <1>6, DispatchKept
<1>11. VersionIsDepth' /\ NothingOpen' /\ RestoredSoFar'
  BY <1>1, <1>5, EntryKeeps
<1> QED BY <1>6, <1>7, <1>8, <1>9, <1>10, <1>11 DEF StepOK

LEMMA StepApplyAdded ==
    ASSUME IInv, ApplyAdded
    PROVE  StepOK
<1> DEFINE f == Head(todo).func_id
           body == Head(todo).body
           bind == VmBind(f, body)
<1> USE DEF IInv, TypeOK, RuntimeTypeOK
<1>1. /\ f \in FuncIds /\ body \in Bodies
      /\ pc = "apply" /\ pc' = pc
      /\ todo' \in Seq(PatchEntry)
      /\ history' = history
      /\ current_version' = current_version
      /\ cursor' = cursor
  BY EntryStep DEF ApplyAdded
<1>2. /\ record' = [record EXCEPT !.modified_funcs = Append(@, f)]
      /\ functions' = Put(functions, f, body)
      /\ Alloc(bind)
      /\ dispatch_table' = Put(dispatch_table, f, AllocResult)
  BY DEF ApplyAdded, RegisterFunction, SetDispatchEntry
<1>3. functions' \in MapsOf(FuncIds, Bodies) /\ DOMAIN functions' = DOMAIN functions \cup {f}
  BY <1>1, <1>2, FunctionsPut
<1>4. /\ record' \in PatchRecord
      /\ SavedIn(record') = SavedIn(record)
      /\ record'.version = record.version
      /\ record'.old_binds = record.old_binds
  <2>1. Append(record.modified_funcs, f) \in Seq(FuncIds)
    BY <1>1 DEF PatchRecord
  <2> QED BY <1>2, <2>1 DEF PatchRecord, SavedIn
<1>5. bind \in BindInfo /\ bind.mode = kVM /\ bind.func_id = f
  BY <1>1, BindTypes DEF VmBind
<1>6. /\ TableTypeOK' /\ CountIsExact'
      /\ UsedSlots' = UsedSlots \cup ({AllocResult} \cap WrapperIds)
      /\ \A w \in UsedSlots : bind_info'[w] = bind_info[w]
      /\ AllocResult \in WrapperIds => bind_info'[AllocResult] = bind
  BY <1>2, <1>5, AllocStep
<1>7. /\ DispatchSound'
      /\ dispatch_table' \in MapsOf(FuncIds, WrapperIds \cup {kInvalidWrapperId})
  BY <1>1, <1>2, <1>5, DispatchPut
<1>8. TypeOK'
  BY <1>1, <1>3, <1>4, <1>6, <1>7
<1>9. Recoverable \subseteq Recoverable'
  BY <1>1, <1>3, <1>4, RecoverableMono
<1>10. f \in Recoverable'
  BY <1>3 DEF Recoverable
<1>11. BindsUsable'
  BY <1>1, <1>4, <1>5, <1>6, <1>9, <1>10, BindsStep DEF kVM, kNative
<1>12. VersionIsDepth' /\ NothingOpen' /\ RestoredSoFar'
  BY <1>1, <1>4, EntryKeeps
<1> QED BY <1>6, <1>7, <1>8, <1>9, <1>11, <1>12 DEF StepOK

LEMMA StepApplyRemoved ==
    ASSUME IInv, ApplyRemoved
    PROVE  StepOK
<1> DEFINE f == Head(todo).func_id
<1> USE DEF IInv, TypeOK, RuntimeTypeOK
<1>1. /\ f \in FuncIds
      /\ pc = "apply" /\ pc' = pc
      /\ todo' \in Seq(PatchEntry)
      /\ history' = history
      /\ current_version' = current_version
      /\ cursor' = cursor
  BY EntryStep DEF ApplyRemoved
<1>2. /\ record' = SaveBytecode(record, f)
      /\ functions' = Erase(functions, f)
      /\ UNCHANGED <<tableVars, dispatch_table>>
  BY DEF ApplyRemoved, UnregisterFunction
<1>3. functions' \in MapsOf(FuncIds, Bodies) /\ DOMAIN functions' = DOMAIN functions \ {f}
  BY <1>1, <1>2, FunctionsErase
<1>4. /\ record' \in PatchRecord
      /\ SavedIn(record') = SavedIn(record) \cup ({f} \cap DOMAIN functions)
      /\ record'.old_binds = record.old_binds
      /\ record'.version = record.version
  BY <1>1, <1>2, SaveBytecodeStep
<1>5. UsedSlots' = UsedSlots
  BY <1>2 DEF UsedSlots, tableVars
<1>6. TypeOK' /\ CountIsExact'
  BY <1>1, <1>2, <1>3, <1>4, <1>5 DEF tableVars, TableTypeOK, CountIsExact
<1>7. Recoverable \subseteq Recoverable'
  BY <1>1, <1>3, <1>4, RecoverableMono
<1>8. BindsUsable'
  BY <1>1, <1>2, <1>4, <1>5, <1>7, BindsStep DEF tableVars
<1>9. DispatchSound'
  BY <1>2, <1>5, DispatchKept
<1>10. VersionIsDepth' /\ NothingOpen' /\ RestoredSoFar'
  BY <1>1, <1>4, EntryKeeps
<1> QED BY <1>6, <1>7, <1>8, <1>9, <1>10 DEF StepOK

LEMMA StepApplyEnd ==
    ASSUME IInv, ApplyEnd
    PROVE  StepOK
<1> USE DEF IInv, TypeOK
<1>1. /\ pc = "apply" /\ pc' = "idle"
      /\ history' = Append(history, record)
      /\ record' = NoRecord
      /\ UNCHANGED <<runtimeVars, current_version, todo, cursor>>
  BY DEF ApplyEnd
<1>2. /\ history' \in Seq(PatchRecord)
      /\ Len(history') = Len(history) + 1
      /\ history'[Len(history')] = record
      /\ \A n \in 1 .. Len(history) : history'[n] = history[n]
  BY <1>1
<1>3. record' \in PatchRecord /\ SavedIn(record') = {} /\ record'.old_binds = <<>>
  BY <1>1, NewRecordType DEF NoRecord
<1>4. /\ RuntimeTypeOK' /\ CountIsExact' /\ UsedSlots' = UsedSlots
      /\ functions' = functions /\ bind_info' = bind_info /\ dispatch_table' = dispatch_table
  BY <1>1 DEF runtimeVars, RuntimeTypeOK, TableTypeOK, CountIsExact, UsedSlots
<1>5. TypeOK'
  BY <1>1, <1>2, <1>3, <1>4
<1>6. Recoverable \subseteq Recoverable'
  <2>1. SavedIn(record) = SavedIn(history'[Len(history')])
    BY <1>2
  <2>2. \A n \in 1 .. Len(history) : SavedIn(history[n]) = SavedIn(history'[n])
    BY <1>2
  <2>3. Recoverable' = DOMAIN functions' \cup SavedIn(record')
                          \cup UNION {SavedIn(history'[n]) : n \in 1 .. Len(history')}
    BY DEF Recoverable, SavedIn
  <2>4. /\ Len(history') \in 1 .. Len(history')
        /\ \A n \in 1 .. Len(history) : n \in 1 .. Len(history')
    BY <1>2
  <2> HIDE DEF IInv, TypeOK
  <2> QED BY <1>4, <2>1, <2>2, <2>3, <2>4 DEF Recoverable
<1>7. BindsUsable'
  <2>1. \A w \in UsedSlots' : UsableBind(bind_info[w])'
    BY <1>4, <1>6 DEF BindsUsable, UsableBind
  <2>2. \A i \in 1 .. Len(record'.old_binds) : UsableBind(record.old_binds[i])'
    BY <1>3
  <2>3. ASSUME NEW n \in 1 .. Len(history'), NEW i \in 1 .. Len(history'[n].old_binds)
        PROVE  UsableBind(history[n].old_binds[i])'
    <3>1. CASE n = Len(history')
      BY <1>2, <1>6, <2>3, <3>1 DEF BindsUsable, UsableBind
    <3>2. CASE n \in 1 .. Len(history)
      BY <1>2, <1>6, <2>3, <3>2 DEF BindsUsable, UsableBind
    <3> QED BY <1>2, <3>1, <3>2
  <2> QED BY <2>1, <2>2, <2>3 DEF BindsUsable
<1>8. DispatchSound'
  BY <1>4, DispatchKept
<1>9. VersionIsDepth' /\ NothingOpen' /\ RestoredSoFar'
  BY <1>1, <1>2 DEF VersionIsDepth, NothingOpen, RestoredSoFar
<1> QED BY <1>4, <1>5, <1>6, <1>7, <1>8, <1>9 DEF StepOK

LEMMA StepRollbackBegin ==
    ASSUME IInv, RollbackBegin
    PROVE  StepOK
<1> USE DEF IInv, TypeOK
<1>1. /\ pc = "idle" /\ pc' = "restore_code" /\ history # <<>>
      /\ UNCHANGED <<runtimeVars, history, current_version, todo, record, cursor>>
  BY DEF RollbackBegin
<1>2. /\ RuntimeTypeOK' /\ CountIsExact' /\ UsedSlots' = UsedSlots
      /\ functions' = functions /\ bind_info' = bind_info /\ dispatch_table' = dispatch_table
  BY <1>1 DEF runtimeVars, RuntimeTypeOK, TableTypeOK, CountIsExact, UsedSlots
<1>3. Recoverable \subseteq Recoverable'
  BY <1>1, <1>2, RecoverableMono
<1>4. BindsUsable'
  BY <1>1, <1>2, <1>3, BindsStep
<1>5. DispatchSound'
  BY <1>2, DispatchKept
<1>6. VersionIsDepth' /\ NothingOpen'
  BY <1>1 DEF VersionIsDepth, NothingOpen
<1>7. RestoredSoFar'
  BY <1>1 DEF RestoredSoFar, NothingOpen
<1> QED BY <1>1, <1>2, <1>3, <1>4, <1>5, <1>6, <1>7 DEF StepOK

\* Rollback works on the last record of the history.
LEMMA TopType ==
    ASSUME IInv, pc \in {"restore_code", "restore_binds"}
    PROVE  /\ Len(history) \in Nat \ {0}
           /\ Top \in PatchRecord
           /\ \A i \in 1 .. Len(Top.old_bytecodes) :
                 /\ Top.old_bytecodes[i].func_id \in FuncIds
                 /\ Top.old_bytecodes[i].body \in Bodies
           /\ \A i \in 1 .. Len(Top.old_binds) : Top.old_binds[i] \in BindInfo
<1>1. history \in Seq(PatchRecord) /\ history # <<>>
  BY DEF IInv, TypeOK, NothingOpen
<1>2. Len(history) \in Nat \ {0} /\ Top \in PatchRecord
  BY <1>1 DEF Top
<1>3. Top.old_bytecodes \in Seq(VmFunction) /\ Top.old_binds \in Seq(BindInfo)
  BY <1>2 DEF PatchRecord
<1>4. \A i \in 1 .. Len(Top.old_bytecodes) : Top.old_bytecodes[i] \in VmFunction
  BY <1>3
<1>5. \A i \in 1 .. Len(Top.old_binds) : Top.old_binds[i] \in BindInfo
  BY <1>3
<1> QED BY <1>2, <1>4, <1>5 DEF VmFunction

LEMMA StepRestoreBytecode ==
    ASSUME IInv, RestoreBytecode
    PROVE  StepOK
<1> USE DEF IInv, TypeOK
<1>1. /\ pc = "restore_code"
      /\ UNCHANGED <<tableVars, dispatch_table, history, current_version, todo, record>>
  BY DEF RestoreBytecode
<1>2. /\ TableTypeOK' /\ CountIsExact' /\ UsedSlots' = UsedSlots
      /\ bind_info' = bind_info /\ dispatch_table' = dispatch_table
      /\ Top' = Top
  BY <1>1 DEF tableVars, RuntimeTypeOK, TableTypeOK, CountIsExact, UsedSlots, Top
<1>3. DispatchSound'
  BY <1>2, DispatchKept
<1>4. CASE cursor <= Len(Top.old_bytecodes)
  <2> DEFINE old == Top.old_bytecodes[cursor]
  <2>1. /\ functions' = Put(functions, old.func_id, old.body)
        /\ cursor' = cursor + 1 /\ pc' = pc
    BY <1>4 DEF RestoreBytecode, RegisterFunction
  <2>2. cursor \in 1 .. Len(Top.old_bytecodes)
    BY <1>1, <1>4, TopType DEF PatchRecord
  <2>3. old.func_id \in FuncIds /\ old.body \in Bodies
    BY <1>1, <2>2, TopType
  <2>4. functions \in MapsOf(FuncIds, Bodies)
    BY DEF RuntimeTypeOK
  <2>5. /\ functions' \in MapsOf(FuncIds, Bodies)
        /\ DOMAIN functions' = DOMAIN functions \cup {old.func_id}
    BY <2>1, <2>3, <2>4, FunctionsPut
  <2>6. TypeOK'
    BY <1>1, <1>2, <2>1, <2>5 DEF RuntimeTypeOK
  <2>7. Recoverable \subseteq Recoverable'
    BY <1>1, <2>5, RecoverableMono
  <2>8. BindsUsable'
    BY <1>1, <1>2, <2>7, BindsStep
  <2>9. VersionIsDepth' /\ NothingOpen'
    BY <1>1, <2>1 DEF VersionIsDepth, NothingOpen
  <2>10. RestoredSoFar'
    <3>1. ASSUME NEW i \in 1 .. Len(Top.old_bytecodes), i < cursor + 1
          PROVE  Top.old_bytecodes[i].func_id \in DOMAIN functions'
      <4>1. CASE i < cursor
        BY <1>1, <2>5, <3>1, <4>1 DEF RestoredSoFar
      <4>2. CASE i = cursor
        BY <2>5, <4>2
      <4> QED BY <2>2, <3>1, <4>1, <4>2
    <3> QED BY <1>1, <1>2, <2>1, <3>1 DEF RestoredSoFar
  <2> QED BY <1>2, <1>3, <2>6, <2>7, <2>8, <2>9, <2>10 DEF StepOK
<1>5. CASE ~ (cursor <= Len(Top.old_bytecodes))
  <2>1. pc' = "restore_binds" /\ cursor' = 1 /\ functions' = functions
    BY <1>5 DEF RestoreBytecode
  <2>2. TypeOK'
    BY <1>1, <1>2, <2>1 DEF RuntimeTypeOK
  <2>3. Recoverable \subseteq Recoverable'
    BY <1>1, <2>1, RecoverableMono
  <2>4. BindsUsable'
    BY <1>1, <1>2, <2>3, BindsStep
  <2>5. VersionIsDepth' /\ NothingOpen'
    BY <1>1, <2>1 DEF VersionIsDepth, NothingOpen
  <2>6. \A i \in 1 .. Len(Top.old_bytecodes) : i < cursor
    BY <1>1, <1>5, TopType DEF PatchRecord
  <2>7. RestoredSoFar'
    BY <1>1, <1>2, <2>1, <2>6 DEF RestoredSoFar
  <2> QED BY <1>2, <1>3, <2>2, <2>3, <2>4, <2>5, <2>7 DEF StepOK
<1> QED BY <1>4, <1>5

LEMMA StepRestoreBind ==
    ASSUME IInv, RestoreBind
    PROVE  StepOK
<1> DEFINE wid == GetWrapperForFunc(Top.modified_funcs[cursor])
           bind == Top.old_binds[cursor]
<1> USE DEF IInv, TypeOK
<1>1. /\ pc = "restore_binds" /\ MoreBinds
      /\ Rebind(wid, bind)
      /\ cursor' = cursor + 1
      /\ UNCHANGED <<dispatch_table, functions, history, current_version, pc, todo, record>>
  BY DEF RestoreBind
<1>2. cursor \in 1 .. Len(Top.old_binds)
  BY <1>1 DEF MoreBinds
<1>3. bind \in BindInfo
  BY <1>1, <1>2, TopType
<1>4. TableTypeOK
  BY DEF RuntimeTypeOK
<1>5. /\ TableTypeOK' /\ CountIsExact' /\ UsedSlots' = UsedSlots
      /\ \A w \in WrapperIds : w # wid => bind_info'[w] = bind_info[w]
      /\ wid \in UsedSlots => bind_info'[wid] = bind
  BY <1>1, <1>3, <1>4, RebindStep
<1>6. TypeOK'
  BY <1>1, <1>5 DEF RuntimeTypeOK
<1>7. Recoverable \subseteq Recoverable'
  BY <1>1, RecoverableMono
<1>8. UsableBind(bind)
  BY <1>1, <1>2, TopType DEF BindsUsable, Top
<1>9. \A w \in UsedSlots' :
         \/ w \in UsedSlots /\ bind_info'[w] = bind_info[w]
         \/ /\ bind_info'[w].mode = kVM => bind_info'[w].func_id \in Recoverable'
            /\ bind_info'[w].mode = kNative => bind_info'[w].native_fn # nullptr
  <2> SUFFICES ASSUME NEW w \in UsedSlots
               PROVE  \/ bind_info'[w] = bind_info[w]
                      \/ /\ bind_info'[w].mode = kVM => bind_info'[w].func_id \in Recoverable'
                         /\ bind_info'[w].mode = kNative => bind_info'[w].native_fn # nullptr
    BY <1>5
  <2>1. CASE w = wid
    BY <1>5, <1>7, <1>8, <2>1 DEF UsableBind
  <2>2. CASE w # wid
    BY <1>5, <2>2 DEF UsedSlots
  <2> QED BY <2>1, <2>2
<1>10. BindsUsable'
  BY <1>1, <1>7, <1>9, BindsStep
<1>11. DispatchSound'
  BY <1>1, <1>5, DispatchKept
<1>12. VersionIsDepth' /\ NothingOpen' /\ RestoredSoFar'
  BY <1>1 DEF VersionIsDepth, NothingOpen, RestoredSoFar, Top
<1> QED BY <1>5, <1>6, <1>7, <1>10, <1>11, <1>12 DEF StepOK

LEMMA StepRollbackEnd ==
    ASSUME IInv, RollbackEnd
    PROVE  StepOK
<1> USE DEF IInv, TypeOK
<1>1. /\ pc = "restore_binds" /\ pc' = "idle" /\ cursor' = 1
      /\ history' = SubSeq(history, 1, Len(history) - 1)
      /\ current_version' = current_version - 1
      /\ UNCHANGED <<runtimeVars, todo, record>>
  BY DEF RollbackEnd
<1>2. /\ Len(history) \in Nat \ {0}
      /\ history' \in Seq(PatchRecord)
      /\ Len(history') = Len(history) - 1
      /\ \A n \in 1 .. Len(history') : history'[n] = history[n]
  <2>1. Len(history) \in Nat \ {0}
    BY <1>1, TopType
  <2>2. /\ history \in Seq(PatchRecord)
        /\ history' = SubSeq(history, 1, Len(history) - 1)
    BY <1>1
  <2> HIDE DEF IInv, TypeOK
  <2> QED BY <2>1, <2>2, PopBack
<1>3. /\ RuntimeTypeOK' /\ CountIsExact' /\ UsedSlots' = UsedSlots
      /\ functions' = functions /\ bind_info' = bind_info /\ dispatch_table' = dispatch_table
  BY <1>1 DEF runtimeVars, RuntimeTypeOK, TableTypeOK, CountIsExact, UsedSlots
<1>4. current_version' = Len(history')
  BY <1>1, <1>2 DEF VersionIsDepth
<1>5. TypeOK'
  BY <1>1, <1>2, <1>3, <1>4
<1>6. SavedIn(Top) \subseteq DOMAIN functions
  BY <1>1 DEF RestoredSoFar, SavedIn
<1>7. Recoverable \subseteq Recoverable'
  <2>1. \A n \in 1 .. Len(history) : n = Len(history) \/ n \in 1 .. Len(history')
    BY <1>2
  <2>2. \A n \in 1 .. Len(history') : SavedIn(history[n]) = SavedIn(history'[n])
    BY <1>2
  <2>3. SavedIn(history[Len(history)]) \subseteq DOMAIN functions
    BY <1>6 DEF Top
  <2>4. Recoverable' = DOMAIN functions' \cup SavedIn(record')
                          \cup UNION {SavedIn(history'[n]) : n \in 1 .. Len(history')}
    BY DEF Recoverable, SavedIn
  <2>5. record' = record
    BY <1>1
  <2> HIDE DEF IInv, TypeOK
  <2> QED BY <1>3, <2>1, <2>2, <2>3, <2>4, <2>5 DEF Recoverable
<1>8. BindsUsable'
  <2>1. \A w \in UsedSlots' : UsableBind(bind_info[w])'
    BY <1>3, <1>7 DEF BindsUsable, UsableBind
  <2>2. \A i \in 1 .. Len(record'.old_binds) : UsableBind(record.old_binds[i])'
    BY <1>1, <1>7 DEF BindsUsable, UsableBind
  <2>3. \A n \in 1 .. Len(history') : \A i \in 1 .. Len(history'[n].old_binds) :
           UsableBind(history[n].old_binds[i])'
    <3> SUFFICES ASSUME NEW n \in 1 .. Len(history'),
                        NEW i \in 1 .. Len(history'[n].old_binds)
                 PROVE  UsableBind(history[n].old_binds[i])'
      OBVIOUS
    <3>1. n \in 1 .. Len(history) /\ history'[n] = history[n]
      BY <1>2
    <3>2. UsableBind(history[n].old_binds[i])
      BY <3>1 DEF BindsUsable
    <3> HIDE DEF IInv, TypeOK
    <3> QED BY <3>1, <3>2, <1>7 DEF UsableBind
  <2> QED BY <2>1, <2>2, <2>3 DEF BindsUsable
<1>9. DispatchSound'
  BY <1>3, DispatchKept
<1>10. VersionIsDepth' /\ NothingOpen' /\ RestoredSoFar'
  BY <1>1, <1>2, <1>4 DEF VersionIsDepth, NothingOpen, RestoredSoFar
<1> QED BY <1>3, <1>5, <1>7, <1>8, <1>9, <1>10 DEF StepOK

-----------------------------------------------------------------------------
(* The theorems. *)

\* Every step preserves the invariant and loses no bytecode.
LEMMA NextStep ==
    ASSUME IInv, [Next]_vars
    PROVE  StepOK
<1>1. CASE UNCHANGED vars
  <2>1. UsedSlots' = UsedSlots /\ Top' = Top /\ Recoverable' = Recoverable
    BY <1>1 DEF vars, UsedSlots, Top, Recoverable, SavedIn
  <2>2. TypeOK' /\ CountIsExact'
    BY <1>1, <2>1 DEF vars, IInv, TypeOK, RuntimeTypeOK, TableTypeOK, CountIsExact
  <2>3. VersionIsDepth' /\ DispatchSound' /\ NothingOpen' /\ RestoredSoFar'
    BY <1>1, <2>1 DEF vars, IInv, VersionIsDepth, DispatchSound, NothingOpen, RestoredSoFar
  <2>4. BindsUsable'
    BY <1>1, <2>1 DEF vars, IInv, BindsUsable, UsableBind
  <2> QED BY <2>1, <2>2, <2>3, <2>4 DEF StepOK, IInv
<1>2. CASE Next
  BY <1>2, StepProgramRegistersNative, StepProgramRegistersVm,
     StepApplyBegin, StepApplyModified, StepApplyAdded, StepApplyRemoved, StepApplyEnd,
     StepRollbackBegin, StepRestoreBytecode, StepRestoreBind, StepRollbackEnd
     DEF Next
<1> QED BY <1>1, <1>2

-----------------------------------------------------------------------------
(* Whose a wrapper is. *)

\* The function of a wrapper that is found through the dispatch table.
LEMMA FoundSlot ==
    ASSUME IInv, NEW f, GetWrapperForFunc(f) \in WrapperIds
    PROVE  f \in DOMAIN dispatch_table /\ GetWrapperForFunc(f) = dispatch_table[f]
           /\ dispatch_table[f] \in UsedSlots
BY WrapperTableAssumption DEF IInv, DispatchSound, GetWrapperForFunc, WrapperIds

\* A step keeps, for every slot in use, whose binding it holds, and leads a
\* function to no slot of another.
OwnersStep ==
    /\ BoundToItsFunction'
    /\ \A w \in UsedSlots : w \in UsedSlots' /\ bind_info'[w].func_id = bind_info[w].func_id
    /\ \A f \in FuncIds : GetWrapperForFunc(f)' \in UsedSlots
                           => GetWrapperForFunc(f)' = GetWrapperForFunc(f)

LEMMA OwnersKept ==
    ASSUME IInv, BoundToItsFunction, dispatch_table' = dispatch_table, UsedSlots' = UsedSlots,
           \A w \in UsedSlots : bind_info'[w].func_id = bind_info[w].func_id
    PROVE  OwnersStep
<1>1. \A f : GetWrapperForFunc(f)' = GetWrapperForFunc(f)
  BY DEF GetWrapperForFunc
<1>2. ASSUME NEW f \in FuncIds, GetWrapperForFunc(f)' \in WrapperIds
      PROVE  bind_info'[GetWrapperForFunc(f)'].func_id = f
  <2>1. GetWrapperForFunc(f) \in UsedSlots
    BY <1>1, <1>2, FoundSlot
  <2>2. bind_info[GetWrapperForFunc(f)].func_id = f
    BY <1>1, <1>2 DEF BoundToItsFunction, HasWrapper
  <2> QED BY <1>1, <2>1, <2>2
<1>3. BoundToItsFunction'
  BY <1>2 DEF BoundToItsFunction, HasWrapper
<1> QED BY <1>1, <1>3 DEF OwnersStep

\* A slot is taken for f's binding, and f led to it or not.
LEMMA OwnersAlloc ==
    ASSUME IInv, BoundToItsFunction, NEW f \in FuncIds, NEW bind \in BindInfo,
           bind.func_id = f, Alloc(bind),
           \/ dispatch_table' = dispatch_table
           \/ dispatch_table' = Put(dispatch_table, f, AllocResult)
    PROVE  OwnersStep
<1>1. TableTypeOK
  BY DEF IInv, TypeOK, RuntimeTypeOK
<1>2. /\ UsedSlots' = UsedSlots \cup ({AllocResult} \cap WrapperIds)
      /\ \A w \in UsedSlots : bind_info'[w] = bind_info[w]
      /\ AllocResult \in WrapperIds => bind_info'[AllocResult] = bind
      /\ AllocResult \notin UsedSlots
  BY <1>1, AllocStep, AllocResultFree, WrapperTableAssumption DEF UsedSlots, WrapperIds
<1>3. ASSUME NEW g \in FuncIds
      PROVE  \/ GetWrapperForFunc(g)' = GetWrapperForFunc(g)
             \/ g = f /\ GetWrapperForFunc(g)' = AllocResult
  BY DEF GetWrapperForFunc, Put
<1>4. ASSUME NEW g \in FuncIds, GetWrapperForFunc(g)' \in WrapperIds
      PROVE  bind_info'[GetWrapperForFunc(g)'].func_id = g
  <2>1. CASE GetWrapperForFunc(g)' = GetWrapperForFunc(g)
    <3>1. GetWrapperForFunc(g) \in UsedSlots
      BY <1>4, <2>1, FoundSlot
    <3>2. bind_info[GetWrapperForFunc(g)].func_id = g
      BY <1>4, <2>1 DEF BoundToItsFunction, HasWrapper
    <3> QED BY <1>2, <2>1, <3>1, <3>2
  <2>2. CASE g = f /\ GetWrapperForFunc(g)' = AllocResult
    BY <1>2, <1>4, <2>2
  <2> QED BY <1>3, <2>1, <2>2
<1>5. BoundToItsFunction'
  BY <1>4 DEF BoundToItsFunction, HasWrapper
<1> QED BY <1>2, <1>3, <1>5 DEF OwnersStep

\* Rebinding f's wrapper to a binding of f.
LEMMA OwnersRebind ==
    ASSUME IInv, BoundToItsFunction, NEW f \in FuncIds, NEW bind \in BindInfo,
           bind.func_id = f, Rebind(GetWrapperForFunc(f), bind), dispatch_table' = dispatch_table
    PROVE  OwnersStep
<1> DEFINE wid == GetWrapperForFunc(f)
<1>1. TableTypeOK
  BY DEF IInv, TypeOK, RuntimeTypeOK
<1>2. /\ UsedSlots' = UsedSlots
      /\ \A w \in WrapperIds : w # wid => bind_info'[w] = bind_info[w]
      /\ wid \in UsedSlots => bind_info'[wid] = bind
  BY <1>1, RebindStep
<1>3. wid \in UsedSlots => bind_info[wid].func_id = f
  BY DEF BoundToItsFunction, HasWrapper, UsedSlots
<1> HIDE DEF wid
<1>4. \A w \in UsedSlots : bind_info'[w].func_id = bind_info[w].func_id
  BY <1>2, <1>3 DEF UsedSlots
<1> QED BY <1>2, <1>4, OwnersKept

\* The pair of the top record that Rollback is at.
LEMMA TopPair ==
    ASSUME IInv, RecordsInStep, pc = "restore_binds", MoreBinds
    PROVE  /\ Top.modified_funcs[cursor] \in FuncIds
           /\ Top.old_binds[cursor] \in BindInfo
           /\ Top.old_binds[cursor].func_id = Top.modified_funcs[cursor]
<1>1. Top \in PatchRecord /\ Len(history) \in Nat \ {0} /\ history \in Seq(PatchRecord)
      /\ cursor \in Nat \ {0}
  BY TopType DEF IInv, TypeOK
<1>2. Top.modified_funcs \in Seq(FuncIds) /\ Top.old_binds \in Seq(BindInfo)
  BY <1>1 DEF PatchRecord
<1>3. cursor \in DOMAIN Top.modified_funcs /\ cursor \in DOMAIN Top.old_binds
  BY <1>1, <1>2 DEF MoreBinds
<1>4. Len(history) \in DOMAIN history
  BY <1>1
<1>5. InStep(Top)
  BY <1>4 DEF RecordsInStep, Top
<1> QED BY <1>2, <1>3, <1>5 DEF InStep

\* While every record is in step, no step gives a wrapper to another function.
LEMMA OwnersNext ==
    ASSUME IInv, BoundToItsFunction, RecordsInStep, Next
    PROVE  OwnersStep
<1>1. ASSUME UNCHANGED <<tableVars, dispatch_table>> PROVE OwnersStep
  <2>1. bind_info' = bind_info /\ UsedSlots' = UsedSlots /\ dispatch_table' = dispatch_table
    BY <1>1 DEF tableVars, UsedSlots
  <2> QED BY <2>1, OwnersKept
<1>2. CASE ProgramRegistersNative
  <2>1. PICK f \in FuncIds, fn \in NativeFns, sig \in Sigs : RegisterNativeFunction(f, fn, sig)
    BY <1>2 DEF ProgramRegistersNative
  <2>2. NativeBind(f, fn, sig) \in BindInfo /\ NativeBind(f, fn, sig).func_id = f
    BY DEF NativeBind, BindInfo, DispatchMode
  <2>3. \/ dispatch_table' = dispatch_table
        \/ dispatch_table' = Put(dispatch_table, f, AllocResult)
    BY <2>1 DEF RegisterNativeFunction
  <2>4. Alloc(NativeBind(f, fn, sig))
    BY <2>1 DEF RegisterNativeFunction
  <2> QED BY <2>2, <2>3, <2>4, OwnersAlloc
<1>3. CASE ApplyModified
  <2> DEFINE f == Head(todo).func_id
             bind == VmBind(f, Head(todo).body)
  <2>1. f \in FuncIds /\ Head(todo).body \in Bodies
    BY <1>3, EntryStep DEF ApplyModified
  <2>2. bind \in BindInfo /\ bind.func_id = f
    BY <2>1, BindTypes DEF VmBind
  <2>3. Rebind(GetWrapperForFunc(f), bind) /\ dispatch_table' = dispatch_table
    BY <1>3 DEF ApplyModified
  <2> HIDE DEF f, bind
  <2> QED BY <2>1, <2>2, <2>3, OwnersRebind
<1>4. CASE ApplyAdded
  <2> DEFINE f == Head(todo).func_id
             bind == VmBind(f, Head(todo).body)
  <2>1. f \in FuncIds /\ Head(todo).body \in Bodies
    BY <1>4, EntryStep DEF ApplyAdded
  <2>2. bind \in BindInfo /\ bind.func_id = f
    BY <2>1, BindTypes DEF VmBind
  <2>3. Alloc(bind) /\ dispatch_table' = Put(dispatch_table, f, AllocResult)
    BY <1>4 DEF ApplyAdded, SetDispatchEntry
  <2> HIDE DEF f, bind
  <2> QED BY <2>1, <2>2, <2>3, OwnersAlloc
<1>5. CASE RestoreBind
  <2> DEFINE f == Top.modified_funcs[cursor]
             bind == Top.old_binds[cursor]
  <2>1. f \in FuncIds /\ bind \in BindInfo /\ bind.func_id = f
    BY <1>5, TopPair DEF RestoreBind
  <2>2. Rebind(GetWrapperForFunc(f), bind) /\ dispatch_table' = dispatch_table
    BY <1>5 DEF RestoreBind
  <2> HIDE DEF f, bind
  <2> QED BY <2>1, <2>2, OwnersRebind
<1>6. CASE ProgramRegistersVm
  BY <1>1, <1>6 DEF ProgramRegistersVm, RegisterVmFunction
<1>7. CASE ApplyRemoved
  BY <1>1, <1>7 DEF ApplyRemoved
<1>8. CASE RestoreBytecode
  BY <1>1, <1>8 DEF RestoreBytecode
<1>9. CASE ApplyBegin \/ ApplyEnd \/ RollbackBegin \/ RollbackEnd
  <2>1. UNCHANGED runtimeVars
    BY <1>9 DEF ApplyBegin, ApplyEnd, RollbackBegin, RollbackEnd
  <2> QED BY <1>1, <2>1 DEF runtimeVars, tableVars
<1> QED BY <1>2, <1>3, <1>4, <1>5, <1>6, <1>7, <1>8, <1>9 DEF Next

\* The history after a step is the one before, one record longer or shorter.
LEMMA HistoryStep ==
    ASSUME IInv, Next
    PROVE  \/ history' = history
           \/ history' = Append(history, record)
           \/ history # <<>> /\ history' = SubSeq(history, 1, Len(history) - 1)
<1>1. RollbackEnd => history # <<>>
  BY DEF RollbackEnd, IInv, NothingOpen
<1> QED BY <1>1
  DEF Next, ProgramRegistersNative, ProgramRegistersVm, ApplyBegin, ApplyModified, ApplyAdded,
      ApplyRemoved, ApplyEnd, RollbackBegin, RestoreBytecode, RestoreBind, RollbackEnd,
      NextEntry, patchVars

\* Outside the entries of a patch no record gets out of step.
LEMMA RecordsStayInStep ==
    ASSUME IInv, RecordsInStep, Next,
           ApplyModified \/ ApplyAdded \/ ApplyRemoved => InStep(record)'
    PROVE  RecordsInStep'
<1>1. InStep(record)'
  <2>1. CASE ApplyModified \/ ApplyAdded \/ ApplyRemoved
    BY <2>1
  <2>2. CASE ApplyBegin \/ ApplyEnd
    <3>1. PICK v : record' = NewRecord(v)
      BY <2>2 DEF ApplyBegin, ApplyEnd, NoRecord
    <3> QED BY <3>1 DEF NewRecord, InStep
  <2>3. CASE record' = record
    BY <2>3 DEF RecordsInStep, InStep
  <2> QED BY <2>1, <2>2, <2>3
    DEF Next, ProgramRegistersNative, ProgramRegistersVm, RollbackBegin, RestoreBytecode,
        RestoreBind, RollbackEnd, patchVars
<1>2. history \in Seq(PatchRecord) /\ record \in PatchRecord
  BY DEF IInv, TypeOK
<1>3. ASSUME NEW n \in DOMAIN history' PROVE InStep(history[n])'
  <2>1. CASE history' = history
    BY <1>3, <2>1 DEF RecordsInStep, InStep
  <2>2. CASE history' = Append(history, record)
    <3>1. /\ DOMAIN history' = DOMAIN history \cup {Len(history) + 1}
          /\ history'[Len(history) + 1] = record
          /\ \A i \in DOMAIN history : history'[i] = history[i]
      BY <1>2, <2>2, AppendElements
    <3> QED BY <1>3, <3>1 DEF RecordsInStep, InStep
  <2>3. CASE history # <<>> /\ history' = SubSeq(history, 1, Len(history) - 1)
    <3>1. Len(history) # 0
      BY <1>2, <2>3
    <3>2. /\ history' \in Seq(PatchRecord) /\ Len(history') = Len(history) - 1
          /\ \A i \in 1 .. Len(history') : history'[i] = history[i]
      BY <1>2, <2>3, <3>1, PopBack
    <3>3. n \in DOMAIN history /\ history'[n] = history[n]
      BY <1>2, <1>3, <3>2
    <3> QED BY <3>3 DEF RecordsInStep, InStep
  <2> QED BY <2>1, <2>2, <2>3, HistoryStep
<1> QED BY <1>1, <1>3 DEF RecordsInStep

LEMMA InitOwners ==
    ASSUME Init
    PROVE  BoundToItsFunction /\ RecordsInStep
<1>1. \A f : GetWrapperForFunc(f) = kInvalidWrapperId
  BY EmptyMapType DEF Init, RuntimeInit, GetWrapperForFunc
<1>2. BoundToItsFunction
  BY <1>1, WrapperTableAssumption DEF BoundToItsFunction, HasWrapper, WrapperIds
<1>3. RecordsInStep
  BY DEF Init, NoRecord, NewRecord, RecordsInStep, InStep
<1> QED BY <1>2, <1>3

-----------------------------------------------------------------------------

THEOREM Invariance == Spec => []IInv
<1>1. IInv /\ [Next]_vars => IInv'
  BY NextStep DEF StepOK
<1> QED BY InitIInv, <1>1, PTL DEF Spec

\* Type correctness, for every value of the constants.
THEOREM TypeCorrect == Spec => []TypeOK
<1>1. IInv => TypeOK
  BY DEF IInv
<1> QED BY <1>1, Invariance, PTL

\* AllocatedCount() is exact through registrations, added functions and
\* rollbacks (wrapper_table.cpp:23, 36).
THEOREM CountCorrect == Spec => []CountIsExact
<1>1. IInv => CountIsExact
  BY DEF IInv
<1> QED BY <1>1, Invariance, PTL

\* CurrentVersion() is the number of applied patches (patch_manager.cpp:22, 120).
THEOREM VersionCorrect == Spec => []VersionIsDepth
<1>1. IInv => VersionIsDepth
  BY DEF IInv
<1> QED BY <1>1, Invariance, PTL

\* No two functions share a wrapper, and every entry names a slot in use.
THEOREM DispatchCorrect == Spec => []DispatchSound
<1>1. IInv => DispatchSound
  BY DEF IInv
<1> QED BY <1>1, Invariance, PTL

\* A VM-mode wrapper's function has bytecode, live or in an undo record.
THEOREM VmBindsRecoverable == Spec => []VmBindRecoverable
<1>1. IInv => VmBindRecoverable
  BY DEF IInv, BindsUsable, UsableBind, VmBindRecoverable
<1> QED BY <1>1, Invariance, PTL

\* No call through an allocated wrapper is silently dropped.
THEOREM NoCallIsDropped == Spec => []NoCallDropped
<1>1. IInv => NoCallDropped
  <2> SUFFICES ASSUME IInv, NEW w \in UsedSlots
               PROVE  AdapterDispatch(w) # Ignored
    BY DEF NoCallDropped
  <2>1. bind_info[w] \in BindInfo
    BY DEF IInv, TypeOK, RuntimeTypeOK, TableTypeOK, UsedSlots
  <2>2. CASE bind_info[w].mode = kNative
    <3>1. bind_info[w].native_fn # nullptr
      BY <2>2 DEF IInv, BindsUsable, UsableBind
    <3>2. AdapterDispatch(w) = Native(bind_info[w].native_fn)
      BY <2>2, <3>1 DEF AdapterDispatch, kVM, kNative
    <3> QED BY <3>2 DEF Native, Ignored
  <2>3. CASE bind_info[w].mode = kVM
    <3>1. AdapterDispatch(w) = IF bind_info[w].func_id \in DOMAIN functions
                               THEN InVm(functions[bind_info[w].func_id]) ELSE Throws
      BY <2>3 DEF AdapterDispatch, kVM, kNative
    <3> QED BY <3>1 DEF InVm, Throws, Ignored
  <2> QED BY <2>1, <2>2, <2>3 DEF BindInfo, DispatchMode
<1> QED BY <1>1, Invariance, PTL

\* No step of ApplyPatch or Rollback loses a function's bytecode.
THEOREM BytecodeNeverLost == Spec => RecoverableGrows
<1>1. IInv /\ [Next]_vars => [Recoverable \subseteq Recoverable']_vars
  BY NextStep DEF StepOK
<1> QED BY <1>1, Invariance, PTL DEF Spec, RecoverableGrows

=============================================================================
