---------------------- MODULE ConcurrentDispatchProofs ----------------------
(***************************************************************************)
(* What a caller meets while another thread patches, proved for any number *)
(* of callers, slots, functions and patches.                               *)
(*                                                                         *)
(* Two invariants, each with its own condition on the patches.  LookupsFind*)
(* needs that nothing is removed, ReadsItsOwn that the two vectors of each *)
(* undo record are in step; patches of one entry keep them so.             *)
(***************************************************************************)
EXTENDS ConcurrentDispatch, PatchManagerProofs

-----------------------------------------------------------------------------
(* The patching thread, while nothing is removed. *)

\* What a step of the patching thread does to the bindings and the bytecode.
CodeStep ==
    /\ NothingLost'
    /\ DOMAIN functions \subseteq DOMAIN functions'
    /\ \A w \in UsedSlots :
          bind_info'[w] # bind_info[w] =>
             /\ bind_info[w].func_id \in DOMAIN functions'
             /\ bind_info'[w].func_id \in DOMAIN functions'

\* Undo records stay good as bytecode is added.
LEMMA SavedGrows ==
    ASSUME NEW rec, SavedWithCode(rec), DOMAIN functions \subseteq DOMAIN functions'
    PROVE  /\ \A i \in DOMAIN rec.modified_funcs : rec.modified_funcs[i] \in DOMAIN functions'
           /\ \A i \in DOMAIN rec.old_binds : rec.old_binds[i].func_id \in DOMAIN functions'
BY DEF SavedWithCode, HasCode

LEMMA HistoryKept ==
    ASSUME NothingLost, history' = history, DOMAIN functions \subseteq DOMAIN functions'
    PROVE  \A n \in DOMAIN history' : SavedWithCode(history[n])'
<1> SUFFICES ASSUME NEW n \in DOMAIN history PROVE SavedWithCode(history[n])'
  OBVIOUS
<1>1. SavedWithCode(history[n])
  BY DEF NothingLost
<1> QED BY <1>1, SavedGrows DEF SavedWithCode, HasCode

LEMMA RecordKept ==
    ASSUME NothingLost, record' = record, DOMAIN functions \subseteq DOMAIN functions'
    PROVE  SavedWithCode(record)'
BY SavedGrows DEF NothingLost, SavedWithCode, HasCode

\* Bindings stay good if each slot keeps its own or gets one with bytecode.
LEMMA BindsStayGood ==
    ASSUME NothingLost, IInv, DOMAIN functions \subseteq DOMAIN functions',
           UsedSlots' = UsedSlots, dispatch_table' = dispatch_table,
           \A w \in UsedSlots :
              \/ bind_info'[w] = bind_info[w]
              \/ bind_info'[w].func_id \in DOMAIN functions'
    PROVE  BindsWithCode'
<1>1. \A w \in UsedSlots' : bind_info'[w].mode = kVM => bind_info'[w].func_id \in DOMAIN functions'
  BY DEF NothingLost, BindsWithCode, HasCode
<1>2. ASSUME NEW f \in DOMAIN dispatch_table, GetWrapperForFunc(f)' \in WrapperIds
      PROVE  LET g == bind_info'[dispatch_table'[f]].func_id IN g = f \/ g \in DOMAIN functions'
  <2>1. dispatch_table[f] \in UsedSlots /\ HasWrapper(f)
    BY <1>2, WrapperTableAssumption DEF IInv, DispatchSound, GetWrapperForFunc, HasWrapper, WrapperIds
  <2> QED BY <2>1 DEF NothingLost, BindsWithCode, HasCode
<1> QED BY <1>1, <1>2 DEF BindsWithCode, HasCode, HasWrapper

LEMMA CodeRegistersNative ==
    ASSUME IInv, NothingLost, ProgramRegistersNative
    PROVE  CodeStep
<1>1. PICK f \in FuncIds, fn \in NativeFns, sig \in Sigs : RegisterNativeFunction(f, fn, sig)
  BY DEF ProgramRegistersNative
<1> DEFINE bind == NativeBind(f, fn, sig)
<1>2. /\ bind \in BindInfo /\ bind.mode # kVM /\ bind.func_id = f
  BY TypesAssumption DEF NativeBind, BindInfo, DispatchMode, kVM, kNative
<1>3. Alloc(bind) /\ functions' = functions /\ UNCHANGED patchVars
  BY <1>1 DEF RegisterNativeFunction, ProgramRegistersNative
<1>4. TableTypeOK
  BY DEF IInv, TypeOK, RuntimeTypeOK
<1>5. /\ UsedSlots' = UsedSlots \cup ({AllocResult} \cap WrapperIds)
      /\ \A w \in UsedSlots : bind_info'[w] = bind_info[w]
      /\ AllocResult \in WrapperIds => bind_info'[AllocResult] = bind
  BY <1>2, <1>3, <1>4, AllocStep
<1>6. AllocResult \in WrapperIds \cup {kInvalidWrapperId}
  BY <1>4, AllocResultFree
<1>7. \/ dispatch_table' = dispatch_table
      \/ /\ AllocResult \in WrapperIds
         /\ DOMAIN dispatch_table' = DOMAIN dispatch_table \cup {f}
         /\ dispatch_table'[f] = AllocResult
         /\ \A g \in DOMAIN dispatch_table : g # f => dispatch_table'[g] = dispatch_table[g]
  <2>1. CASE AllocResult = kInvalidWrapperId
    BY <1>1, <2>1 DEF RegisterNativeFunction
  <2>2. CASE AllocResult # kInvalidWrapperId
    BY <1>1, <1>6, <2>2 DEF RegisterNativeFunction, Put
  <2> QED BY <2>1, <2>2
<1> HIDE DEF bind
<1>8. \A w \in UsedSlots' : bind_info'[w].mode = kVM => bind_info'[w].func_id \in DOMAIN functions'
  BY <1>2, <1>3, <1>5 DEF NothingLost, BindsWithCode, HasCode
<1>9. ASSUME NEW g \in DOMAIN dispatch_table', dispatch_table'[g] \in WrapperIds
      PROVE  LET h == bind_info'[dispatch_table'[g]].func_id IN h = g \/ h \in DOMAIN functions'
  <2>1. CASE AllocResult \in WrapperIds /\ dispatch_table'[f] = AllocResult /\ g = f
    BY <1>2, <1>5, <2>1
  <2>2. CASE g \in DOMAIN dispatch_table /\ dispatch_table'[g] = dispatch_table[g]
    <3>1. GetWrapperForFunc(g) \in WrapperIds
      BY <1>9, <2>2 DEF GetWrapperForFunc
    <3>2. dispatch_table[g] \in UsedSlots /\ HasWrapper(g)
      BY <3>1, FoundSlot DEF HasWrapper
    <3> QED BY <1>3, <1>5, <2>2, <3>2 DEF NothingLost, BindsWithCode, HasCode
  <2> QED BY <1>7, <2>1, <2>2
<1>10. BindsWithCode'
  BY <1>8, <1>9 DEF BindsWithCode, HasCode, HasWrapper, GetWrapperForFunc
<1>11. NothingLost'
  BY <1>3, <1>10, HistoryKept, RecordKept DEF NothingLost, patchVars
<1> QED BY <1>3, <1>5, <1>11 DEF CodeStep

LEMMA CodeRegistersVm ==
    ASSUME IInv, NothingLost, ProgramRegistersVm
    PROVE  CodeStep
<1>1. PICK f \in FuncIds, body \in BaseBodies : RegisterVmFunction(f, body)
  BY DEF ProgramRegistersVm
<1>2. /\ functions' = Put(functions, f, body)
      /\ UNCHANGED <<tableVars, dispatch_table, patchVars>>
  BY <1>1 DEF RegisterVmFunction, RegisterFunction, ProgramRegistersVm
<1>3. DOMAIN functions \subseteq DOMAIN functions'
  BY <1>2 DEF Put
<1>4. UsedSlots' = UsedSlots /\ bind_info' = bind_info
  BY <1>2 DEF UsedSlots, tableVars
<1>5. BindsWithCode'
  BY <1>2, <1>3, <1>4, BindsStayGood
<1>6. NothingLost'
  BY <1>2, <1>3, <1>5, HistoryKept, RecordKept DEF NothingLost, patchVars
<1> QED BY <1>3, <1>4, <1>6 DEF CodeStep

\* Steps that leave the runtime alone.
LEMMA CodeRuntimeSame ==
    ASSUME IInv, NothingLost, UNCHANGED runtimeVars
    PROVE  /\ DOMAIN functions \subseteq DOMAIN functions'
           /\ BindsWithCode'
           /\ NothingLost' => CodeStep
<1>1. /\ functions' = functions /\ bind_info' = bind_info
      /\ dispatch_table' = dispatch_table /\ UsedSlots' = UsedSlots
  BY DEF runtimeVars, UsedSlots
<1>2. BindsWithCode'
  BY <1>1, BindsStayGood
<1> QED BY <1>1, <1>2 DEF CodeStep

LEMMA EmptyRecordGood ==
    ASSUME NEW v PROVE SavedWithCode(NewRecord(v)) /\ SavedWithCode(NewRecord(v))'
<1>1. NewRecord(v).modified_funcs = <<>> /\ NewRecord(v).old_binds = <<>>
  BY DEF NewRecord
<1> QED BY <1>1 DEF SavedWithCode

LEMMA CodeApplyBegin ==
    ASSUME IInv, NothingLost, NothingRemoved, ApplyBegin
    PROVE  CodeStep
<1>1. /\ UNCHANGED runtimeVars /\ history' = history
      /\ todo' \in Manifests /\ record' = NewRecord(current_version')
  BY DEF ApplyBegin
<1>2. SavedWithCode(record)'
  BY <1>1 DEF NewRecord, SavedWithCode
<1>3. NothingLost'
  BY <1>1, <1>2, CodeRuntimeSame, HistoryKept DEF NothingLost, NothingRemoved
<1> QED BY <1>1, <1>3, CodeRuntimeSame

LEMMA CodeApplyEnd ==
    ASSUME IInv, NothingLost, ApplyEnd
    PROVE  CodeStep
<1>1. /\ UNCHANGED <<runtimeVars, todo>> /\ record' = NoRecord
      /\ history' = Append(history, record)
  BY DEF ApplyEnd
<1>2. history \in Seq(PatchRecord) /\ record \in PatchRecord
  BY DEF IInv, TypeOK
<1>3. /\ DOMAIN history' = 1 .. Len(history) + 1
      /\ history'[Len(history) + 1] = record
      /\ \A n \in DOMAIN history : history'[n] = history[n]
      /\ DOMAIN history = 1 .. Len(history) /\ Len(history) \in Nat
  BY <1>1, <1>2
<1>4. functions' = functions
  BY <1>1 DEF runtimeVars
<1>5. ASSUME NEW n \in DOMAIN history' PROVE SavedWithCode(history[n])'
  <2>1. CASE n \in DOMAIN history
    BY <1>3, <1>4, <2>1 DEF NothingLost, SavedWithCode, HasCode
  <2>2. CASE n = Len(history) + 1
    BY <1>3, <1>4, <2>2 DEF NothingLost, SavedWithCode, HasCode
  <2> QED BY <1>3, <2>1, <2>2
<1>6. SavedWithCode(record)'
  BY <1>1 DEF NoRecord, NewRecord, SavedWithCode
<1>7. NothingLost'
  BY <1>1, <1>5, <1>6, CodeRuntimeSame DEF NothingLost
<1> QED BY <1>1, <1>7, CodeRuntimeSame

LEMMA CodeRollbackBegin ==
    ASSUME IInv, NothingLost, RollbackBegin
    PROVE  CodeStep
<1>1. UNCHANGED <<runtimeVars, todo, record, history>>
  BY DEF RollbackBegin
<1>2. NothingLost'
  BY <1>1, CodeRuntimeSame, HistoryKept, RecordKept DEF NothingLost
<1> QED BY <1>1, <1>2, CodeRuntimeSame

LEMMA CodeRollbackEnd ==
    ASSUME IInv, NothingLost, RollbackEnd
    PROVE  CodeStep
<1>1. /\ UNCHANGED <<runtimeVars, todo, record>> /\ pc = "restore_binds"
      /\ history' = SubSeq(history, 1, Len(history) - 1)
  BY DEF RollbackEnd
<1>2. history \in Seq(PatchRecord) /\ Len(history) # 0
  BY <1>1, TopType DEF IInv, TypeOK
<1>3. /\ \A n \in 1 .. Len(history') : history'[n] = history[n]
      /\ Len(history') = Len(history) - 1 /\ history' \in Seq(PatchRecord)
  BY <1>1, <1>2, PopBack
<1>4. \A n \in DOMAIN history' : n \in DOMAIN history /\ history'[n] = history[n]
  BY <1>2, <1>3
<1>5. functions' = functions
  BY <1>1 DEF runtimeVars
<1>6. \A n \in DOMAIN history' : SavedWithCode(history[n])'
  BY <1>4, <1>5 DEF NothingLost, SavedWithCode, HasCode
<1>7. NothingLost'
  BY <1>1, <1>6, CodeRuntimeSame, RecordKept DEF NothingLost
<1> QED BY <1>1, <1>7, CodeRuntimeSame

\* The record with one more function, or one more binding, that has bytecode.
LEMMA OneMoreSaved ==
    ASSUME NEW rec \in PatchRecord, NEW new \in PatchRecord,
           SavedWithCode(rec), DOMAIN functions \subseteq DOMAIN functions',
           \/ new.modified_funcs = rec.modified_funcs
           \/ \E f \in FuncIds : /\ new.modified_funcs = Append(rec.modified_funcs, f)
                                /\ f \in DOMAIN functions',
           \/ new.old_binds = rec.old_binds
           \/ \E bind \in BindInfo : /\ new.old_binds = Append(rec.old_binds, bind)
                                    /\ bind.func_id \in DOMAIN functions'
    PROVE  /\ \A i \in DOMAIN new.modified_funcs : new.modified_funcs[i] \in DOMAIN functions'
           /\ \A i \in DOMAIN new.old_binds : new.old_binds[i].func_id \in DOMAIN functions'
<1>1. rec.modified_funcs \in Seq(FuncIds) /\ rec.old_binds \in Seq(BindInfo)
  BY DEF PatchRecord
<1>2. \A i \in DOMAIN new.modified_funcs : new.modified_funcs[i] \in DOMAIN functions'
  <2>1. CASE new.modified_funcs = rec.modified_funcs
    BY <2>1 DEF SavedWithCode, HasCode
  <2>2. ASSUME NEW f \in FuncIds, new.modified_funcs = Append(rec.modified_funcs, f),
               f \in DOMAIN functions'
        PROVE  \A i \in DOMAIN new.modified_funcs : new.modified_funcs[i] \in DOMAIN functions'
    BY <1>1, <2>2, AppendElements DEF SavedWithCode, HasCode
  <2> QED BY <2>1, <2>2
<1>3. \A i \in DOMAIN new.old_binds : new.old_binds[i].func_id \in DOMAIN functions'
  <2>1. CASE new.old_binds = rec.old_binds
    BY <2>1 DEF SavedWithCode, HasCode
  <2>2. ASSUME NEW bind \in BindInfo, new.old_binds = Append(rec.old_binds, bind),
               bind.func_id \in DOMAIN functions'
        PROVE  \A i \in DOMAIN new.old_binds : new.old_binds[i].func_id \in DOMAIN functions'
    BY <1>1, <2>2, AppendElements DEF SavedWithCode, HasCode
  <2> QED BY <2>1, <2>2
<1> QED BY <1>2, <1>3

\* The entry at hand and the entries left.
LEMMA TodoLeft ==
    ASSUME IInv, NothingLost, NEW action, AtEntry(action), NextEntry
    PROVE  /\ action # kRemoved
           /\ \A i \in DOMAIN todo' : todo'[i].action # kRemoved
<1>1. todo \in Seq(PatchEntry) /\ todo # <<>> /\ todo' = Tail(todo) /\ Head(todo).action = action
  BY DEF IInv, TypeOK, AtEntry, NextEntry
<1>2. 1 \in DOMAIN todo /\ Head(todo) = todo[1]
  BY <1>1
<1>3. \A i \in DOMAIN todo' : i + 1 \in DOMAIN todo /\ todo'[i] = todo[i + 1]
  BY <1>1
<1> QED BY <1>1, <1>2, <1>3 DEF NothingLost

LEMMA CodeApplyModified ==
    ASSUME IInv, NothingLost, ApplyModified
    PROVE  CodeStep
<1> DEFINE f == Head(todo).func_id
           body == Head(todo).body
           wid == GetWrapperForFunc(f)
<1>1. /\ AtEntry(kModified) /\ NextEntry
      /\ record' = SaveBind(SaveBytecode(record, f), wid)
      /\ functions' = Put(functions, f, body)
      /\ Rebind(wid, VmBind(f, body)) /\ dispatch_table' = dispatch_table
  BY DEF ApplyModified, RegisterFunction
<1>2. f \in FuncIds /\ body \in Bodies /\ history' = history
  BY <1>1, EntryStep
<1>3. /\ \A i \in DOMAIN todo' : todo'[i].action # kRemoved
  BY <1>1, TodoLeft
<1>4. record \in PatchRecord /\ RuntimeTypeOK /\ TableTypeOK
  BY DEF IInv, TypeOK, RuntimeTypeOK
<1>5. VmBind(f, body) \in BindInfo /\ VmBind(f, body).func_id = f
  BY <1>2, BindTypes DEF VmBind
<1> HIDE DEF f, body
<1>6. DOMAIN functions' = DOMAIN functions \cup {f}
  BY <1>1 DEF Put
<1>7. /\ UsedSlots' = UsedSlots
      /\ \A w \in WrapperIds : w # wid => bind_info'[w] = bind_info[w]
      /\ wid \in UsedSlots => bind_info'[wid] = VmBind(f, body)
  BY <1>1, <1>4, <1>5, RebindStep
<1>8. wid \in WrapperIds => bind_info[wid].func_id \in DOMAIN functions'
  BY <1>6, FoundSlot DEF NothingLost, BindsWithCode, HasCode, HasWrapper
<1>9. BindsWithCode'
  <2>1. \A w \in UsedSlots : \/ bind_info'[w] = bind_info[w]
                            \/ bind_info'[w].func_id \in DOMAIN functions'
    BY <1>5, <1>6, <1>7 DEF UsedSlots
  <2> QED BY <1>1, <1>6, <1>7, <2>1, BindsStayGood
<1>10. SavedWithCode(record)'
  <2>1. SaveBytecode(record, f) \in PatchRecord
    BY <1>2, <1>4, SaveBytecodeStep
  <2>2. record' \in PatchRecord
    BY <1>1, <1>4, <2>1, SaveBindStep
  <2>3. /\ record'.modified_funcs = IF f \in DOMAIN functions THEN Append(record.modified_funcs, f)
                                    ELSE record.modified_funcs
        /\ record'.old_binds = IF wid \in WrapperIds THEN Append(record.old_binds, bind_info[wid])
                               ELSE record.old_binds
    BY <1>1, <1>2, <1>4, SavedFields
  <2>4. wid \in WrapperIds => bind_info[wid] \in BindInfo
    BY <1>4 DEF TableTypeOK
  <2>5. SavedWithCode(record)
    BY DEF NothingLost
  <2> HIDE DEF wid
  <2>6. /\ \A i \in DOMAIN record'.modified_funcs : record'.modified_funcs[i] \in DOMAIN functions'
        /\ \A i \in DOMAIN record'.old_binds : record'.old_binds[i].func_id \in DOMAIN functions'
    BY <1>2, <1>4, <1>6, <1>8, <2>2, <2>3, <2>4, <2>5, OneMoreSaved
  <2> QED BY <2>6 DEF SavedWithCode, HasCode
<1>11. NothingLost'
  BY <1>2, <1>3, <1>6, <1>9, <1>10, HistoryKept DEF NothingLost
<1>12. \A w \in UsedSlots : bind_info'[w] # bind_info[w] =>
          bind_info[w].func_id \in DOMAIN functions' /\ bind_info'[w].func_id \in DOMAIN functions'
  BY <1>5, <1>6, <1>7, <1>8 DEF UsedSlots
<1> QED BY <1>6, <1>11, <1>12 DEF CodeStep

LEMMA CodeApplyAdded ==
    ASSUME IInv, NothingLost, ApplyAdded
    PROVE  CodeStep
<1> DEFINE f == Head(todo).func_id
           body == Head(todo).body
           bind == VmBind(f, body)
<1>1. /\ AtEntry(kAdded) /\ NextEntry
      /\ record' = [record EXCEPT !.modified_funcs = Append(@, f)]
      /\ functions' = Put(functions, f, body)
      /\ Alloc(bind) /\ dispatch_table' = Put(dispatch_table, f, AllocResult)
  BY DEF ApplyAdded, RegisterFunction, SetDispatchEntry
<1>2. f \in FuncIds /\ body \in Bodies /\ history' = history
  BY <1>1, EntryStep
<1>3. \A i \in DOMAIN todo' : todo'[i].action # kRemoved
  BY <1>1, TodoLeft
<1>4. record \in PatchRecord /\ TableTypeOK
  BY DEF IInv, TypeOK, RuntimeTypeOK
<1>5. bind \in BindInfo /\ bind.func_id = f
  BY <1>2, BindTypes DEF VmBind
<1> HIDE DEF f, body, bind
<1>6. DOMAIN functions' = DOMAIN functions \cup {f}
  BY <1>1 DEF Put
<1>7. /\ UsedSlots' = UsedSlots \cup ({AllocResult} \cap WrapperIds)
      /\ \A w \in UsedSlots : bind_info'[w] = bind_info[w]
      /\ AllocResult \in WrapperIds => bind_info'[AllocResult] = bind
  BY <1>1, <1>4, <1>5, AllocStep
<1>8. /\ DOMAIN dispatch_table' = DOMAIN dispatch_table \cup {f}
      /\ dispatch_table'[f] = AllocResult
      /\ \A g \in DOMAIN dispatch_table : g # f => dispatch_table'[g] = dispatch_table[g]
  BY <1>1 DEF Put
<1>9. BindsWithCode'
  <2>1. \A w \in UsedSlots' : bind_info'[w].mode = kVM => bind_info'[w].func_id \in DOMAIN functions'
    BY <1>5, <1>6, <1>7 DEF NothingLost, BindsWithCode, HasCode
  <2>2. ASSUME NEW g \in DOMAIN dispatch_table', dispatch_table'[g] \in WrapperIds
        PROVE  LET h == bind_info'[dispatch_table'[g]].func_id IN h = g \/ h \in DOMAIN functions'
    <3>1. CASE g = f
      BY <1>5, <1>7, <1>8, <2>2, <3>1
    <3>2. CASE g # f
      <4>1. g \in DOMAIN dispatch_table /\ GetWrapperForFunc(g) \in WrapperIds
            /\ dispatch_table'[g] = dispatch_table[g]
        BY <1>8, <2>2, <3>2 DEF GetWrapperForFunc
      <4>2. dispatch_table[g] \in UsedSlots /\ HasWrapper(g)
        BY <4>1, FoundSlot DEF HasWrapper
      <4> QED BY <1>6, <1>7, <4>1, <4>2 DEF NothingLost, BindsWithCode, HasCode
    <3> QED BY <3>1, <3>2
  <2> QED BY <2>1, <2>2 DEF BindsWithCode, HasCode, HasWrapper, GetWrapperForFunc
<1>10. SavedWithCode(record)'
  <2>1. /\ record'.modified_funcs = Append(record.modified_funcs, f)
        /\ record'.old_binds = record.old_binds
    BY <1>1, <1>4 DEF PatchRecord
  <2>2. record' \in PatchRecord
    <3>1. Append(record.modified_funcs, f) \in Seq(FuncIds)
      BY <1>2, <1>4 DEF PatchRecord
    <3> QED BY <1>1, <1>4, <3>1 DEF PatchRecord
  <2>3. SavedWithCode(record)
    BY DEF NothingLost
  <2>4. /\ \A i \in DOMAIN record'.modified_funcs : record'.modified_funcs[i] \in DOMAIN functions'
        /\ \A i \in DOMAIN record'.old_binds : record'.old_binds[i].func_id \in DOMAIN functions'
    BY <1>2, <1>4, <1>6, <2>1, <2>2, <2>3, OneMoreSaved
  <2> QED BY <2>4 DEF SavedWithCode, HasCode
<1>11. NothingLost'
  BY <1>2, <1>3, <1>6, <1>9, <1>10, HistoryKept DEF NothingLost
<1> QED BY <1>6, <1>7, <1>11 DEF CodeStep

LEMMA CodeRestoreBytecode ==
    ASSUME IInv, NothingLost, RestoreBytecode
    PROVE  CodeStep
<1>1. /\ pc = "restore_code"
      /\ UNCHANGED <<tableVars, dispatch_table, history, todo, record>>
  BY DEF RestoreBytecode
<1>2. DOMAIN functions \subseteq DOMAIN functions'
  BY DEF RestoreBytecode, RegisterFunction, Put
<1>3. UsedSlots' = UsedSlots /\ bind_info' = bind_info
  BY <1>1 DEF UsedSlots, tableVars
<1>4. BindsWithCode'
  BY <1>1, <1>2, <1>3, BindsStayGood
<1>5. NothingLost'
  BY <1>1, <1>2, <1>4, HistoryKept, RecordKept DEF NothingLost
<1> QED BY <1>2, <1>3, <1>5 DEF CodeStep

LEMMA CodeRestoreBind ==
    ASSUME IInv, NothingLost, RestoreBind
    PROVE  CodeStep
<1> DEFINE f == Top.modified_funcs[cursor]
           bind == Top.old_binds[cursor]
           wid == GetWrapperForFunc(f)
<1>1. /\ pc = "restore_binds" /\ MoreBinds
      /\ Rebind(wid, bind)
      /\ UNCHANGED <<dispatch_table, functions, history, todo, record>>
  BY DEF RestoreBind
<1>2. /\ Top \in PatchRecord /\ cursor \in Nat \ {0} /\ Top = history[Len(history)]
      /\ Len(history) \in DOMAIN history
  <2>1. Top \in PatchRecord /\ Len(history) \in Nat \ {0} /\ history \in Seq(PatchRecord)
    BY <1>1, TopType DEF IInv, TypeOK
  <2> QED BY <2>1 DEF Top, IInv, TypeOK
<1>3. cursor \in DOMAIN Top.modified_funcs /\ cursor \in DOMAIN Top.old_binds
  BY <1>1, <1>2 DEF MoreBinds, PatchRecord
<1>4. f \in DOMAIN functions /\ bind.func_id \in DOMAIN functions
  BY <1>2, <1>3 DEF NothingLost, SavedWithCode, HasCode
<1>5. bind \in BindInfo
  BY <1>2, <1>3 DEF PatchRecord
<1>6. TableTypeOK
  BY DEF IInv, TypeOK, RuntimeTypeOK
<1> HIDE DEF f, bind
<1>7. /\ UsedSlots' = UsedSlots
      /\ \A w \in WrapperIds : w # wid => bind_info'[w] = bind_info[w]
      /\ wid \in UsedSlots => bind_info'[wid] = bind
  BY <1>1, <1>5, <1>6, RebindStep
<1>8. wid \in WrapperIds => bind_info[wid].func_id \in DOMAIN functions
  BY <1>4, FoundSlot DEF NothingLost, BindsWithCode, HasCode, HasWrapper
<1>9. BindsWithCode'
  <2>1. \A w \in UsedSlots : \/ bind_info'[w] = bind_info[w]
                            \/ bind_info'[w].func_id \in DOMAIN functions'
    BY <1>1, <1>4, <1>7 DEF UsedSlots
  <2> QED BY <1>1, <1>7, <2>1, BindsStayGood
<1>10. NothingLost'
  BY <1>1, <1>9, HistoryKept, RecordKept DEF NothingLost
<1>11. \A w \in UsedSlots : bind_info'[w] # bind_info[w] =>
          bind_info[w].func_id \in DOMAIN functions' /\ bind_info'[w].func_id \in DOMAIN functions'
  BY <1>1, <1>4, <1>7, <1>8 DEF UsedSlots
<1> QED BY <1>1, <1>10, <1>11 DEF CodeStep

LEMMA CodeNext ==
    ASSUME IInv, NothingLost, NothingRemoved, Next
    PROVE  CodeStep
<1>1. ~ ApplyRemoved
  BY TodoLeft DEF ApplyRemoved
<1> QED
  BY <1>1, CodeRegistersNative, CodeRegistersVm, CodeApplyBegin, CodeApplyModified,
     CodeApplyAdded, CodeApplyEnd, CodeRollbackBegin, CodeRestoreBytecode, CodeRestoreBind,
     CodeRollbackEnd DEF Next

-----------------------------------------------------------------------------
(* The callers. *)

\* What a caller inside AdapterDispatch carries.
LEMMA CallParts ==
    ASSUME NEW c \in CallState
    PROVE  /\ c.at \in {"out", "mode", "null_test", "lookup", "jump", "probing", "running"}
                    \cup InDispatchCall
           /\ c.at # "out" => c.w \in UsedSlots
           /\ c.at = "jump" => c.fn \in NativeFns
           /\ c.at \in {"probing", "running"} \cup InDispatchCall =>
                 c.func \in FuncIds \cup {kInvalidFuncId}
           /\ c.at = "probing" =>
                 c \in [at : {"probing"}, w : UsedSlots,
                        func : FuncIds \cup {kInvalidFuncId}, torn : BOOLEAN]
           /\ c.at = "running" =>
                 c \in [at : {"running"}, w : UsedSlots,
                        func : FuncIds \cup {kInvalidFuncId}, left : 0 .. CodeLen]
           /\ c.at \in {"searching", "entry_lock"} =>
                 c \in [at : {"searching", "entry_lock"}, w : UsedSlots,
                        func : FuncIds \cup {kInvalidFuncId}, left : 1 .. CodeLen,
                        target : FuncIds, torn : BOOLEAN]
           /\ c.at \in {"meta_lock", "meta_mode", "meta_fn", "meta_jump"} =>
                 c \in [at : {"meta_lock", "meta_mode", "meta_fn", "meta_jump"},
                        w : UsedSlots, func : FuncIds \cup {kInvalidFuncId},
                        left : 1 .. CodeLen, wid : WrapperIds]
BY DEF CallState, InDispatchCall, WaitsForLock

LEMMA CallStateGrows ==
    ASSUME UsedSlots \subseteq UsedSlots'
    PROVE  CallState \subseteq CallState'
BY DEF CallState

\* A caller's step takes it to c: where c can come from, and what it has read.
Moves(t, c) ==
    /\ c \in CallState
    /\ Goes(t, c)
    /\ c.at = "lookup" => /\ call[t].at = "mode" /\ c.w = call[t].w
                          /\ stored[c.w].mode = kVM
    /\ c.at = "probing" => /\ call[t].at = "lookup" /\ c.w = call[t].w
                           /\ c.func = stored[c.w].func_id
    /\ c.at \in InFrame => /\ call[t].at \in {"probing"} \cup InFrame
                           /\ c.w = call[t].w /\ c.func = call[t].func
    /\ c.at = "out" /\ c.ended = "not_found" =>
          call[t].at = "probing" /\ ~ HasCode(call[t].func)

\* DispatchCall throws; or its result is in the frame, which goes on.
LEMMA CannotDispatchEnds ==
    ASSUME NEW t \in Callers, Goes(t, Out("cannot_dispatch"))
    PROVE  \E c : Moves(t, c)
<1>1. Moves(t, Out("cannot_dispatch"))
  BY DEF Moves, Out, CallState, InFrame, InDispatchCall, WaitsForLock
<1> QED BY <1>1

LEMMA FrameGoesOn ==
    ASSUME NEW t \in Callers, call[t] \in CallState, call[t].at \in InDispatchCall,
           call[t].w \in UsedSlots, call[t].left \in 1 .. CodeLen,
           Goes(t, Frame(call[t].w, call[t].func, call[t].left - 1))
    PROVE  \E c : Moves(t, c)
<1> DEFINE c == call[t]
<1>1. c.func \in FuncIds \cup {kInvalidFuncId} /\ c.left - 1 \in 0 .. CodeLen
  BY CallParts, ConcurrentAssumption
<1>2. Frame(c.w, c.func, c.left - 1) \in CallState
  BY <1>1 DEF Frame, CallState
<1>3. Moves(t, Frame(c.w, c.func, c.left - 1))
  BY <1>2 DEF Moves, Frame, InFrame
<1> QED BY <1>3

LEMMA EveryCallerMoves ==
    ASSUME IInv, ConcurrentTypeOK, NEW t \in Callers, CallerStep(t)
    PROVE  \E c : Moves(t, c)
<1>1. call[t] \in CallState
  BY DEF ConcurrentTypeOK
<1>2. CASE Enter(t)
  <2>1. PICK w \in UsedSlots : Goes(t, In("mode", w))
    BY <1>2 DEF Enter
  <2>2. Moves(t, In("mode", w))
    BY <2>1 DEF Moves, In, CallState, InFrame, InDispatchCall, WaitsForLock
  <2> QED BY <2>2
<1>3. CASE ReadMode(t)
  <2> DEFINE w == call[t].w
  <2>1. call[t].at = "mode" /\ w \in UsedSlots /\ stored[w] \in BindInfo
    BY <1>1, <1>3, CallParts DEF ReadMode, ConcurrentTypeOK, UsedSlots
  <2>2. stored[w].mode # kNative => stored[w].mode = kVM
    BY <2>1 DEF BindInfo, DispatchMode
  <2>3. CASE stored[w].mode = kNative
    <3>1. Goes(t, In("null_test", w))
      BY <1>3, <2>3 DEF ReadMode
    <3>2. Moves(t, In("null_test", w))
      BY <2>1, <3>1 DEF Moves, In, CallState, InFrame, InDispatchCall, WaitsForLock
    <3> QED BY <3>2
  <2>4. CASE stored[w].mode # kNative
    <3>1. Goes(t, In("lookup", w))
      BY <1>3, <2>4 DEF ReadMode
    <3>2. Moves(t, In("lookup", w))
      BY <2>1, <2>2, <2>4, <3>1 DEF Moves, In, CallState, InFrame, InDispatchCall, WaitsForLock
    <3> QED BY <3>2
  <2> QED BY <2>3, <2>4
<1>4. CASE NullTest(t)
  <2> DEFINE w == call[t].w
             fn == stored[w].native_fn
  <2>1. w \in UsedSlots /\ stored[w] \in BindInfo
    BY <1>1, <1>4, CallParts DEF NullTest, ConcurrentTypeOK, UsedSlots
  <2>2. CASE fn = nullptr
    <3>1. Goes(t, Out("dropped"))
      BY <1>4, <2>2 DEF NullTest
    <3>2. Moves(t, Out("dropped"))
      BY <3>1 DEF Moves, Out, CallState, InFrame, InDispatchCall, WaitsForLock
    <3> QED BY <3>2
  <2>3. CASE fn # nullptr
    <3>1. Goes(t, [at |-> "jump", w |-> w, fn |-> fn])
      BY <1>4, <2>3 DEF NullTest
    <3>2. fn \in NativeFns
      BY <2>1, <2>3 DEF BindInfo
    <3>3. Moves(t, [at |-> "jump", w |-> w, fn |-> fn])
      BY <2>1, <3>1, <3>2 DEF Moves, CallState, InFrame, InDispatchCall, WaitsForLock
    <3> QED BY <3>3
  <2> QED BY <2>2, <2>3
<1>5. CASE JumpNative(t)
  <2>1. PICK fn : Goes(t, Out(IF fn = nullptr THEN "null_jump" ELSE "native"))
    BY <1>5 DEF JumpNative
  <2>2. PICK ended \in {"null_jump", "native"} : Goes(t, Out(ended))
    BY <2>1
  <2>3. Moves(t, Out(ended))
    BY <2>2 DEF Moves, Out, CallState, InFrame, InDispatchCall, WaitsForLock
  <2> QED BY <2>3
<1>6. CASE Lookup(t)
  <2> DEFINE w == call[t].w
             c == [at |-> "probing", w |-> w, func |-> stored[w].func_id, torn |-> FALSE]
  <2>1. call[t].at = "lookup" /\ w \in UsedSlots /\ stored[w] \in BindInfo
    BY <1>1, <1>6, CallParts DEF Lookup, ConcurrentTypeOK, UsedSlots
  <2>2. Goes(t, c)
    BY <1>6 DEF Lookup
  <2>3. stored[w].func_id \in FuncIds \cup {kInvalidFuncId}
    BY <2>1 DEF BindInfo
  <2>4. Moves(t, c)
    BY <2>1, <2>2, <2>3 DEF Moves, CallState, InFrame, InDispatchCall, WaitsForLock
  <2> QED BY <2>4
<1>7. CASE FindFunction(t)
  <2> DEFINE w == call[t].w
             func == call[t].func
  <2>1. call[t].at = "probing" /\ w \in UsedSlots /\ func \in FuncIds \cup {kInvalidFuncId}
    BY <1>1, <1>7, CallParts DEF FindFunction
  <2>2. CASE Goes(t, Frame(w, func, CodeLen))
    <3>1. CodeLen \in 0 .. CodeLen
      BY ConcurrentAssumption
    <3>2. Moves(t, Frame(w, func, CodeLen))
      BY <2>1, <2>2, <3>1 DEF Moves, Frame, CallState, InFrame, InDispatchCall, WaitsForLock
    <3> QED BY <3>2
  <2>3. CASE func \notin DOMAIN functions /\ Goes(t, Out("not_found"))
    <3>1. Moves(t, Out("not_found"))
      BY <2>1, <2>3 DEF Moves, Out, CallState, InFrame, InDispatchCall, WaitsForLock, HasCode
    <3> QED BY <3>1
  <2>4. CASE Goes(t, Out("missed"))
    <3>1. Moves(t, Out("missed"))
      BY <2>4 DEF Moves, Out, CallState, InFrame, InDispatchCall, WaitsForLock
    <3> QED BY <3>1
  <2> QED BY <1>7, <2>2, <2>3, <2>4 DEF FindFunction
<1>8. CASE RunInstruction(t)
  <2> DEFINE c == [call[t] EXCEPT !.left = @ - 1]
  <2>1. /\ call[t].at = "running" /\ call[t].left > 0 /\ Goes(t, c)
        /\ call[t] \in [at : {"running"}, w : UsedSlots,
                        func : FuncIds \cup {kInvalidFuncId}, left : 0 .. CodeLen]
    BY <1>1, <1>8, CallParts DEF RunInstruction
  <2>2. call[t].left - 1 \in 0 .. CodeLen
    BY <2>1, ConcurrentAssumption
  <2>3. /\ c \in [at : {"running"}, w : UsedSlots,
                  func : FuncIds \cup {kInvalidFuncId}, left : 0 .. CodeLen]
        /\ c.at = "running" /\ c.w = call[t].w /\ c.func = call[t].func
    BY <2>1, <2>2
  <2>4. Moves(t, c)
    BY <2>1, <2>3 DEF Moves, CallState, InFrame, InDispatchCall, WaitsForLock
  <2> QED BY <2>4
<1>9. CASE StoreResult(t)
  <2>1. Goes(t, Out("vm"))
    BY <1>9 DEF StoreResult
  <2>2. Moves(t, Out("vm"))
    BY <2>1 DEF Moves, Out, CallState, InFrame, InDispatchCall, WaitsForLock
  <2> QED BY <2>2
<1>10. CASE BeginCall(t)
  <2>1. PICK f \in FuncIds : Goes(t, Suspended("searching", call[t], f))
    BY <1>10 DEF BeginCall
  <2>2. /\ call[t].at = "running" /\ call[t].left > 0
        /\ call[t] \in [at : {"running"}, w : UsedSlots,
                        func : FuncIds \cup {kInvalidFuncId}, left : 0 .. CodeLen]
    BY <1>1, <1>10, CallParts DEF BeginCall
  <2>3. call[t].left \in 1 .. CodeLen
    BY <2>2, ConcurrentAssumption
  <2>4. Moves(t, Suspended("searching", call[t], f))
    BY <2>1, <2>2, <2>3
    DEF Moves, Suspended, CallState, InFrame, InDispatchCall, WaitsForLock
  <2> QED BY <2>4
<1>11. CASE FindTarget(t) \/ GetTargetWrapper(t)
  <2> DEFINE c == call[t]
  <2>1. /\ c.at \in InDispatchCall
        /\ c \in [at : {"searching", "entry_lock"}, w : UsedSlots,
                  func : FuncIds \cup {kInvalidFuncId}, left : 1 .. CodeLen,
                  target : FuncIds, torn : BOOLEAN]
    BY <1>1, <1>11, CallParts
    DEF FindTarget, GetTargetWrapper, InDispatchCall, WaitsForLock
  <2>2. CASE Goes(t, Frame(c.w, c.func, c.left - 1))
    BY <1>1, <2>1, <2>2, FrameGoesOn
  <2>3. CASE Goes(t, Suspended("entry_lock", c, c.target))
    <3>1. Moves(t, Suspended("entry_lock", c, c.target))
      BY <2>1, <2>3 DEF Moves, Suspended, CallState, InFrame, InDispatchCall, WaitsForLock
    <3> QED BY <3>1
  <2>4. CASE GetTargetWrapper(t)
    <3> DEFINE wid == GetWrapperForFunc(c.target)
    <3>1. CASE wid = kInvalidWrapperId
      <4>1. Goes(t, Out("cannot_dispatch"))
        BY <2>4, <3>1 DEF GetTargetWrapper
      <4> QED BY <4>1, CannotDispatchEnds
    <3>2. CASE wid # kInvalidWrapperId
      <4>1. Goes(t, AtWrapper("meta_lock", c, wid))
        BY <2>4, <3>2 DEF GetTargetWrapper
      <4>2. wid \in WrapperIds
        BY <2>1, <3>2 DEF IInv, DispatchSound, GetWrapperForFunc, UsedSlots
      <4>3. Moves(t, AtWrapper("meta_lock", c, wid))
        BY <2>1, <4>1, <4>2 DEF Moves, AtWrapper, CallState, InFrame, InDispatchCall, WaitsForLock
      <4> QED BY <4>3
    <3> QED BY <3>1, <3>2
  <2> QED BY <1>11, <2>2, <2>3, <2>4 DEF FindTarget
<1>12. CASE GetTargetMeta(t) \/ ReadTargetMode(t) \/ TestTargetFn(t) \/ CallTargetNative(t)
  <2> DEFINE c == call[t]
  <2>1. /\ c.at \in InDispatchCall
        /\ c \in [at : {"meta_lock", "meta_mode", "meta_fn", "meta_jump"}, w : UsedSlots,
                  func : FuncIds \cup {kInvalidFuncId}, left : 1 .. CodeLen, wid : WrapperIds]
    BY <1>1, <1>12, CallParts
    DEF GetTargetMeta, ReadTargetMode, TestTargetFn, CallTargetNative, InDispatchCall, WaitsForLock
  <2>2. \A at \in {"meta_mode", "meta_fn", "meta_jump"} :
           Goes(t, AtWrapper(at, c, c.wid)) => Moves(t, AtWrapper(at, c, c.wid))
    BY <2>1 DEF Moves, AtWrapper, CallState, InFrame, InDispatchCall, WaitsForLock
  <2>3. CASE GetTargetMeta(t)
    BY <2>2, <2>3 DEF GetTargetMeta
  <2>4. CASE ReadTargetMode(t)
    BY <2>2, <2>4, CannotDispatchEnds DEF ReadTargetMode
  <2>5. CASE TestTargetFn(t)
    BY <2>2, <2>5, CannotDispatchEnds DEF TestTargetFn
  <2>6. CASE Goes(t, Frame(c.w, c.func, c.left - 1))
    BY <1>1, <2>1, <2>6, FrameGoesOn
  <2>7. CASE Goes(t, Out("null_jump"))
    <3>1. Moves(t, Out("null_jump"))
      BY <2>7 DEF Moves, Out, CallState, InFrame, InDispatchCall, WaitsForLock
    <3> QED BY <3>1
  <2> QED BY <1>12, <2>3, <2>4, <2>5, <2>6, <2>7 DEF CallTargetNative
<1> QED BY <1>2, <1>3, <1>4, <1>5, <1>6, <1>7, <1>8, <1>9, <1>10, <1>11, <1>12 DEF CallerStep

\* Only the caller that moves is changed.
LEMMA OneMoves ==
    ASSUME ConcurrentTypeOK, NEW t \in Callers, NEW c, Moves(t, c)
    PROVE  /\ UNCHANGED vars /\ stored' = stored
           /\ UsedSlots' = UsedSlots
           /\ call'[t] = c
           /\ \A s \in Callers : s # t => call'[s] = call[s]
           /\ ConcurrentTypeOK'
<1>1. /\ UNCHANGED vars /\ stored' = stored /\ call' = [call EXCEPT ![t] = c]
      /\ c \in CallState
  BY DEF Moves, Goes
<1>2. UsedSlots' = UsedSlots
  BY <1>1 DEF vars, UsedSlots
<1>3. CallState \subseteq CallState'
  BY <1>2, CallStateGrows
<1> QED BY <1>1, <1>2, <1>3 DEF ConcurrentTypeOK, BindInfo

-----------------------------------------------------------------------------
(* Types. *)

\* Slots are never freed while patches come and go.
LEMMA SlotsStayInUse ==
    ASSUME IInv, Next
    PROVE  UsedSlots \subseteq UsedSlots'
<1>1. in_use \in [WrapperIds -> BOOLEAN]
  BY DEF IInv, TypeOK, RuntimeTypeOK, TableTypeOK
<1>2. ASSUME NEW bind, Alloc(bind) PROVE UsedSlots \subseteq UsedSlots'
  BY <1>1, <1>2 DEF Alloc, tableVars, UsedSlots
<1>3. ASSUME NEW w, NEW bind, Rebind(w, bind) PROVE UsedSlots \subseteq UsedSlots'
  BY <1>3 DEF Rebind, tableVars, UsedSlots
<1>4. CASE ProgramRegistersNative \/ ApplyAdded
  BY <1>2, <1>4 DEF ProgramRegistersNative, RegisterNativeFunction, ApplyAdded
<1>5. CASE ApplyModified \/ RestoreBind
  BY <1>3, <1>5 DEF ApplyModified, RestoreBind
<1>6. CASE ProgramRegistersVm \/ ApplyRemoved \/ RestoreBytecode
  BY <1>6 DEF ProgramRegistersVm, RegisterVmFunction, ApplyRemoved, RestoreBytecode,
              tableVars, UsedSlots
<1>7. CASE ApplyBegin \/ ApplyEnd \/ RollbackBegin \/ RollbackEnd
  BY <1>7 DEF ApplyBegin, ApplyEnd, RollbackBegin, RollbackEnd, runtimeVars, UsedSlots
<1> QED BY <1>4, <1>5, <1>6, <1>7 DEF Next

\* What the patching thread leaves of a caller: a search may be torn.
LEMMA TearStep ==
    ASSUME NEW c \in CallState
    PROVE  /\ Tear(c) \in CallState
           /\ Tear(c).at = c.at
           /\ c.at = "out" => Tear(c) = c
           /\ c.at # "out" => Tear(c).w = c.w
           /\ c.at \in {"probing"} \cup InFrame => Tear(c).func = c.func
<1>1. CASE c.at = "probing"
  <2>1. c \in [at : {"probing"}, w : UsedSlots,
               func : FuncIds \cup {kInvalidFuncId}, torn : BOOLEAN]
    BY <1>1, CallParts
  <2>2. /\ Tear(c) \in [at : {"probing"}, w : UsedSlots,
                        func : FuncIds \cup {kInvalidFuncId}, torn : BOOLEAN]
        /\ Tear(c).at = c.at /\ Tear(c).w = c.w /\ Tear(c).func = c.func
    BY <2>1 DEF Tear
  <2> QED BY <1>1, <2>2 DEF CallState
<1>2. CASE c.at = "searching"
  <2>1. c \in [at : {"searching", "entry_lock"}, w : UsedSlots,
               func : FuncIds \cup {kInvalidFuncId}, left : 1 .. CodeLen,
               target : FuncIds, torn : BOOLEAN]
    BY <1>2, CallParts
  <2>2. /\ Tear(c) \in [at : {"searching", "entry_lock"}, w : UsedSlots,
                        func : FuncIds \cup {kInvalidFuncId}, left : 1 .. CodeLen,
                        target : FuncIds, torn : BOOLEAN]
        /\ Tear(c).at = c.at /\ Tear(c).w = c.w /\ Tear(c).func = c.func
    BY <2>1 DEF Tear
  <2> QED BY <1>2, <2>2 DEF CallState
<1>3. CASE c.at \notin {"probing", "searching"}
  BY <1>3 DEF Tear
<1> QED BY <1>1, <1>2, <1>3

\* The slots' memory after a step of the patching thread.
LEMMA PatcherStores ==
    ASSUME IInv, ConcurrentTypeOK, PatcherStep
    PROVE  /\ stored = bind_info
           /\ UsedSlots \subseteq UsedSlots'
           /\ \A w \in UsedSlots : stored'[w] = stored[w]
           /\ \A w \in WrapperIds : w \notin UsedSlots => stored'[w] = bind_info'[w]
           /\ \A t \in Callers : call[t] \in CallState /\ call'[t] = Tear(call[t])
           /\ ConcurrentTypeOK'
<1>1. /\ Next /\ stored = bind_info
      /\ stored' = [w \in WrapperIds |-> IF in_use[w] THEN stored[w] ELSE bind_info'[w]]
      /\ call' = [t \in Callers |-> Tear(call[t])]
  BY DEF PatcherStep, WriteComplete
<1>2. IInv'
  BY <1>1, NextStep DEF StepOK
<1>3. bind_info' \in [WrapperIds -> BindInfo]
  BY <1>2 DEF IInv, TypeOK, RuntimeTypeOK, TableTypeOK
<1>4. UsedSlots \subseteq UsedSlots' /\ CallState \subseteq CallState'
  BY <1>1, SlotsStayInUse, CallStateGrows
<1>5. stored' \in [WrapperIds -> BindInfo]
  BY <1>1, <1>3 DEF ConcurrentTypeOK
<1>6. \A t \in Callers : call[t] \in CallState /\ Tear(call[t]) \in CallState
  BY TearStep DEF ConcurrentTypeOK
<1>7. call' \in [Callers -> CallState']
  BY <1>1, <1>4, <1>6
<1>8. ConcurrentTypeOK'
  <2>1. stored' \in [WrapperIds -> BindInfo] /\ call' \in [Callers -> CallState']
    BY <1>5, <1>7
  <2> QED BY <2>1 DEF ConcurrentTypeOK, WrapperIds, BindInfo
<1> QED BY <1>1, <1>4, <1>6, <1>8 DEF UsedSlots

\* The slots' memory after one field has been written.
LEMMA FieldWritten ==
    ASSUME IInv, ConcurrentTypeOK, WriteField
    PROVE  /\ UNCHANGED vars /\ call' = call /\ UsedSlots' = UsedSlots
           /\ \A w \in WrapperIds :
                 \/ stored'[w] = stored[w]
                 \/ /\ stored[w] # bind_info[w]
                    /\ stored'[w].func_id \in {stored[w].func_id, bind_info[w].func_id}
           /\ ConcurrentTypeOK'
<1>1. PICK v \in WrapperIds, field \in {"func_id", "mode", "sig", "native_fn"} :
         /\ stored[v][field] # bind_info[v][field]
         /\ stored' = [stored EXCEPT ![v][field] = bind_info[v][field]]
  BY DEF WriteField
<1>2. UNCHANGED vars /\ call' = call
  BY DEF WriteField
<1>3. UsedSlots' = UsedSlots
  BY <1>2 DEF vars, UsedSlots
<1>4. stored \in [WrapperIds -> BindInfo] /\ bind_info[v] \in BindInfo /\ stored[v] \in BindInfo
  BY DEF ConcurrentTypeOK, IInv, TypeOK, RuntimeTypeOK, TableTypeOK
<1> DEFINE new == [stored[v] EXCEPT ![field] = bind_info[v][field]]
<1>5. /\ stored' = [stored EXCEPT ![v] = new]
      /\ stored'[v] = new
      /\ \A w \in WrapperIds : w # v => stored'[w] = stored[w]
  BY <1>1, <1>4
<1>6. new \in BindInfo /\ new.func_id \in {stored[v].func_id, bind_info[v].func_id}
  BY <1>4 DEF BindInfo
<1>7. stored[v] # bind_info[v]
  BY <1>1
<1> HIDE DEF new
<1>8. stored' \in [WrapperIds -> BindInfo]
  BY <1>4, <1>5, <1>6
<1>9. call' \in [Callers -> CallState']
  BY <1>2, <1>3, CallStateGrows DEF ConcurrentTypeOK
<1>10. ConcurrentTypeOK'
  BY <1>8, <1>9 DEF ConcurrentTypeOK, WrapperIds, BindInfo
<1> QED BY <1>2, <1>3, <1>5, <1>6, <1>7, <1>10

LEMMA ConcurrentTypesInit ==
    ASSUME ConcurrentInit
    PROVE  IInv /\ ConcurrentTypeOK
<1>1. IInv
  BY InitIInv DEF ConcurrentInit
<1>2. stored \in [WrapperIds -> BindInfo]
  BY <1>1 DEF ConcurrentInit, IInv, TypeOK, RuntimeTypeOK, TableTypeOK
<1>3. Out("nothing") \in CallState
  BY DEF Out, CallState
<1>4. call \in [Callers -> CallState]
  BY <1>3 DEF ConcurrentInit
<1> QED BY <1>1, <1>2, <1>4 DEF ConcurrentTypeOK

LEMMA ConcurrentTypesStep ==
    ASSUME IInv, ConcurrentTypeOK, [ConcurrentNext]_allVars
    PROVE  IInv' /\ ConcurrentTypeOK'
<1>1. [Next]_vars
  <2>1. CASE PatcherStep
    BY <2>1 DEF PatcherStep
  <2>2. ASSUME NEW t \in Callers, CallerStep(t) PROVE UNCHANGED vars
    BY <2>2, EveryCallerMoves DEF Moves, Goes
  <2>3. CASE WriteField
    BY <2>3 DEF WriteField
  <2>4. CASE UNCHANGED allVars
    BY <2>4 DEF allVars, vars
  <2> QED BY <2>1, <2>2, <2>3, <2>4 DEF ConcurrentNext
<1>2. IInv'
  BY <1>1, NextStep DEF StepOK
<1>3. ConcurrentTypeOK'
  <2>1. CASE PatcherStep
    BY <2>1, PatcherStores
  <2>2. CASE WriteField
    BY <2>2, FieldWritten
  <2>3. ASSUME NEW t \in Callers, CallerStep(t) PROVE ConcurrentTypeOK'
    BY <2>3, EveryCallerMoves, OneMoves
  <2>4. CASE UNCHANGED allVars
    <3>1. stored' = stored /\ call' = call /\ UsedSlots' = UsedSlots
      BY <2>4 DEF allVars, UsedSlots
    <3>2. call' \in [Callers -> CallState']
      BY <3>1, CallStateGrows DEF ConcurrentTypeOK
    <3> QED BY <3>1, <3>2 DEF ConcurrentTypeOK, WrapperIds, BindInfo
  <2> QED BY <2>1, <2>2, <2>3, <2>4 DEF ConcurrentNext
<1> QED BY <1>2, <1>3

-----------------------------------------------------------------------------
(* Every lookup finds bytecode. *)

LEMMA LookupsFindInit ==
    ASSUME ConcurrentInit
    PROVE  LookupsFind
<1>1. /\ todo = <<>> /\ history = <<>> /\ record = NoRecord /\ UsedSlots = {}
      /\ stored = bind_info /\ dispatch_table = EmptyMap
  BY InitTable DEF ConcurrentInit, Init, RuntimeInit
<1>2. BindsWithCode
  BY <1>1, EmptyMapType DEF BindsWithCode
<1>3. SavedWithCode(record)
  BY <1>1, EmptyRecordGood DEF NoRecord
<1>4. NothingLost
  BY <1>1, <1>2, <1>3 DEF NothingLost
<1>5. \A t \in Callers : call[t].at = "out" /\ call[t].ended = "nothing"
  BY DEF ConcurrentInit, Out
<1> QED BY <1>1, <1>4, <1>5 DEF LookupsFind, NeverNotFound

LEMMA LookupsFindPatcher ==
    ASSUME IInv, ConcurrentTypeOK, LookupsFind, NothingRemoved, PatcherStep
    PROVE  LookupsFind'
<1>1. CodeStep
  BY CodeNext DEF LookupsFind, PatcherStep
<1>2. /\ stored = bind_info
      /\ \A w \in UsedSlots : stored'[w] = stored[w]
      /\ \A w \in WrapperIds : w \notin UsedSlots => stored'[w] = bind_info'[w]
      /\ \A t \in Callers : call[t] \in CallState /\ call'[t] = Tear(call[t])
  BY PatcherStores
<1>3. \A w \in UsedSlots' : stored'[w] # bind_info'[w] =>
          stored'[w].func_id \in DOMAIN functions' /\ bind_info'[w].func_id \in DOMAIN functions'
  BY <1>1, <1>2 DEF CodeStep, UsedSlots
<1>4. ASSUME NEW t \in Callers
      PROVE  /\ call'[t].at = "lookup" => stored'[call'[t].w].func_id \in DOMAIN functions'
             /\ call'[t].at = "probing" => call'[t].func \in DOMAIN functions'
             /\ call'[t].at = "out" => call'[t].ended # "not_found"
  <2>1. /\ call'[t].at = call[t].at
        /\ call[t].at = "out" => call'[t] = call[t]
        /\ call[t].at # "out" => call'[t].w = call[t].w /\ call[t].w \in UsedSlots
        /\ call[t].at = "probing" => call'[t].func = call[t].func
    BY <1>2, TearStep, CallParts
  <2>2. CASE call[t].at = "lookup"
    BY <1>1, <1>2, <2>1, <2>2 DEF LookupsFind, HasCode, CodeStep
  <2>3. CASE call[t].at = "probing"
    BY <1>1, <2>1, <2>3 DEF LookupsFind, HasCode, CodeStep
  <2>4. CASE call[t].at \notin {"lookup", "probing"}
    BY <2>1, <2>4 DEF LookupsFind, NeverNotFound
  <2> QED BY <2>2, <2>3, <2>4
<1> QED BY <1>1, <1>3, <1>4 DEF LookupsFind, NeverNotFound, HasCode, CodeStep

LEMMA NothingLostKept ==
    ASSUME NothingLost, UNCHANGED vars
    PROVE  NothingLost'
<1>1. UsedSlots' = UsedSlots /\ \A f : HasWrapper(f)' <=> HasWrapper(f)
  BY DEF vars, UsedSlots, HasWrapper, GetWrapperForFunc
<1> QED BY <1>1 DEF vars, NothingLost, SavedWithCode, BindsWithCode, HasCode

LEMMA LookupsFindField ==
    ASSUME IInv, ConcurrentTypeOK, LookupsFind, WriteField
    PROVE  LookupsFind'
<1>1. /\ UNCHANGED vars /\ call' = call /\ UsedSlots' = UsedSlots
      /\ \A w \in WrapperIds :
            \/ stored'[w] = stored[w]
            \/ /\ stored[w] # bind_info[w]
               /\ stored'[w].func_id \in {stored[w].func_id, bind_info[w].func_id}
  BY FieldWritten
<1>2. NothingLost'
  BY <1>1, NothingLostKept DEF LookupsFind
<1>3. functions' = functions /\ bind_info' = bind_info
  BY <1>1 DEF vars
<1>4. ASSUME NEW w \in UsedSlots
      PROVE  /\ HasCode(stored[w].func_id) => HasCode(stored'[w].func_id)
             /\ stored'[w] # bind_info[w] => HasCode(stored'[w].func_id) /\ HasCode(bind_info[w].func_id)
  BY <1>1 DEF LookupsFind, UsedSlots
<1>5. \A t \in Callers : call[t].at = "lookup" => HasCode(stored'[call[t].w].func_id)
  <2> SUFFICES ASSUME NEW t \in Callers, call[t].at = "lookup"
               PROVE  HasCode(stored'[call[t].w].func_id)
    OBVIOUS
  <2>1. call[t].w \in UsedSlots
    BY CallParts DEF ConcurrentTypeOK
  <2> QED BY <1>4, <2>1 DEF LookupsFind
<1> QED BY <1>1, <1>2, <1>3, <1>4, <1>5 DEF LookupsFind, NeverNotFound, HasCode

LEMMA LookupsFindCaller ==
    ASSUME IInv, ConcurrentTypeOK, LookupsFind, NEW t \in Callers, NEW c, Moves(t, c)
    PROVE  LookupsFind'
<1>1. /\ UNCHANGED vars /\ stored' = stored /\ UsedSlots' = UsedSlots /\ call'[t] = c
      /\ \A s \in Callers : s # t => call'[s] = call[s]
  BY OneMoves
<1>2. NothingLost'
  BY <1>1, NothingLostKept DEF LookupsFind
<1>3. functions' = functions /\ bind_info' = bind_info
  BY <1>1 DEF vars
<1>4. c.at # "out" => c.w \in UsedSlots
  BY CallParts DEF Moves
<1>5. c.at = "lookup" => HasCode(stored[c.w].func_id)
  BY <1>4 DEF Moves, LookupsFind, NothingLost, BindsWithCode
<1>6. c.at = "probing" => HasCode(c.func)
  BY DEF Moves, LookupsFind
<1>7. c.at = "out" => c.ended # "not_found"
  BY DEF Moves, LookupsFind
<1>8. \A w \in UsedSlots' : stored'[w] # bind_info'[w] =>
         HasCode(stored'[w].func_id) /\ HasCode(bind_info'[w].func_id)
  BY <1>1, <1>3 DEF LookupsFind
<1>9. \A s \in Callers : /\ call'[s].at = "lookup" => HasCode(stored'[call'[s].w].func_id)
                         /\ call'[s].at = "probing" => HasCode(call'[s].func)
                         /\ call'[s].at = "out" => call'[s].ended # "not_found"
  BY <1>1, <1>5, <1>6, <1>7 DEF LookupsFind, NeverNotFound
<1> QED BY <1>2, <1>3, <1>8, <1>9 DEF LookupsFind, NeverNotFound, HasCode

LEMMA LookupsFindStep ==
    ASSUME IInv, ConcurrentTypeOK, LookupsFind, NothingRemoved, [ConcurrentNext]_allVars
    PROVE  LookupsFind'
<1>1. CASE PatcherStep
  BY <1>1, LookupsFindPatcher
<1>2. CASE WriteField
  BY <1>2, LookupsFindField
<1>3. ASSUME NEW t \in Callers, CallerStep(t) PROVE LookupsFind'
  BY <1>3, EveryCallerMoves, LookupsFindCaller
<1>4. CASE UNCHANGED allVars
  <2>1. UNCHANGED vars /\ stored' = stored /\ call' = call /\ UsedSlots' = UsedSlots
    BY <1>4 DEF allVars, vars, UsedSlots
  <2>2. NothingLost' /\ functions' = functions /\ bind_info' = bind_info
    BY <2>1, NothingLostKept DEF LookupsFind, vars
  <2> QED BY <2>1, <2>2 DEF LookupsFind, NeverNotFound, HasCode
<1> QED BY <1>1, <1>2, <1>3, <1>4 DEF ConcurrentNext

-----------------------------------------------------------------------------
(* Every caller runs what it came for. *)

LEMMA ReadsItsOwnInit ==
    ASSUME ConcurrentInit
    PROVE  ReadsItsOwn /\ RecordsInStep
<1>1. BoundToItsFunction /\ RecordsInStep /\ stored = bind_info
  BY InitOwners DEF ConcurrentInit
<1>2. \A t \in Callers : call[t].at = "out"
  BY DEF ConcurrentInit, Out
<1> QED BY <1>1, <1>2
  DEF ReadsItsOwn, RunsItsFunction, Running, BoundToItsFunction, InFrame, InDispatchCall, WaitsForLock

LEMMA ReadsItsOwnPatcher ==
    ASSUME IInv, ConcurrentTypeOK, ReadsItsOwn, RecordsInStep, PatcherStep
    PROVE  ReadsItsOwn'
<1>1. OwnersStep
  BY OwnersNext DEF ReadsItsOwn, PatcherStep
<1>2. /\ stored = bind_info
      /\ \A w \in UsedSlots : stored'[w] = stored[w]
      /\ \A w \in WrapperIds : w \notin UsedSlots => stored'[w] = bind_info'[w]
      /\ \A t \in Callers : call[t] \in CallState /\ call'[t] = Tear(call[t])
  BY PatcherStores
<1>3. ASSUME NEW f \in FuncIds, GetWrapperForFunc(f)' \in WrapperIds
      PROVE  stored'[GetWrapperForFunc(f)'].func_id = f
  <2>1. CASE GetWrapperForFunc(f)' \in UsedSlots
    <3>1. GetWrapperForFunc(f)' = GetWrapperForFunc(f)
      BY <1>1, <2>1 DEF OwnersStep
    <3> QED BY <1>2, <1>3, <2>1, <3>1 DEF ReadsItsOwn, HasWrapper
  <2>2. CASE GetWrapperForFunc(f)' \notin UsedSlots
    <3>1. bind_info'[GetWrapperForFunc(f)'].func_id = f
      BY <1>1, <1>3 DEF OwnersStep, BoundToItsFunction, HasWrapper
    <3> QED BY <1>2, <1>3, <2>2, <3>1
  <2> QED BY <2>1, <2>2
<1>4. ASSUME NEW t \in Callers, call'[t].at \in {"probing"} \cup InFrame,
             NEW f \in FuncIds, GetWrapperForFunc(f)' = call'[t].w
      PROVE  call'[t].func = f
  <2>1. /\ call[t].at = call'[t].at /\ call'[t].w = call[t].w /\ call[t].w \in UsedSlots
        /\ call'[t].func = call[t].func
    BY <1>2, <1>4, TearStep, CallParts DEF InFrame, InDispatchCall, WaitsForLock
  <2>2. GetWrapperForFunc(f) = call[t].w
    BY <1>1, <1>4, <2>1 DEF OwnersStep
  <2>3. CASE call[t].at = "probing"
    BY <2>1, <2>2, <2>3 DEF ReadsItsOwn
  <2>4. CASE call[t].at \in InFrame
    <3>1. f \in DOMAIN dispatch_table /\ dispatch_table[f] = call[t].w
      BY <2>1, <2>2, FoundSlot DEF UsedSlots
    <3> QED BY <2>1, <2>4, <3>1 DEF ReadsItsOwn, RunsItsFunction, Running
  <2> QED BY <1>4, <2>1, <2>3, <2>4
<1>5. RunsItsFunction'
  <2> SUFFICES ASSUME NEW t \in Callers, call'[t].at \in InFrame,
                      NEW f \in DOMAIN dispatch_table', dispatch_table'[f] = call'[t].w
               PROVE  call'[t].func = f
    BY DEF RunsItsFunction, Running
  <2>1. IInv'
    BY NextStep DEF PatcherStep, StepOK
  <2>2. f \in FuncIds
    BY <2>1, MapApply DEF IInv, TypeOK, RuntimeTypeOK
  <2>3. GetWrapperForFunc(f)' = call'[t].w
    BY DEF GetWrapperForFunc
  <2> QED BY <1>4, <2>2, <2>3
<1> QED BY <1>1, <1>3, <1>4, <1>5 DEF ReadsItsOwn, HasWrapper, OwnersStep

\* Of the steps that leave the patching thread's state alone.
LEMMA OwnersSame ==
    ASSUME UNCHANGED vars
    PROVE  /\ BoundToItsFunction => BoundToItsFunction'
           /\ RecordsInStep => RecordsInStep'
           /\ dispatch_table' = dispatch_table
           /\ \A f : GetWrapperForFunc(f)' = GetWrapperForFunc(f)
           /\ \A f : HasWrapper(f)' <=> HasWrapper(f)
<1>1. \A f : GetWrapperForFunc(f)' = GetWrapperForFunc(f) /\ (HasWrapper(f)' <=> HasWrapper(f))
  BY DEF vars, GetWrapperForFunc, HasWrapper
<1> QED BY <1>1 DEF vars, BoundToItsFunction, RecordsInStep, InStep

LEMMA ReadsItsOwnField ==
    ASSUME IInv, ConcurrentTypeOK, ReadsItsOwn, WriteField
    PROVE  ReadsItsOwn'
<1>1. /\ UNCHANGED vars /\ call' = call
      /\ \A w \in WrapperIds :
            \/ stored'[w] = stored[w]
            \/ stored'[w].func_id \in {stored[w].func_id, bind_info[w].func_id}
  BY FieldWritten
<1>2. /\ BoundToItsFunction' /\ dispatch_table' = dispatch_table
      /\ \A f : GetWrapperForFunc(f)' = GetWrapperForFunc(f)
      /\ \A f : HasWrapper(f)' <=> HasWrapper(f)
  BY <1>1, OwnersSame DEF ReadsItsOwn
<1>3. ASSUME NEW f \in FuncIds, HasWrapper(f)
      PROVE  stored'[GetWrapperForFunc(f)].func_id = f
  BY <1>1, <1>3 DEF ReadsItsOwn, BoundToItsFunction, HasWrapper
<1> QED BY <1>1, <1>2, <1>3 DEF ReadsItsOwn, RunsItsFunction, Running

LEMMA ReadsItsOwnCaller ==
    ASSUME IInv, ConcurrentTypeOK, ReadsItsOwn, NEW t \in Callers, NEW c, Moves(t, c)
    PROVE  ReadsItsOwn'
<1>1. /\ UNCHANGED vars /\ stored' = stored /\ call'[t] = c
      /\ \A s \in Callers : s # t => call'[s] = call[s]
  BY OneMoves
<1>2. /\ BoundToItsFunction' /\ dispatch_table' = dispatch_table
      /\ \A f : GetWrapperForFunc(f)' = GetWrapperForFunc(f)
      /\ \A f : HasWrapper(f)' <=> HasWrapper(f)
  BY <1>1, OwnersSame DEF ReadsItsOwn
<1>3. c.at # "out" => c.w \in WrapperIds
  BY CallParts DEF Moves, UsedSlots
<1>4. ASSUME c.at = "probing", NEW f \in FuncIds, GetWrapperForFunc(f) = c.w
      PROVE  c.func = f
  BY <1>3, <1>4 DEF Moves, ReadsItsOwn, HasWrapper
<1>5. ASSUME c.at \in InFrame, NEW f \in DOMAIN dispatch_table, dispatch_table[f] = c.w
      PROVE  c.func = f
  <2>1. /\ call[t].at \in {"probing"} \cup InFrame
        /\ c.w = call[t].w /\ c.func = call[t].func
    BY <1>5 DEF Moves
  <2>2. f \in FuncIds /\ GetWrapperForFunc(f) = c.w
    BY <1>5, MapApply DEF IInv, TypeOK, RuntimeTypeOK, GetWrapperForFunc
  <2> QED BY <1>5, <2>1, <2>2 DEF ReadsItsOwn, RunsItsFunction, Running
<1>6. \A s \in Callers :
         /\ call'[s].at = "probing" =>
               \A f \in FuncIds : GetWrapperForFunc(f) = call'[s].w => call'[s].func = f
         /\ call'[s].at \in InFrame =>
               \A f \in DOMAIN dispatch_table : dispatch_table[f] = call'[s].w => call'[s].func = f
  BY <1>1, <1>4, <1>5 DEF ReadsItsOwn, RunsItsFunction, Running
<1> QED BY <1>1, <1>2, <1>6 DEF ReadsItsOwn, RunsItsFunction, Running

LEMMA ReadsItsOwnStep ==
    ASSUME IInv, ConcurrentTypeOK, ReadsItsOwn, RecordsInStep, [ConcurrentNext]_allVars
    PROVE  ReadsItsOwn'
<1>1. CASE PatcherStep
  BY <1>1, ReadsItsOwnPatcher
<1>2. CASE WriteField
  BY <1>2, ReadsItsOwnField
<1>3. ASSUME NEW t \in Callers, CallerStep(t) PROVE ReadsItsOwn'
  BY <1>3, EveryCallerMoves, ReadsItsOwnCaller
<1>4. CASE UNCHANGED allVars
  <2>1. UNCHANGED vars /\ stored' = stored /\ call' = call
    BY <1>4 DEF allVars, vars
  <2> QED BY <2>1, OwnersSame DEF ReadsItsOwn, RunsItsFunction, Running
<1> QED BY <1>1, <1>2, <1>3, <1>4 DEF ConcurrentNext

-----------------------------------------------------------------------------
(* Patches of one entry keep the undo records in step. *)

LEMMA OneEntryStep ==
    ASSUME IInv, OneEntryEach, OneEntryLeft, Next
    PROVE  OneEntryLeft'
<1>1. CASE ApplyBegin
  <2>1. todo' \in Manifests /\ Len(todo') <= 1 /\ record' = NewRecord(current_version')
    BY <1>1 DEF ApplyBegin, OneEntryEach
  <2>2. todo' \in Seq(PatchEntry)
    BY <2>1, PatchManagerAssumption
  <2>3. Len(todo') \in Nat /\ (Len(todo') = 0 => todo' = <<>>)
    BY <2>2
  <2>4. todo' = <<>> \/ Len(todo') = 1
    BY <2>1, <2>3
  <2> QED BY <2>1, <2>4 DEF NewRecord, OneEntryLeft
<1>2. CASE ApplyModified \/ ApplyAdded \/ ApplyRemoved
  <2>1. pc = "apply" /\ todo # <<>> /\ todo' = Tail(todo)
    BY <1>2 DEF ApplyModified, ApplyAdded, ApplyRemoved, AtEntry, NextEntry
  <2>2. todo \in Seq(PatchEntry) /\ Len(todo) = 1
    BY <2>1 DEF OneEntryLeft, IInv, TypeOK
  <2>3. todo' \in Seq(PatchEntry) /\ Len(todo') = 0
    BY <2>1, <2>2, HeadTailProperties
  <2>4. todo' = <<>>
    BY <2>3
  <2> QED BY <2>4 DEF OneEntryLeft
<1>3. CASE pc' # "apply" \/ UNCHANGED <<pc, todo, record>>
  BY <1>3 DEF OneEntryLeft
<1> QED BY <1>1, <1>2, <1>3
  DEF Next, ProgramRegistersNative, ProgramRegistersVm, ApplyEnd, RollbackBegin,
      RestoreBytecode, RestoreBind, RollbackEnd, patchVars

LEMMA OneEntryInStep ==
    ASSUME IInv, BoundToItsFunction, RecordsInStep, OneEntryLeft, Next
    PROVE  RecordsInStep'
<1>1. ASSUME ApplyModified \/ ApplyAdded \/ ApplyRemoved PROVE InStep(record)'
  <2>1. pc = "apply" /\ todo # <<>>
    BY <1>1 DEF ApplyModified, ApplyAdded, ApplyRemoved, AtEntry
  <2>2. record \in PatchRecord /\ record.modified_funcs = <<>> /\ record.old_binds = <<>>
    BY <2>1 DEF OneEntryLeft, IInv, TypeOK
  <2>3. CASE ApplyModified
    <3> DEFINE f == Head(todo).func_id
               wid == GetWrapperForFunc(f)
    <3>1. record' = SaveBind(SaveBytecode(record, f), wid) /\ f \in FuncIds /\ RuntimeTypeOK
      BY <2>3, EntryStep DEF ApplyModified, IInv, TypeOK
    <3>2. /\ record'.modified_funcs = IF f \in DOMAIN functions
                                      THEN Append(record.modified_funcs, f)
                                      ELSE record.modified_funcs
          /\ record'.old_binds = IF wid \in WrapperIds
                                 THEN Append(record.old_binds, bind_info[wid])
                                 ELSE record.old_binds
      BY <2>2, <3>1, SavedFields
    <3>3. wid \in WrapperIds => bind_info[wid].func_id = f
      BY <3>1 DEF BoundToItsFunction, HasWrapper
    <3> HIDE DEF f, wid
    <3> QED BY <2>2, <3>2, <3>3 DEF InStep
  <2>4. CASE ApplyAdded
    <3>1. record'.old_binds = <<>>
      BY <2>2, <2>4 DEF ApplyAdded, PatchRecord
    <3> QED BY <3>1 DEF InStep
  <2>5. CASE ApplyRemoved
    <3>1. record'.old_binds = <<>>
      BY <2>2, <2>5 DEF ApplyRemoved, SaveBytecode, PatchRecord
    <3> QED BY <3>1 DEF InStep
  <2> QED BY <1>1, <2>3, <2>4, <2>5
<1> QED BY <1>1, RecordsStayInStep

-----------------------------------------------------------------------------
(* The theorems. *)

\* The types of the slots' memory and of what callers carry.
THEOREM ConcurrentTypes == ConcurrentSpec => [](IInv /\ ConcurrentTypeOK)
<1>1. IInv /\ ConcurrentTypeOK /\ [ConcurrentNext]_allVars => (IInv /\ ConcurrentTypeOK)'
  BY ConcurrentTypesStep
<1> QED BY ConcurrentTypesInit, <1>1, PTL DEF ConcurrentSpec

\* While patches remove nothing, no call meets a wrapper in VM mode before its
\* bytecode is there, whichever fields it reads of a BindInfo that is being
\* overwritten (patch_manager.cpp:44 before 56, 107 before 115).
THEOREM CallsFindTheirFunction ==
    ASSUME NothingRemoved
    PROVE  ConcurrentSpec => []NeverNotFound
<1> DEFINE Inv == IInv /\ ConcurrentTypeOK /\ LookupsFind
<1>1. ConcurrentInit => Inv
  BY ConcurrentTypesInit, LookupsFindInit
<1>2. Inv /\ [ConcurrentNext]_allVars => Inv'
  BY ConcurrentTypesStep, LookupsFindStep
<1>3. Inv => NeverNotFound
  BY DEF LookupsFind
<1> HIDE DEF Inv
<1> QED BY <1>1, <1>2, <1>3, PTL DEF ConcurrentSpec

\* In a behaviour whose undo records stay in step, no frame runs another
\* function's bytecode: not through a torn BindInfo, and not after a rollback.
THEOREM FramesRunTheirFunction ==
    ConcurrentSpec /\ []RecordsInStep => []RunsItsFunction
<1> DEFINE Inv == IInv /\ ConcurrentTypeOK /\ ReadsItsOwn
<1>1. ConcurrentInit => Inv
  BY ConcurrentTypesInit, ReadsItsOwnInit
<1>2. Inv /\ RecordsInStep /\ [ConcurrentNext]_allVars => Inv'
  BY ConcurrentTypesStep, ReadsItsOwnStep
<1>3. Inv => RunsItsFunction
  BY DEF ReadsItsOwn
<1> HIDE DEF Inv
<1> QED BY <1>1, <1>2, <1>3, PTL DEF ConcurrentSpec

\* Patches of at most one entry keep them in step.
THEOREM OneEntryFramesRunTheirFunction ==
    ASSUME OneEntryEach
    PROVE  ConcurrentSpec => []RunsItsFunction
<1> DEFINE Inv == IInv /\ ConcurrentTypeOK /\ ReadsItsOwn /\ RecordsInStep /\ OneEntryLeft
<1>1. ConcurrentInit => Inv
  BY ConcurrentTypesInit, ReadsItsOwnInit DEF OneEntryLeft, ConcurrentInit, Init
<1>2. Inv /\ [ConcurrentNext]_allVars => Inv'
  <2> SUFFICES ASSUME Inv, [ConcurrentNext]_allVars PROVE RecordsInStep' /\ OneEntryLeft'
    BY ConcurrentTypesStep, ReadsItsOwnStep
  <2>1. CASE PatcherStep
    BY <2>1, OneEntryInStep, OneEntryStep DEF PatcherStep, ReadsItsOwn
  <2>2. CASE UNCHANGED vars
    BY <2>2, OwnersSame DEF vars, OneEntryLeft
  <2>3. WriteField \/ (\E t \in Callers : CallerStep(t)) \/ UNCHANGED allVars => UNCHANGED vars
    BY EveryCallerMoves DEF WriteField, Moves, Goes, allVars, vars
  <2> QED BY <2>1, <2>2, <2>3 DEF ConcurrentNext
<1>3. Inv => RunsItsFunction
  BY DEF ReadsItsOwn
<1> HIDE DEF Inv
<1> QED BY <1>1, <1>2, <1>3, PTL DEF ConcurrentSpec

\* Under both conditions, the invariant that the run 'callers' checks.
THEOREM ConcurrentInvariance ==
    ASSUME NothingRemoved, OneEntryEach
    PROVE  ConcurrentSpec => []ConcurrentInv
<1> DEFINE Inv == IInv /\ ConcurrentInv
<1>1. ConcurrentInit => Inv
  BY ConcurrentTypesInit, LookupsFindInit, ReadsItsOwnInit
     DEF ConcurrentInv, OneEntryLeft, ConcurrentInit, Init
<1>2. Inv /\ [ConcurrentNext]_allVars => Inv'
  <2> SUFFICES ASSUME Inv, [ConcurrentNext]_allVars PROVE RecordsInStep' /\ OneEntryLeft'
    BY ConcurrentTypesStep, LookupsFindStep, ReadsItsOwnStep DEF ConcurrentInv
  <2>1. CASE PatcherStep
    BY <2>1, OneEntryInStep, OneEntryStep DEF PatcherStep, ConcurrentInv, ReadsItsOwn
  <2>2. CASE UNCHANGED vars
    BY <2>2, OwnersSame DEF vars, OneEntryLeft, ConcurrentInv
  <2>3. WriteField \/ (\E t \in Callers : CallerStep(t)) \/ UNCHANGED allVars => UNCHANGED vars
    BY EveryCallerMoves DEF WriteField, Moves, Goes, allVars, vars, ConcurrentInv
  <2> QED BY <2>1, <2>2, <2>3 DEF ConcurrentNext
<1>3. Inv => ConcurrentInv
  OBVIOUS
<1> HIDE DEF Inv
<1> QED BY <1>1, <1>2, <1>3, PTL DEF ConcurrentSpec

=============================================================================
