--------------------------- MODULE PatchUndoProofs ---------------------------
(***************************************************************************)
(* A careful program's patches are undone by their rollbacks: proved for   *)
(* any functions, bodies, bindings, slots, manifests and depth.            *)
(*                                                                         *)
(* UndoInv says what the record of an undoable patch holds at every moment *)
(* of ApplyPatch and Rollback; the refinement of UndoStack is read off it, *)
(* one action at a time.  OriginalsFounded follows every binding and every *)
(* bytecode down the records to what the program registered.               *)
(***************************************************************************)
EXTENDS FunctionPatch, PatchManagerProofs

-----------------------------------------------------------------------------
(* Items and their values. *)

LEMMA ItemCases ==
    ASSUME NEW k \in Items
    PROVE  \E f \in FuncIds : k = <<f, "code">> \/ k = <<f, "bind">>
BY DEF Items

LEMMA CodeValue ==
    ASSUME NEW f
    PROVE  CurrentValue(<<f, "code">>) =
              IF f \in DOMAIN functions THEN [code |-> functions[f]] ELSE NoValue
BY DEF CurrentValue

LEMMA BindValue ==
    ASSUME NEW f
    PROVE  CurrentValue(<<f, "bind">>) =
              IF HasWrapper(f) THEN [bind |-> bind_info[GetWrapperForFunc(f)]] ELSE NoValue
BY DEF CurrentValue, HasWrapper

\* Values are told apart by what they are made of.
LEMMA ValuesDiffer ==
    /\ \A a, b : [code |-> a] = [code |-> b] => a = b
    /\ \A a, b : [bind |-> a] = [bind |-> b] => a = b
    /\ \A a : [code |-> a] # NoValue /\ [bind |-> a] # NoValue
<1>1. ASSUME NEW a, NEW b, [code |-> a] = [code |-> b] PROVE a = b
  <2>1. [code |-> a].code = [code |-> b].code
    BY <1>1
  <2> QED BY <2>1
<1>2. ASSUME NEW a, NEW b, [bind |-> a] = [bind |-> b] PROVE a = b
  <2>1. [bind |-> a].bind = [bind |-> b].bind
    BY <1>2
  <2> QED BY <2>1
<1>3. ASSUME NEW a PROVE [code |-> a] # NoValue /\ [bind |-> a] # NoValue
  <2>1. DOMAIN [code |-> a] = {"code"} /\ DOMAIN [bind |-> a] = {"bind"}
        /\ DOMAIN NoValue = {"none"}
    BY DEF NoValue
  <2> QED BY <2>1
<1> QED BY <1>1, <1>2, <1>3

\* What a step leaves alone, by item.
CodeKept(f) == CurrentValue(<<f, "code">>)' = CurrentValue(<<f, "code">>)
BindKept(f) == CurrentValue(<<f, "bind">>)' = CurrentValue(<<f, "bind">>)

LEMMA CodesSame ==
    ASSUME functions' = functions
    PROVE  \A f : CodeKept(f)
BY CodeValue DEF CodeKept, CurrentValue

LEMMA BindsSame ==
    ASSUME UNCHANGED <<tableVars, dispatch_table>>
    PROVE  /\ \A f : BindKept(f)
           /\ \A f : HasWrapper(f)' <=> HasWrapper(f)
<1>1. bind_info' = bind_info /\ dispatch_table' = dispatch_table
  BY DEF tableVars
<1> QED BY <1>1 DEF BindKept, CurrentValue, HasWrapper, GetWrapperForFunc

LEMMA CodePut ==
    ASSUME NEW f, NEW body, functions' = Put(functions, f, body)
    PROVE  /\ CurrentValue(<<f, "code">>)' = [code |-> body]
           /\ \A g : g # f => CodeKept(g)
           /\ \A g : HasBytecode(g) => HasBytecode(g)'
<1>1. /\ DOMAIN functions' = DOMAIN functions \cup {f}
      /\ functions'[f] = body
      /\ \A g \in DOMAIN functions : g # f => functions'[g] = functions[g]
  BY DEF Put
<1> QED BY <1>1 DEF CodeKept, CurrentValue, HasBytecode

LEMMA CodeErased ==
    ASSUME NEW f, functions' = Erase(functions, f)
    PROVE  /\ \A g : g # f => CodeKept(g)
           /\ \A g : HasBytecode(g) /\ g # f => HasBytecode(g)'
<1>1. /\ DOMAIN functions' = DOMAIN functions \ {f}
      /\ \A g \in DOMAIN functions : g # f => functions'[g] = functions[g]
  BY DEF Erase
<1> QED BY <1>1 DEF CodeKept, CurrentValue, HasBytecode

LEMMA BindPut ==
    ASSUME IInv, NEW f \in FuncIds, NEW bind \in BindInfo,
           Rebind(GetWrapperForFunc(f), bind), dispatch_table' = dispatch_table
    PROVE  /\ HasWrapper(f) => CurrentValue(<<f, "bind">>)' = [bind |-> bind]
           /\ \A g : g # f => BindKept(g)
           /\ \A g : HasWrapper(g)' <=> HasWrapper(g)
<1> DEFINE wid == GetWrapperForFunc(f)
<1>1. TableTypeOK
  BY DEF IInv, TypeOK, RuntimeTypeOK
<1>2. /\ \A w \in WrapperIds : w # wid => bind_info'[w] = bind_info[w]
      /\ wid \in UsedSlots => bind_info'[wid] = bind
  BY <1>1, RebindStep
<1>3. \A g : GetWrapperForFunc(g)' = GetWrapperForFunc(g)
  BY DEF GetWrapperForFunc
<1>4. \A g : HasWrapper(g)' <=> HasWrapper(g)
  BY <1>3 DEF HasWrapper
<1>5. ASSUME HasWrapper(f) PROVE CurrentValue(<<f, "bind">>)' = [bind |-> bind]
  <2>1. wid \in UsedSlots /\ wid \in WrapperIds
    BY <1>5, FoundSlot DEF HasWrapper
  <2> QED BY <1>2, <1>3, <2>1 DEF CurrentValue
<1>6. ASSUME NEW g, g # f PROVE BindKept(g)
  <2>1. CASE HasWrapper(g)
    <3>1. GetWrapperForFunc(g) # wid
      <4> SUFFICES ASSUME GetWrapperForFunc(g) = wid PROVE FALSE
        OBVIOUS
      <4>1. /\ f \in DOMAIN dispatch_table /\ g \in DOMAIN dispatch_table
            /\ dispatch_table[f] = dispatch_table[g] /\ dispatch_table[f] \in WrapperIds
        BY <2>1, FoundSlot DEF HasWrapper
      <4>2. dispatch_table[f] # kInvalidWrapperId
        BY <4>1, WrapperTableAssumption DEF WrapperIds
      <4> QED BY <1>6, <4>1, <4>2 DEF IInv, DispatchSound
    <3> QED BY <1>2, <1>3, <2>1, <3>1 DEF BindKept, CurrentValue, HasWrapper
  <2>2. CASE ~ HasWrapper(g)
    BY <1>3, <2>2 DEF BindKept, CurrentValue, HasWrapper
  <2> QED BY <2>1, <2>2
<1> QED BY <1>4, <1>5, <1>6

LEMMA BindRegistered ==
    ASSUME IInv, NEW f \in FuncIds, NEW fn \in NativeFns, NEW sig \in Sigs,
           RegisterNativeFunction(f, fn, sig)
    PROVE  /\ \A g : g # f => BindKept(g)
           /\ \A g : HasWrapper(g) => HasWrapper(g)'
           /\ \/ BindKept(f)
              \/ CurrentValue(<<f, "bind">>)' = [bind |-> NativeBind(f, fn, sig)]
<1> DEFINE bind == NativeBind(f, fn, sig)
<1>1. bind \in BindInfo
  BY DEF NativeBind, BindInfo, DispatchMode
<1>2. TableTypeOK
  BY DEF IInv, TypeOK, RuntimeTypeOK
<1>3. /\ Alloc(bind)
      /\ dispatch_table' = IF AllocResult # kInvalidWrapperId
                           THEN Put(dispatch_table, f, AllocResult)
                           ELSE dispatch_table
  BY DEF RegisterNativeFunction
<1> HIDE DEF bind
<1>4. /\ \A w \in UsedSlots : bind_info'[w] = bind_info[w]
      /\ AllocResult \in WrapperIds => bind_info'[AllocResult] = bind
      /\ AllocResult # kInvalidWrapperId => AllocResult \in WrapperIds
  BY <1>1, <1>2, <1>3, AllocStep, AllocResultFree
<1>5. \A g : g # f => GetWrapperForFunc(g)' = GetWrapperForFunc(g)
  BY <1>3 DEF GetWrapperForFunc, Put
<1>6. \A g : HasWrapper(g) => GetWrapperForFunc(g) \in UsedSlots
  BY FoundSlot DEF HasWrapper
<1>7. ASSUME NEW g, GetWrapperForFunc(g)' = GetWrapperForFunc(g)
      PROVE  BindKept(g) /\ (HasWrapper(g) => HasWrapper(g)')
  BY <1>4, <1>6, <1>7 DEF BindKept, CurrentValue, HasWrapper
<1>8. CASE AllocResult = kInvalidWrapperId
  <2>1. GetWrapperForFunc(f)' = GetWrapperForFunc(f)
    BY <1>3, <1>8 DEF GetWrapperForFunc
  <2> QED BY <1>5, <1>7, <2>1
<1>9. CASE AllocResult # kInvalidWrapperId
  <2>1. GetWrapperForFunc(f)' = AllocResult /\ AllocResult \in WrapperIds
    BY <1>3, <1>4, <1>9 DEF GetWrapperForFunc, Put
  <2>2. HasWrapper(f)' /\ CurrentValue(<<f, "bind">>)' = [bind |-> bind]
    BY <1>4, <2>1 DEF HasWrapper, CurrentValue
  <2> QED BY <1>5, <1>7, <2>2 DEF bind
<1> QED BY <1>8, <1>9

-----------------------------------------------------------------------------
(* What a record saved. *)

LEMMA RecordTypes ==
    ASSUME NEW rec \in PatchRecord, Aligned(rec)
    PROVE  /\ rec.modified_funcs \in Seq(FuncIds)
           /\ rec.old_bytecodes \in Seq(VmFunction)
           /\ rec.old_binds \in Seq(BindInfo)
           /\ DOMAIN rec.old_bytecodes = DOMAIN rec.modified_funcs
           /\ DOMAIN rec.old_binds \subseteq DOMAIN rec.modified_funcs
           /\ \A i \in DOMAIN rec.modified_funcs : rec.modified_funcs[i] \in FuncIds
<1>1. /\ rec.modified_funcs \in Seq(FuncIds) /\ rec.old_bytecodes \in Seq(VmFunction)
      /\ rec.old_binds \in Seq(BindInfo)
  BY DEF PatchRecord
<1> QED BY <1>1 DEF Aligned

LEMMA SavedCode ==
    ASSUME NEW rec \in PatchRecord, Aligned(rec), NEW i \in DOMAIN rec.modified_funcs
    PROVE  /\ <<rec.modified_funcs[i], "code">> \in SavedItems(rec)
           /\ SavedValue(rec, <<rec.modified_funcs[i], "code">>)
                = [code |-> rec.old_bytecodes[i].body]
<1> DEFINE f == rec.modified_funcs[i]
           Is(j) == rec.old_bytecodes[j].func_id = f
           c == CHOOSE j \in DOMAIN rec.old_bytecodes : Is(j)
<1>1. i \in DOMAIN rec.old_bytecodes /\ Is(i)
  BY RecordTypes DEF Aligned
<1>2. c \in DOMAIN rec.old_bytecodes /\ Is(c)
  BY <1>1
<1>3. c = i
  BY <1>2, RecordTypes DEF Aligned
<1>4. SavedValue(rec, <<f, "code">>) = [code |-> rec.old_bytecodes[c].body]
  BY DEF SavedValue
<1> QED BY <1>1, <1>3, <1>4 DEF SavedItems

LEMMA SavedBinding ==
    ASSUME NEW rec \in PatchRecord, Aligned(rec), NEW i \in DOMAIN rec.old_binds
    PROVE  /\ <<rec.modified_funcs[i], "bind">> \in SavedItems(rec)
           /\ SavedValue(rec, <<rec.modified_funcs[i], "bind">>) = [bind |-> rec.old_binds[i]]
<1> DEFINE f == rec.modified_funcs[i]
           Is(j) == rec.old_binds[j].func_id = f
           c == CHOOSE j \in DOMAIN rec.old_binds : Is(j)
<1>1. Is(i)
  BY DEF Aligned
<1>2. c \in DOMAIN rec.old_binds /\ Is(c)
  BY <1>1
<1>3. c = i
  BY <1>2, RecordTypes DEF Aligned
<1>4. SavedValue(rec, <<f, "bind">>) = [bind |-> rec.old_binds[c]]
  BY DEF SavedValue
<1> QED BY <1>1, <1>3, <1>4 DEF SavedItems

\* Nothing else is saved.
LEMMA SavedOnly ==
    ASSUME NEW rec \in PatchRecord, Aligned(rec), NEW k \in SavedItems(rec)
    PROVE  /\ k \in Items
           /\ \/ \E i \in DOMAIN rec.modified_funcs : k = <<rec.modified_funcs[i], "code">>
              \/ \E i \in DOMAIN rec.old_binds : k = <<rec.modified_funcs[i], "bind">>
<1>1. CASE \E i \in DOMAIN rec.old_bytecodes : k = <<rec.old_bytecodes[i].func_id, "code">>
  <2>1. PICK i \in DOMAIN rec.modified_funcs : k = <<rec.modified_funcs[i], "code">>
    BY <1>1, RecordTypes DEF Aligned
  <2> QED BY <2>1, RecordTypes DEF Items
<1>2. CASE \E i \in DOMAIN rec.old_binds : k = <<rec.old_binds[i].func_id, "bind">>
  <2>1. PICK i \in DOMAIN rec.old_binds : k = <<rec.modified_funcs[i], "bind">>
    BY <1>2 DEF Aligned
  <2> QED BY <2>1, RecordTypes DEF Items
<1> QED BY <1>1, <1>2 DEF SavedItems

\* A record that extends another saved the same for what the other is about.
LEMMA SavedExtends ==
    ASSUME NEW rec \in PatchRecord, Aligned(rec), NEW new \in PatchRecord, Aligned(new),
           DOMAIN rec.modified_funcs \subseteq DOMAIN new.modified_funcs,
           DOMAIN rec.old_binds \subseteq DOMAIN new.old_binds,
           \A i \in DOMAIN rec.modified_funcs :
              /\ new.modified_funcs[i] = rec.modified_funcs[i]
              /\ new.old_bytecodes[i] = rec.old_bytecodes[i],
           \A i \in DOMAIN rec.old_binds : new.old_binds[i] = rec.old_binds[i]
    PROVE  \A k \in SavedItems(rec) :
              k \in SavedItems(new) /\ SavedValue(new, k) = SavedValue(rec, k)
<1> SUFFICES ASSUME NEW k \in SavedItems(rec)
             PROVE  k \in SavedItems(new) /\ SavedValue(new, k) = SavedValue(rec, k)
  OBVIOUS
<1>1. CASE \E i \in DOMAIN rec.modified_funcs : k = <<rec.modified_funcs[i], "code">>
  <2>1. PICK i \in DOMAIN rec.modified_funcs : k = <<rec.modified_funcs[i], "code">>
    BY <1>1
  <2>2. SavedValue(rec, k) = [code |-> rec.old_bytecodes[i].body]
    BY <2>1, SavedCode
  <2>3. i \in DOMAIN new.modified_funcs /\ k = <<new.modified_funcs[i], "code">>
    BY <2>1
  <2>4. k \in SavedItems(new) /\ SavedValue(new, k) = [code |-> new.old_bytecodes[i].body]
    BY <2>3, SavedCode
  <2> QED BY <2>2, <2>4
<1>2. CASE \E i \in DOMAIN rec.old_binds : k = <<rec.modified_funcs[i], "bind">>
  <2>1. PICK i \in DOMAIN rec.old_binds : k = <<rec.modified_funcs[i], "bind">>
    BY <1>2
  <2>2. SavedValue(rec, k) = [bind |-> rec.old_binds[i]] /\ i \in DOMAIN rec.modified_funcs
    BY <2>1, SavedBinding, RecordTypes
  <2>3. i \in DOMAIN new.old_binds /\ k = <<new.modified_funcs[i], "bind">>
    BY <2>1, <2>2
  <2>4. k \in SavedItems(new) /\ SavedValue(new, k) = [bind |-> new.old_binds[i]]
    BY <2>3, SavedBinding
  <2> QED BY <2>1, <2>2, <2>4
<1> QED BY <1>1, <1>2, SavedOnly

\* A record with empty vectors saved nothing.
LEMMA SavedNothing ==
    ASSUME NEW v
    PROVE  /\ SavedItems(NewRecord(v)) = {}
           /\ Aligned(NewRecord(v))
           /\ NewRecord(v).modified_funcs = <<>> /\ NewRecord(v).old_binds = <<>>
           /\ NewRecord(v).old_bytecodes = <<>>
<1>1. /\ NewRecord(v).modified_funcs = <<>> /\ NewRecord(v).old_binds = <<>>
      /\ NewRecord(v).old_bytecodes = <<>>
  BY DEF NewRecord
<1> QED BY <1>1 DEF SavedItems, Aligned

\* One more function in a record, with its bytecode and perhaps its binding.
OneMore(rec, new, f, code) ==
    /\ new.modified_funcs = Append(rec.modified_funcs, f)
    /\ new.old_bytecodes = Append(rec.old_bytecodes, code)
    /\ \/ new.old_binds = rec.old_binds
       \/ /\ Len(rec.old_binds) = Len(rec.modified_funcs)
          /\ \E bind \in BindInfo : /\ bind.func_id = f
                                   /\ new.old_binds = Append(rec.old_binds, bind)

LEMMA AlignedExtends ==
    ASSUME NEW rec \in PatchRecord, Aligned(rec), NEW new \in PatchRecord,
           NEW f \in FuncIds, NEW code \in VmFunction, code.func_id = f,
           \A i \in DOMAIN rec.modified_funcs : rec.modified_funcs[i] # f,
           OneMore(rec, new, f, code)
    PROVE  /\ Aligned(new)
           /\ DOMAIN rec.modified_funcs \subseteq DOMAIN new.modified_funcs
           /\ DOMAIN rec.old_binds \subseteq DOMAIN new.old_binds
           /\ \A i \in DOMAIN rec.modified_funcs :
                 /\ new.modified_funcs[i] = rec.modified_funcs[i]
                 /\ new.old_bytecodes[i] = rec.old_bytecodes[i]
           /\ \A i \in DOMAIN rec.old_binds : new.old_binds[i] = rec.old_binds[i]
<1> DEFINE n == Len(rec.modified_funcs)
<1>1. /\ rec.modified_funcs \in Seq(FuncIds) /\ rec.old_bytecodes \in Seq(VmFunction)
      /\ rec.old_binds \in Seq(BindInfo)
      /\ n \in Nat /\ Len(rec.old_bytecodes) = n /\ Len(rec.old_binds) \in Nat
      /\ Len(rec.old_binds) <= n
  BY RecordTypes DEF Aligned
<1>2. /\ Len(new.modified_funcs) = n + 1 /\ DOMAIN new.modified_funcs = 1 .. n + 1
      /\ new.modified_funcs[n + 1] = f
      /\ \A i \in 1 .. n : new.modified_funcs[i] = rec.modified_funcs[i]
      /\ Len(new.old_bytecodes) = n + 1
      /\ new.old_bytecodes[n + 1] = code
      /\ \A i \in 1 .. n : new.old_bytecodes[i] = rec.old_bytecodes[i]
  BY <1>1 DEF OneMore
<1>3. /\ DOMAIN rec.modified_funcs = 1 .. n /\ DOMAIN rec.old_bytecodes = 1 .. n
      /\ DOMAIN rec.old_binds = 1 .. Len(rec.old_binds)
  BY <1>1
<1> DEFINE BindsExtend ==
              /\ Len(new.old_binds) <= n + 1
              /\ DOMAIN rec.old_binds \subseteq DOMAIN new.old_binds
              /\ \A i \in DOMAIN rec.old_binds : new.old_binds[i] = rec.old_binds[i]
              /\ \A i \in DOMAIN new.old_binds :
                    i \in DOMAIN rec.old_binds \/ (i = n + 1 /\ new.old_binds[i].func_id = f)
<1>4. BindsExtend
  <2>1. CASE new.old_binds = rec.old_binds
    <3>1. Len(new.old_binds) <= n + 1
      BY <1>1, <2>1
    <3> QED BY <2>1, <3>1
  <2>2. ASSUME Len(rec.old_binds) = n, NEW bind \in BindInfo, bind.func_id = f,
               new.old_binds = Append(rec.old_binds, bind)
        PROVE  BindsExtend
    <3>1. /\ DOMAIN new.old_binds = DOMAIN rec.old_binds \cup {n + 1}
          /\ new.old_binds[n + 1] = bind
          /\ \A i \in DOMAIN rec.old_binds : new.old_binds[i] = rec.old_binds[i]
      BY <1>1, <2>2, AppendElements
    <3>2. Len(new.old_binds) = n + 1
      BY <1>1, <2>2
    <3>3. Len(new.old_binds) <= n + 1
      BY <1>1, <3>2
    <3> QED BY <2>2, <3>1, <3>3
  <2> QED BY <2>1, <2>2 DEF OneMore
<1> HIDE DEF n
<1>5. \A i \in DOMAIN new.modified_funcs :
         new.old_bytecodes[i].func_id = new.modified_funcs[i]
  BY <1>1, <1>2, <1>3 DEF Aligned
<1>6. \A i \in DOMAIN new.old_binds : new.old_binds[i].func_id = new.modified_funcs[i]
  BY <1>2, <1>3, <1>4, RecordTypes DEF Aligned
<1>7. \A i, j \in DOMAIN new.modified_funcs :
         new.modified_funcs[i] = new.modified_funcs[j] => i = j
  <2>1. \A i \in 1 .. n + 1 : i \in 1 .. n \/ i = n + 1
    BY <1>1
  <2> QED BY <1>2, <1>3, <2>1 DEF Aligned
<1>8. Aligned(new)
  BY <1>1, <1>2, <1>4, <1>5, <1>6, <1>7 DEF Aligned
<1>9. DOMAIN rec.modified_funcs \subseteq DOMAIN new.modified_funcs
  BY <1>1, <1>2, <1>3
<1> QED BY <1>2, <1>3, <1>4, <1>8, <1>9

\* The bytecode of the one more function is saved.
LEMMA OneMoreCode ==
    ASSUME NEW rec \in PatchRecord, Aligned(rec), NEW new \in PatchRecord,
           NEW f \in FuncIds, NEW code \in VmFunction, code.func_id = f,
           \A i \in DOMAIN rec.modified_funcs : rec.modified_funcs[i] # f,
           OneMore(rec, new, f, code)
    PROVE  /\ <<f, "code">> \in SavedItems(new)
           /\ SavedValue(new, <<f, "code">>) = [code |-> code.body]
<1> DEFINE n == Len(rec.modified_funcs)
<1>1. /\ rec.modified_funcs \in Seq(FuncIds) /\ rec.old_bytecodes \in Seq(VmFunction)
      /\ n \in Nat /\ Len(rec.old_bytecodes) = n
  BY RecordTypes DEF Aligned
<1>2. Aligned(new)
  BY AlignedExtends
<1>3. /\ n + 1 \in DOMAIN new.modified_funcs
      /\ new.modified_funcs[n + 1] = f
      /\ new.old_bytecodes[n + 1] = code
  BY <1>1, AppendElements DEF OneMore
<1> HIDE DEF n
<1> QED BY <1>2, <1>3, SavedCode

\* What the record with one more function saved.
LEMMA OneMoreSaves ==
    ASSUME NEW rec \in PatchRecord, Aligned(rec), NEW new \in PatchRecord,
           NEW f \in FuncIds, NEW code \in VmFunction, code.func_id = f,
           \A i \in DOMAIN rec.modified_funcs : rec.modified_funcs[i] # f,
           OneMore(rec, new, f, code)
    PROVE  /\ \A k \in SavedItems(rec) :
                 k \in SavedItems(new) /\ SavedValue(new, k) = SavedValue(rec, k)
           /\ <<f, "code">> \in SavedItems(new)
           /\ SavedValue(new, <<f, "code">>) = [code |-> code.body]
           /\ \A bind \in BindInfo :
                 new.old_binds = Append(rec.old_binds, bind) =>
                    /\ <<f, "bind">> \in SavedItems(new)
                    /\ SavedValue(new, <<f, "bind">>) = [bind |-> bind]
           /\ \A k \in SavedItems(new) :
                 \/ k \in SavedItems(rec)
                 \/ k = <<f, "code">>
                 \/ k = <<f, "bind">> /\ new.old_binds # rec.old_binds
<1> DEFINE n == Len(rec.modified_funcs)
<1>1. /\ rec.modified_funcs \in Seq(FuncIds) /\ rec.old_bytecodes \in Seq(VmFunction)
      /\ rec.old_binds \in Seq(BindInfo)
      /\ n \in Nat /\ Len(rec.old_bytecodes) = n
      /\ DOMAIN rec.old_bytecodes = DOMAIN rec.modified_funcs
  BY RecordTypes DEF Aligned
<1>2. /\ Aligned(new)
      /\ \A k \in SavedItems(rec) :
            k \in SavedItems(new) /\ SavedValue(new, k) = SavedValue(rec, k)
  BY AlignedExtends, SavedExtends
<1>3. /\ DOMAIN new.modified_funcs = DOMAIN rec.modified_funcs \cup {n + 1}
      /\ new.modified_funcs[n + 1] = f
      /\ \A i \in DOMAIN rec.modified_funcs : new.modified_funcs[i] = rec.modified_funcs[i]
  BY <1>1, AppendElements DEF OneMore
<1>5. /\ <<f, "code">> \in SavedItems(new)
      /\ SavedValue(new, <<f, "code">>) = [code |-> code.body]
  BY OneMoreCode
<1>6. ASSUME NEW bind \in BindInfo, new.old_binds = Append(rec.old_binds, bind)
      PROVE  /\ <<f, "bind">> \in SavedItems(new)
             /\ SavedValue(new, <<f, "bind">>) = [bind |-> bind]
  <2>1. new.old_binds # rec.old_binds
    BY <1>1, <1>6
  <2>2. Len(rec.old_binds) = n
    BY <2>1 DEF OneMore
  <2>3. n + 1 \in DOMAIN new.old_binds /\ new.old_binds[n + 1] = bind
    BY <1>1, <1>6, <2>2, AppendElements
  <2> HIDE DEF n
  <2> QED BY <1>2, <1>3, <2>3, SavedBinding
<1>7. ASSUME NEW k \in SavedItems(new)
      PROVE  \/ k \in SavedItems(rec)
             \/ k = <<f, "code">>
             \/ k = <<f, "bind">> /\ new.old_binds # rec.old_binds
  <2>1. CASE \E i \in DOMAIN new.modified_funcs : k = <<new.modified_funcs[i], "code">>
    <3>1. PICK i \in DOMAIN new.modified_funcs : k = <<new.modified_funcs[i], "code">>
      BY <2>1
    <3>2. CASE i \in DOMAIN rec.modified_funcs
      BY <1>3, <3>1, <3>2, SavedCode
    <3>3. CASE i = n + 1
      BY <1>3, <3>1, <3>3
    <3> QED BY <1>3, <3>2, <3>3
  <2>2. CASE \E i \in DOMAIN new.old_binds : k = <<new.modified_funcs[i], "bind">>
    <3>1. PICK i \in DOMAIN new.old_binds : k = <<new.modified_funcs[i], "bind">>
      BY <2>2
    <3>2. CASE i \in DOMAIN rec.old_binds
      <4>1. k = <<rec.modified_funcs[i], "bind">>
        BY <1>3, <3>1, <3>2, RecordTypes
      <4> QED BY <3>2, <4>1, SavedBinding
    <3>3. CASE i \notin DOMAIN rec.old_binds
      <4>1. new.old_binds # rec.old_binds
        BY <3>3
      <4>2. PICK bind \in BindInfo : /\ new.old_binds = Append(rec.old_binds, bind)
                                     /\ Len(rec.old_binds) = n
        BY <4>1 DEF OneMore
      <4>3. i = n + 1
        BY <1>1, <3>1, <3>3, <4>2, AppendElements
      <4> QED BY <1>3, <3>1, <4>1, <4>3
    <3> QED BY <3>2, <3>3
  <2> QED BY <1>2, <2>1, <2>2, SavedOnly
<1> QED BY <1>2, <1>5, <1>6, <1>7

-----------------------------------------------------------------------------
(* The records of the patches, and the entries that are left. *)

\* Every record after a step was there before, or is the open one.
LEMMA LayerStep ==
    ASSUME IInv, Next
    PROVE  /\ Len(history') \in Nat
           /\ \A n \in Layers' :
                 \/ n \in Layers /\ n <= Len(history') /\ n <= Len(history) /\ Layer(n)' = Layer(n)
                 \/ n \in Layers /\ n <= Len(history') /\ n = Len(history) + 1
                    /\ Layer(n)' = record /\ Layer(n) = record
                 \/ n = Len(history') + 1 /\ Layer(n)' = record'
<1>1. history \in Seq(PatchRecord) /\ record \in PatchRecord
  BY DEF IInv, TypeOK
<1>2. ASSUME NEW n \in Layers', n = Len(history') + 1, Len(history') \in Nat
      PROVE  Layer(n)' = record'
  BY <1>2 DEF Layer
<1>3. CASE history' = history
  BY <1>1, <1>2, <1>3 DEF Layers, Layer
<1>4. CASE history' = Append(history, record)
  <2>1. /\ Len(history') = Len(history) + 1 /\ Len(history) \in Nat
        /\ history'[Len(history) + 1] = record
        /\ \A n \in 1 .. Len(history) : history'[n] = history[n]
    BY <1>1, <1>4
  <2> QED BY <1>2, <2>1 DEF Layers, Layer
<1>5. CASE history # <<>> /\ history' = SubSeq(history, 1, Len(history) - 1)
  <2>1. Len(history) # 0 /\ Len(history) \in Nat
    BY <1>1, <1>5
  <2>2. /\ Len(history') = Len(history) - 1
        /\ \A n \in 1 .. Len(history') : history'[n] = history[n]
    BY <1>1, <1>5, <2>1, PopBack
  <2> QED BY <1>2, <2>1, <2>2 DEF Layers, Layer
<1> QED BY <1>3, <1>4, <1>5, HistoryStep

LEMMA LayerTypes ==
    ASSUME IInv
    PROVE  /\ Len(history) \in Nat
           /\ \A n \in Layers : Layer(n) \in PatchRecord
           /\ Len(history) + 1 \in Layers /\ Layer(Len(history) + 1) = record
           /\ \A n \in DOMAIN history : n \in Layers /\ Layer(n) = history[n]
<1>1. history \in Seq(PatchRecord) /\ record \in PatchRecord
  BY DEF IInv, TypeOK
<1> QED BY <1>1 DEF Layers, Layer

LEMMA CompleteIsInStep ==
    ASSUME IInv, RecordsComplete
    PROVE  RecordsInStep
<1>1. \A n \in Layers : InStep(Layer(n))
  BY DEF RecordsComplete, RecordComplete, Aligned, InStep
<1> QED BY <1>1, LayerTypes DEF RecordsInStep

\* The records stay complete if the open one does and no wrapper is lost.
LEMMA RecordsStayComplete ==
    ASSUME IInv, RecordsComplete, Next,
           \A f : HasWrapper(f) => HasWrapper(f)',
           record' # record => RecordComplete(record)'
    PROVE  RecordsComplete'
<1>1. ASSUME NEW n \in Layers, Layer(n)' = Layer(n) PROVE RecordComplete(Layer(n))'
  BY <1>1 DEF RecordsComplete, RecordComplete, Aligned
<1>2. ASSUME NEW n \in Layers', Layer(n)' = record' PROVE RecordComplete(Layer(n))'
  <2>1. CASE record' # record
    BY <1>2, <2>1 DEF RecordComplete, Aligned
  <2>2. CASE record' = record
    <3>1. RecordComplete(record)
      BY LayerTypes DEF RecordsComplete
    <3> QED BY <1>2, <2>2, <3>1 DEF RecordComplete, Aligned
  <2> QED BY <2>1, <2>2
<1>3. ASSUME NEW n \in Layers' PROVE RecordComplete(Layer(n))'
  BY <1>1, <1>2, LayerStep
<1> QED BY <1>3 DEF RecordsComplete

LEMMA UndoableMeans ==
    ASSUME NEW manifest
    PROVE  Undoable(manifest) <=>
             /\ \A i \in 1 .. Len(manifest) :
                   /\ HasBytecode(manifest[i].func_id)
                   /\ manifest[i].action = kModified => HasWrapper(manifest[i].func_id)
                   /\ manifest[i].action \in {kModified, kRemoved}
             /\ \A i, j \in 1 .. Len(manifest) : i < j =>
                   /\ manifest[i].func_id # manifest[j].func_id
                   /\ manifest[j].action = kModified => manifest[i].action = kModified
BY DEF Undoable

\* The entry that ApplyPatch is at.
LEMMA EntryAtHand ==
    ASSUME IInv, RecordsComplete, RestIsUndoable, NEW action, AtEntry(action)
    PROVE  /\ action \in {kModified, kRemoved}
           /\ Head(todo) = todo[1] /\ 1 \in DOMAIN todo /\ todo \in Seq(PatchEntry)
           /\ Head(todo).func_id \in FuncIds /\ Head(todo).body \in Bodies
           /\ HasBytecode(Head(todo).func_id)
           /\ action = kModified => /\ HasWrapper(Head(todo).func_id)
                                    /\ Len(record.old_binds) = Len(record.modified_funcs)
           /\ \A j \in DOMAIN record.modified_funcs : record.modified_funcs[j] # Head(todo).func_id
           /\ record \in PatchRecord /\ Aligned(record)
<1>1. pc = "apply" /\ todo # <<>> /\ Head(todo).action = action
  BY DEF AtEntry
<1>2. todo \in Seq(PatchEntry) /\ record \in PatchRecord
  BY DEF IInv, TypeOK
<1>3. Head(todo) = todo[1] /\ 1 \in DOMAIN todo /\ 1 \in 1 .. Len(todo)
  BY <1>1, <1>2
<1>4. Head(todo) \in PatchEntry
  BY <1>2, <1>3
<1>5. Aligned(record)
  BY LayerTypes DEF RecordsComplete, RecordComplete
<1> QED BY <1>1, <1>2, <1>3, <1>4, <1>5 DEF RestIsUndoable, Undoable, PatchEntry

\* What is left is undoable after it.
LEMMA RestStaysUndoable ==
    ASSUME IInv, RecordsComplete, RestIsUndoable, NEW action, AtEntry(action), NextEntry,
           record'.modified_funcs = Append(record.modified_funcs, Head(todo).func_id),
           action = kModified => Len(record'.old_binds) = Len(record.old_binds) + 1,
           \A g : g # Head(todo).func_id /\ HasBytecode(g) => HasBytecode(g)',
           \A g : HasWrapper(g) => HasWrapper(g)'
    PROVE  RestIsUndoable'
<1> DEFINE f == Head(todo).func_id
<1>1. /\ action \in {kModified, kRemoved} /\ Head(todo) = todo[1] /\ todo \in Seq(PatchEntry)
      /\ 1 \in DOMAIN todo /\ f \in FuncIds /\ record \in PatchRecord
      /\ action = kModified => Len(record.old_binds) = Len(record.modified_funcs)
  BY EntryAtHand
<1>2. pc = "apply" /\ todo # <<>> /\ todo' = Tail(todo) /\ Head(todo).action = action
  BY DEF AtEntry, NextEntry
<1>3. /\ todo' \in Seq(PatchEntry) /\ Len(todo') = Len(todo) - 1
      /\ \A i \in 1 .. Len(todo') : todo'[i] = todo[i + 1]
      /\ Len(todo) \in Nat \ {0} /\ DOMAIN todo = 1 .. Len(todo) /\ DOMAIN todo' = 1 .. Len(todo')
  BY <1>1, <1>2, HeadTailProperties
<1>4. \A i \in 1 .. Len(todo') : /\ i + 1 \in 1 .. Len(todo) /\ 1 < i + 1
                                 /\ todo'[i] = todo[i + 1]
  BY <1>3
<1>5. Undoable(todo)
  BY <1>2 DEF RestIsUndoable
<1>6. \A i \in 1 .. Len(todo') : todo'[i].func_id # f
  BY <1>1, <1>3, <1>4, <1>5 DEF Undoable
<1>7. Undoable(todo)'
  <2>1. ASSUME NEW i \in 1 .. Len(todo'), NEW g, g = todo'[i].func_id
        PROVE  /\ HasBytecode(g)'
               /\ todo'[i].action = kModified => HasWrapper(g)'
               /\ todo'[i].action \in {kModified, kRemoved}
    <3>1. i + 1 \in 1 .. Len(todo) /\ todo'[i] = todo[i + 1] /\ g # f
      BY <1>4, <1>6, <2>1
    <3>2. /\ HasBytecode(todo[i + 1].func_id)
          /\ todo[i + 1].action = kModified => HasWrapper(todo[i + 1].func_id)
          /\ todo[i + 1].action \in {kModified, kRemoved}
      BY <1>5, <3>1, UndoableMeans
    <3>3. HasBytecode(g) /\ (todo'[i].action = kModified => HasWrapper(g))
      BY <2>1, <3>1, <3>2
    <3> QED BY <3>1, <3>2, <3>3
  <2>2. \A i, j \in 1 .. Len(todo') : i < j =>
           /\ todo'[i].func_id # todo'[j].func_id
           /\ todo'[j].action = kModified => todo'[i].action = kModified
    <3> SUFFICES ASSUME NEW i \in 1 .. Len(todo'), NEW j \in 1 .. Len(todo'), i < j
                 PROVE  /\ todo'[i].func_id # todo'[j].func_id
                        /\ todo'[j].action = kModified => todo'[i].action = kModified
      OBVIOUS
    <3>1. /\ i + 1 \in 1 .. Len(todo) /\ j + 1 \in 1 .. Len(todo) /\ i + 1 < j + 1
          /\ todo'[i] = todo[i + 1] /\ todo'[j] = todo[j + 1]
      BY <1>4
    <3> QED BY <1>5, <3>1, UndoableMeans
  <2> QED BY <2>1, <2>2 DEF Undoable, HasBytecode, HasWrapper, GetWrapperForFunc
<1>8. /\ Len(record'.modified_funcs) = Len(record.modified_funcs) + 1
      /\ \A j \in DOMAIN record'.modified_funcs :
            \/ j \in DOMAIN record.modified_funcs
               /\ record'.modified_funcs[j] = record.modified_funcs[j]
            \/ record'.modified_funcs[j] = f
  <2>1. record.modified_funcs \in Seq(FuncIds)
    BY <1>1 DEF PatchRecord
  <2> HIDE DEF f
  <2>2. record'.modified_funcs = Append(record.modified_funcs, f)
    BY DEF f
  <2> QED BY <1>1, <2>1, <2>2
<1>9. \A i \in DOMAIN todo', j \in DOMAIN record'.modified_funcs :
         todo'[i].func_id # record'.modified_funcs[j]
  <2>1. \A i \in DOMAIN todo' : i + 1 \in DOMAIN todo /\ todo'[i] = todo[i + 1]
    BY <1>3, <1>4
  <2> QED BY <1>2, <1>3, <1>6, <1>8, <2>1 DEF RestIsUndoable
<1>10. ASSUME NEW i \in DOMAIN todo', todo'[i].action = kModified
       PROVE  Len(record'.old_binds) = Len(record'.modified_funcs)
  <2>1. action = kModified
    <3>1. i + 1 \in 1 .. Len(todo) /\ 1 \in 1 .. Len(todo) /\ 1 < i + 1
          /\ todo[i + 1].action = kModified
      BY <1>3, <1>4, <1>10
    <3> QED BY <1>1, <1>2, <1>5, <3>1 DEF Undoable
  <2> QED BY <1>1, <1>8, <2>1
<1> QED BY <1>7, <1>9, <1>10 DEF RestIsUndoable

-----------------------------------------------------------------------------
(* The entries of a patch, one at a time. *)

\* An entry of f changes only values that its record has saved.
EntryApplied(f) ==
    /\ f \in FuncIds
    /\ record' \in PatchRecord /\ Aligned(record')
    /\ \A k \in SavedItems(record) :
          k \in SavedItems(record') /\ SavedValue(record', k) = SavedValue(record, k)
    /\ \A k \in SavedItems(record') :
          k \in SavedItems(record) \/ SavedValue(record', k) = CurrentValue(k)
    /\ \A k \in Items : k \in SavedItems(record') \/ CurrentValue(k)' = CurrentValue(k)
    /\ RecordComplete(record)'
    /\ RestIsUndoable'
    /\ \A g : HasWrapper(g)' <=> HasWrapper(g)

\* The saves of a function that has bytecode.
LEMMA CodeIsSaved ==
    ASSUME IInv, NEW f \in FuncIds, HasBytecode(f)
    PROVE  LET code == [func_id |-> f, body |-> functions[f]]
           IN  /\ code \in VmFunction
               /\ SaveBytecode(record, f).modified_funcs = Append(record.modified_funcs, f)
               /\ SaveBytecode(record, f).old_bytecodes = Append(record.old_bytecodes, code)
               /\ SaveBytecode(record, f).old_binds = record.old_binds
               /\ SaveBytecode(record, f) \in PatchRecord
<1>1. record \in PatchRecord /\ RuntimeTypeOK
  BY DEF IInv, TypeOK
<1>2. functions[f] \in Bodies
  BY <1>1, MapApply DEF RuntimeTypeOK, HasBytecode
<1>3. SaveBytecode(record, f) \in PatchRecord
  BY <1>1, SaveBytecodeStep
<1>4. SaveBytecode(record, f) =
         [record EXCEPT !.modified_funcs = Append(@, f),
                        !.old_bytecodes = Append(@, [func_id |-> f, body |-> functions[f]])]
  BY DEF SaveBytecode, HasBytecode
<1> QED BY <1>1, <1>2, <1>3, <1>4 DEF PatchRecord, VmFunction

LEMMA ModifiedApplies ==
    ASSUME IInv, UndoInv, ApplyModified
    PROVE  EntryApplied(Head(todo).func_id)
<1> DEFINE f == Head(todo).func_id
           body == Head(todo).body
           wid == GetWrapperForFunc(f)
           code == [func_id |-> f, body |-> functions[f]]
           bind == bind_info[wid]
<1>1. /\ AtEntry(kModified) /\ NextEntry
      /\ record' = SaveBind(SaveBytecode(record, f), wid)
      /\ functions' = Put(functions, f, body)
      /\ Rebind(wid, VmBind(f, body)) /\ dispatch_table' = dispatch_table
  BY DEF ApplyModified, RegisterFunction
<1>2. /\ f \in FuncIds /\ body \in Bodies /\ HasBytecode(f) /\ HasWrapper(f)
      /\ Len(record.old_binds) = Len(record.modified_funcs)
      /\ \A j \in DOMAIN record.modified_funcs : record.modified_funcs[j] # f
      /\ record \in PatchRecord /\ Aligned(record)
  BY <1>1, EntryAtHand DEF UndoInv
<1>3. RuntimeTypeOK /\ TableTypeOK
  BY DEF IInv, TypeOK, RuntimeTypeOK
<1>4. wid \in WrapperIds /\ bind \in BindInfo /\ bind.func_id = f
  BY <1>2, <1>3 DEF HasWrapper, TableTypeOK, UndoInv, BoundToItsFunction
<1> HIDE DEF f, body
<1>5. /\ code \in VmFunction /\ code.func_id = f
      /\ record'.modified_funcs = Append(record.modified_funcs, f)
      /\ record'.old_bytecodes = Append(record.old_bytecodes, code)
      /\ record'.old_binds = Append(record.old_binds, bind)
      /\ record' \in PatchRecord
  <2> DEFINE mid == SaveBytecode(record, f)
  <2>1. /\ code \in VmFunction /\ code.func_id = f /\ mid \in PatchRecord
        /\ mid.modified_funcs = Append(record.modified_funcs, f)
        /\ mid.old_bytecodes = Append(record.old_bytecodes, code)
        /\ mid.old_binds = record.old_binds
    BY <1>2, CodeIsSaved
  <2>2. record' \in PatchRecord
    BY <1>1, <1>3, <2>1, SaveBindStep
  <2> HIDE DEF mid
  <2>3. record' = [mid EXCEPT !.old_binds = Append(@, bind)]
    BY <1>1, <1>4 DEF mid, SaveBind
  <2> QED BY <2>1, <2>2, <2>3 DEF PatchRecord
<1> HIDE DEF bind
<1>6. OneMore(record, record', f, code)
  BY <1>2, <1>4, <1>5 DEF OneMore
<1>7. /\ Aligned(record')
      /\ \A k \in SavedItems(record) :
            k \in SavedItems(record') /\ SavedValue(record', k) = SavedValue(record, k)
      /\ <<f, "code">> \in SavedItems(record')
      /\ SavedValue(record', <<f, "code">>) = [code |-> code.body]
      /\ <<f, "bind">> \in SavedItems(record')
      /\ SavedValue(record', <<f, "bind">>) = [bind |-> bind]
      /\ \A k \in SavedItems(record') :
            k \in SavedItems(record) \/ k = <<f, "code">> \/ k = <<f, "bind">>
  BY <1>2, <1>4, <1>5, <1>6, AlignedExtends, OneMoreSaves
<1>8. /\ CurrentValue(<<f, "code">>) = [code |-> code.body]
      /\ CurrentValue(<<f, "bind">>) = [bind |-> bind]
  BY <1>2, CodeValue, BindValue DEF HasBytecode, bind
<1>9. VmBind(f, body) \in BindInfo
  BY <1>2, BindTypes
<1>10. /\ \A g : g # f => CodeKept(g) /\ BindKept(g)
       /\ \A g : HasWrapper(g)' <=> HasWrapper(g)
       /\ \A g : HasBytecode(g) => HasBytecode(g)'
  BY <1>1, <1>2, <1>9, CodePut, BindPut
<1>11. \A k \in Items : k \in SavedItems(record') \/ CurrentValue(k)' = CurrentValue(k)
  <2> SUFFICES ASSUME NEW k \in Items, k # <<f, "code">>, k # <<f, "bind">>
               PROVE  CurrentValue(k)' = CurrentValue(k)
    BY <1>7
  <2>1. PICK g \in FuncIds : k = <<g, "code">> \/ k = <<g, "bind">>
    BY ItemCases
  <2> QED BY <1>10, <2>1 DEF CodeKept, BindKept
<1>12. RestIsUndoable'
  <2>1. Len(record'.old_binds) = Len(record.old_binds) + 1
    BY <1>2, <1>4, <1>5, RecordTypes
  <2> QED BY <1>1, <1>5, <1>10, <2>1, RestStaysUndoable DEF UndoInv, f
<1>13. RecordComplete(record)'
  <2>1. ASSUME NEW i \in DOMAIN record'.old_binds, NEW g, g = record'.modified_funcs[i]
        PROVE  HasWrapper(g)
    <3>1. CASE i \in DOMAIN record.old_binds
      <4>1. record'.modified_funcs[i] = record.modified_funcs[i]
        BY <1>2, <1>5, <1>6, <3>1, AlignedExtends, RecordTypes
      <4> QED BY <2>1, <3>1, <4>1, LayerTypes DEF UndoInv, RecordsComplete, RecordComplete
    <3>2. CASE i \notin DOMAIN record.old_binds
      <4>1. i = Len(record.modified_funcs) + 1
        BY <1>2, <1>4, <1>5, <2>1, <3>2, RecordTypes, AppendElements
      <4>2. record'.modified_funcs[i] = f
        BY <1>2, <1>5, <4>1, RecordTypes, AppendElements
      <4> QED BY <1>2, <2>1, <4>2
    <3> QED BY <3>1, <3>2
  <2>2. \A i \in DOMAIN record'.old_binds : HasWrapper(record.modified_funcs[i])'
    BY <1>10, <2>1 DEF HasWrapper, GetWrapperForFunc
  <2> QED BY <1>7, <2>2 DEF RecordComplete, Aligned
<1>14. \A k \in SavedItems(record') : k \in SavedItems(record) \/ SavedValue(record', k) = CurrentValue(k)
  BY <1>7, <1>8
<1> QED BY <1>2, <1>5, <1>7, <1>10, <1>11, <1>12, <1>13, <1>14 DEF EntryApplied, f

LEMMA RemovedApplies ==
    ASSUME IInv, UndoInv, ApplyRemoved
    PROVE  EntryApplied(Head(todo).func_id)
<1> DEFINE f == Head(todo).func_id
           code == [func_id |-> f, body |-> functions[f]]
<1>1. /\ AtEntry(kRemoved) /\ NextEntry
      /\ record' = SaveBytecode(record, f)
      /\ functions' = Erase(functions, f)
      /\ UNCHANGED <<tableVars, dispatch_table>>
  BY DEF ApplyRemoved, UnregisterFunction
<1>2. /\ f \in FuncIds /\ HasBytecode(f)
      /\ \A j \in DOMAIN record.modified_funcs : record.modified_funcs[j] # f
      /\ record \in PatchRecord /\ Aligned(record)
  BY <1>1, EntryAtHand DEF UndoInv
<1> HIDE DEF f
<1>3. /\ code \in VmFunction /\ code.func_id = f
      /\ record'.modified_funcs = Append(record.modified_funcs, f)
      /\ record'.old_bytecodes = Append(record.old_bytecodes, code)
      /\ record'.old_binds = record.old_binds
      /\ record' \in PatchRecord
  BY <1>1, <1>2, CodeIsSaved
<1> HIDE DEF code
<1>4. OneMore(record, record', f, code)
  BY <1>3 DEF OneMore
<1>5. /\ Aligned(record')
      /\ \A k \in SavedItems(record) :
            k \in SavedItems(record') /\ SavedValue(record', k) = SavedValue(record, k)
      /\ <<f, "code">> \in SavedItems(record')
      /\ SavedValue(record', <<f, "code">>) = [code |-> code.body]
      /\ \A k \in SavedItems(record') : k \in SavedItems(record) \/ k = <<f, "code">>
  <2> DEFINE new == record'
  <2>1. /\ Aligned(new) /\ new \in PatchRecord /\ OneMore(record, new, f, code)
        /\ code \in VmFunction /\ code.func_id = f
    BY <1>2, <1>3, <1>4, AlignedExtends
  <2> HIDE DEF new
  <2>2. ASSUME NEW k \in SavedItems(record)
        PROVE  k \in SavedItems(new) /\ SavedValue(new, k) = SavedValue(record, k)
    BY <1>2, <2>1, OneMoreSaves
  <2>4. /\ <<f, "code">> \in SavedItems(new)
        /\ SavedValue(new, <<f, "code">>) = [code |-> code.body]
    BY <1>2, <2>1, OneMoreCode
  <2>3. ASSUME NEW k \in SavedItems(new)
        PROVE  \/ k \in SavedItems(record)
               \/ k = <<f, "code">>
               \/ k = <<f, "bind">> /\ new.old_binds # record.old_binds
    BY <1>2, <2>1, OneMoreSaves
  <2> QED BY <1>3, <2>1, <2>2, <2>3, <2>4 DEF new
<1>6. CurrentValue(<<f, "code">>) = [code |-> code.body]
  BY <1>2, CodeValue DEF HasBytecode, code
<1>7. /\ \A g : BindKept(g) /\ (g # f => CodeKept(g))
      /\ \A g : HasWrapper(g)' <=> HasWrapper(g)
      /\ \A g : g # f /\ HasBytecode(g) => HasBytecode(g)'
  BY <1>1, CodeErased, BindsSame
<1>8. \A k \in Items : k \in SavedItems(record') \/ CurrentValue(k)' = CurrentValue(k)
  <2> SUFFICES ASSUME NEW k \in Items, k # <<f, "code">>
               PROVE  CurrentValue(k)' = CurrentValue(k)
    BY <1>5
  <2>1. PICK g \in FuncIds : k = <<g, "code">> \/ k = <<g, "bind">>
    BY ItemCases
  <2> QED BY <1>7, <2>1 DEF CodeKept, BindKept
<1>9. RestIsUndoable'
  <2>1. kRemoved # kModified
    BY DEF kRemoved, kModified
  <2> QED BY <1>1, <1>3, <1>7, <2>1, RestStaysUndoable DEF UndoInv, f
<1>10. RecordComplete(record)'
  <2>1. ASSUME NEW i \in DOMAIN record'.old_binds, NEW g, g = record'.modified_funcs[i]
        PROVE  HasWrapper(g)
    <3>1. record'.modified_funcs[i] = record.modified_funcs[i] /\ i \in DOMAIN record.old_binds
      BY <1>2, <1>3, <1>4, <2>1, AlignedExtends, RecordTypes
    <3> QED BY <2>1, <3>1, LayerTypes DEF UndoInv, RecordsComplete, RecordComplete
  <2>2. \A i \in DOMAIN record'.old_binds : HasWrapper(record.modified_funcs[i])'
    BY <1>7, <2>1 DEF HasWrapper, GetWrapperForFunc
  <2> QED BY <1>5, <2>2 DEF RecordComplete, Aligned
<1>11. \A k \in SavedItems(record') : k \in SavedItems(record) \/ SavedValue(record', k) = CurrentValue(k)
  BY <1>5, <1>6
<1> QED BY <1>2, <1>3, <1>5, <1>7, <1>8, <1>9, <1>10, <1>11 DEF EntryApplied, f

\* No undoable patch adds a function.
LEMMA NoneIsAdded ==
    ASSUME IInv, UndoInv
    PROVE  ~ ApplyAdded
<1>1. kAdded \notin {kModified, kRemoved}
  BY DEF kAdded, kModified, kRemoved
<1> QED BY <1>1, EntryAtHand DEF UndoInv, ApplyAdded

-----------------------------------------------------------------------------
(* UndoInv is kept by the patch manager. *)

\* The record that Rollback works on.
LEMMA TopRecord ==
    ASSUME IInv, RecordsComplete, pc \in {"restore_code", "restore_binds"}
    PROVE  /\ Top \in PatchRecord /\ RecordComplete(Top) /\ Aligned(Top)
           /\ Len(history) \in Layers /\ Layer(Len(history)) = Top
           /\ Len(history) \in Nat \ {0} /\ cursor \in Nat \ {0}
           /\ DOMAIN Top.old_bytecodes = 1 .. Len(Top.old_bytecodes)
           /\ DOMAIN Top.old_binds = 1 .. Len(Top.old_binds)
<1>1. Top \in PatchRecord /\ Len(history) \in Nat \ {0} /\ cursor \in Nat \ {0}
      /\ history \in Seq(PatchRecord)
  BY TopType DEF IInv, TypeOK
<1>2. Len(history) \in DOMAIN history
  BY <1>1
<1>3. Len(history) \in Layers /\ Layer(Len(history)) = Top
  BY <1>2, LayerTypes DEF Top
<1>4. RecordComplete(Top) /\ Aligned(Top)
  BY <1>3 DEF RecordsComplete, RecordComplete
<1>5. Top.old_bytecodes \in Seq(VmFunction) /\ Top.old_binds \in Seq(BindInfo)
  BY <1>1 DEF PatchRecord
<1> QED BY <1>1, <1>3, <1>4, <1>5

\* No undoable patch, and nothing the program does, takes a wrapper away.
LEMMA WrappersStay ==
    ASSUME IInv, UndoInv, Next
    PROVE  \A f : HasWrapper(f) => HasWrapper(f)'
<1>1. CASE dispatch_table' = dispatch_table
  BY <1>1 DEF HasWrapper, GetWrapperForFunc
<1>2. CASE ProgramRegistersNative
  BY <1>2, BindRegistered DEF ProgramRegistersNative
<1>3. ~ ApplyAdded
  BY NoneIsAdded
<1> QED BY <1>1, <1>2, <1>3
  DEF Next, ProgramRegistersVm, RegisterVmFunction, ApplyBegin, ApplyModified, ApplyRemoved,
      ApplyEnd, RollbackBegin, RestoreBytecode, RestoreBind, RollbackEnd, runtimeVars

LEMMA CompleteNext ==
    ASSUME IInv, UndoInv, Next
    PROVE  RecordsComplete'
<1>1. CASE ApplyModified \/ ApplyRemoved
  BY <1>1, ModifiedApplies, RemovedApplies, WrappersStay, RecordsStayComplete
     DEF UndoInv, EntryApplied
<1>2. CASE ApplyBegin \/ ApplyEnd
  <2>1. PICK v : record' = NewRecord(v)
    BY <1>2 DEF ApplyBegin, ApplyEnd, NoRecord
  <2>2. RecordComplete(record)'
    BY <2>1, SavedNothing DEF RecordComplete, Aligned
  <2> QED BY <2>2, WrappersStay, RecordsStayComplete DEF UndoInv
<1>3. CASE record' = record
  BY <1>3, WrappersStay, RecordsStayComplete DEF UndoInv
<1>4. ~ ApplyAdded
  BY NoneIsAdded
<1> QED BY <1>1, <1>2, <1>3, <1>4
  DEF Next, ProgramRegistersNative, ProgramRegistersVm, RollbackBegin, RestoreBytecode,
      RestoreBind, RollbackEnd, patchVars

LEMMA RestNext ==
    ASSUME IInv, UndoInv, Next, OnlyUndoable
    PROVE  RestIsUndoable'
<1>1. CASE ApplyModified \/ ApplyRemoved
  BY <1>1, ModifiedApplies, RemovedApplies DEF EntryApplied
<1>2. CASE ApplyBegin
  <2>1. /\ pc = "idle" /\ pc' = "apply" /\ todo' \in Manifests
        /\ record' = NewRecord(current_version')
        /\ functions' = functions /\ dispatch_table' = dispatch_table
    BY <1>2 DEF ApplyBegin, runtimeVars
  <2>2. Undoable(todo')
    BY <2>1 DEF OnlyUndoable
  <2>3. Undoable(todo)'
    BY <2>1, <2>2 DEF Undoable, HasBytecode, HasWrapper, GetWrapperForFunc
  <2>4. record'.modified_funcs = <<>> /\ record'.old_binds = <<>>
    BY <2>1, SavedNothing
  <2> QED BY <2>3, <2>4 DEF RestIsUndoable
<1>3. CASE pc' # "apply"
  BY <1>3 DEF RestIsUndoable
<1>4. ~ ApplyAdded
  BY NoneIsAdded
<1> QED BY <1>1, <1>2, <1>3, <1>4
  DEF Next, ProgramRegistersNative, ProgramRegistersVm, ApplyEnd, RollbackBegin,
      RestoreBytecode, RestoreBind, RollbackEnd, patchVars

LEMMA RestoredNext ==
    ASSUME IInv, UndoInv, Next
    PROVE  RestoredExactly'
<1>1. CASE pc' \in {"idle", "apply"}
  BY <1>1 DEF RestoredExactly
<1>2. CASE RollbackBegin
  <2>1. pc' = "restore_code" /\ cursor' = 1 /\ history' = history /\ history # <<>>
    BY <1>2 DEF RollbackBegin, IInv, NothingOpen
  <2>2. history \in Seq(PatchRecord) /\ Len(history) \in Nat
    BY DEF IInv, TypeOK
  <2>3. Len(history) \in DOMAIN history
    BY <2>1, <2>2
  <2>4. Top \in PatchRecord /\ Top' = Top
    BY <2>1, <2>2, <2>3 DEF Top
  <2>5. \A i \in DOMAIN Top.old_bytecodes : ~ (i < 1)
    BY <2>4 DEF PatchRecord
  <2> QED BY <2>1, <2>4, <2>5 DEF RestoredExactly
<1>3. CASE RestoreBytecode
  <2>1. /\ pc = "restore_code" /\ Top' = Top
        /\ UNCHANGED <<tableVars, dispatch_table>>
    BY <1>3 DEF RestoreBytecode, Top
  <2>2. /\ Top \in PatchRecord /\ Aligned(Top) /\ cursor \in Nat \ {0}
        /\ DOMAIN Top.old_bytecodes = 1 .. Len(Top.old_bytecodes)
        /\ DOMAIN Top.old_binds = 1 .. Len(Top.old_binds)
    BY <2>1, TopRecord DEF UndoInv
  <2>3. ASSUME NEW i \in DOMAIN Top.old_bytecodes, i < cursor
        PROVE  CurrentValue(<<Top.modified_funcs[i], "code">>)
                  = [code |-> Top.old_bytecodes[i].body]
    BY <2>1, <2>3 DEF UndoInv, RestoredExactly
  <2>4. CASE cursor <= Len(Top.old_bytecodes)
    <3> DEFINE f == Top.modified_funcs[cursor]
               old == Top.old_bytecodes[cursor]
    <3>1. /\ functions' = Put(functions, old.func_id, old.body)
          /\ cursor' = cursor + 1 /\ pc' = pc
      BY <1>3, <2>4 DEF RestoreBytecode, RegisterFunction
    <3>2. cursor \in DOMAIN Top.modified_funcs /\ old.func_id = f
      BY <2>2, <2>4, RecordTypes DEF Aligned
    <3>3. ASSUME NEW g, g = f
          PROVE  /\ CurrentValue(<<g, "code">>)' = [code |-> old.body]
                 /\ \A h : h # g => CodeKept(h)
      <4> HIDE DEF f, old
      <4>1. functions' = Put(functions, g, old.body)
        BY <3>1, <3>2, <3>3
      <4>2. \A b : functions' = Put(functions, g, b) =>
                     /\ CurrentValue(<<g, "code">>)' = [code |-> b]
                     /\ \A h : h # g => CodeKept(h)
        BY CodePut
      <4> QED BY <4>1, <4>2
    <3>4. ASSUME NEW i \in DOMAIN Top.old_bytecodes, i < cursor + 1
          PROVE  CurrentValue(<<Top.modified_funcs[i], "code">>)'
                    = [code |-> Top.old_bytecodes[i].body]
      <4>1. CASE i = cursor
        <5>1. \A g : g = f => CurrentValue(<<g, "code">>)' = [code |-> old.body]
          BY <3>3
        <5> QED BY <2>1, <4>1, <5>1
      <4>2. CASE i < cursor
        <5>1. Top.modified_funcs[i] # f
          BY <2>2, <3>2, <3>4, <4>2, RecordTypes DEF Aligned
        <5> DEFINE g == Top.modified_funcs[i]
        <5>2. CurrentValue(<<g, "code">>)' = CurrentValue(<<g, "code">>)
          BY <2>1, <3>3, <5>1 DEF CodeKept
        <5> QED BY <2>3, <3>4, <4>2, <5>2
      <4> QED BY <2>2, <3>4, <4>1, <4>2
    <3> QED BY <2>1, <3>1, <3>4 DEF RestoredExactly
  <2>5. CASE ~ (cursor <= Len(Top.old_bytecodes))
    <3>1. functions' = functions /\ cursor' = 1 /\ pc' = "restore_binds"
      BY <1>3, <2>5 DEF RestoreBytecode
    <3>2. \A f : CodeKept(f)
      BY <3>1, CodesSame
    <3>3. ASSUME NEW i \in DOMAIN Top.old_bytecodes
          PROVE  CurrentValue(<<Top.modified_funcs[i], "code">>)'
                    = [code |-> Top.old_bytecodes[i].body]
      <4>1. i < cursor
        <5>1. Len(Top.old_bytecodes) \in Nat
          BY <2>2 DEF PatchRecord
        <5> QED BY <2>2, <2>5, <3>3, <5>1
      <4> DEFINE g == Top.modified_funcs[i]
      <4>2. CurrentValue(<<g, "code">>)' = CurrentValue(<<g, "code">>)
        BY <2>1, <3>2 DEF CodeKept
      <4> QED BY <2>3, <4>1, <4>2
    <3>4. \A i \in DOMAIN Top.old_binds : ~ (i < 1)
      BY <2>2
    <3> QED BY <2>1, <3>1, <3>3, <3>4 DEF RestoredExactly
  <2> QED BY <2>4, <2>5
<1>4. CASE RestoreBind
  <2> DEFINE f == Top.modified_funcs[cursor]
             bind == Top.old_binds[cursor]
  <2>1. /\ pc = "restore_binds" /\ MoreBinds /\ Top' = Top
        /\ Rebind(GetWrapperForFunc(f), bind)
        /\ functions' = functions /\ dispatch_table' = dispatch_table
        /\ cursor' = cursor + 1 /\ pc' = pc
    BY <1>4 DEF RestoreBind, Top
  <2>2. /\ Top \in PatchRecord /\ RecordComplete(Top) /\ Aligned(Top)
        /\ cursor \in Nat \ {0}
        /\ DOMAIN Top.old_binds = 1 .. Len(Top.old_binds)
    BY <2>1, TopRecord DEF UndoInv
  <2>3. f \in FuncIds /\ bind \in BindInfo
    BY <2>1, TopPair, CompleteIsInStep DEF UndoInv
  <2>4. cursor \in DOMAIN Top.old_binds /\ cursor \in DOMAIN Top.modified_funcs
    BY <2>1, <2>2, RecordTypes DEF MoreBinds
  <2>5. HasWrapper(f)
    BY <2>2, <2>4 DEF RecordComplete
  <2> HIDE DEF bind
  <2>6. ASSUME NEW g, g = f
        PROVE  /\ CurrentValue(<<g, "bind">>)' = [bind |-> bind]
               /\ \A h : h # g => BindKept(h)
    <3>1. \A b \in BindInfo : Rebind(GetWrapperForFunc(g), b) =>
                /\ CurrentValue(<<g, "bind">>)' = [bind |-> b]
                /\ \A h : h # g => BindKept(h)
      BY <2>1, <2>3, <2>5, <2>6, BindPut
    <3> HIDE DEF f
    <3> QED BY <2>1, <2>3, <2>6, <3>1
  <2>7. \A g : CodeKept(g)
    BY <2>1, CodesSame
  <2>8. ASSUME NEW i \in DOMAIN Top.old_bytecodes
        PROVE  CurrentValue(<<Top.modified_funcs[i], "code">>)'
                  = [code |-> Top.old_bytecodes[i].body]
    <3> DEFINE g == Top.modified_funcs[i]
    <3>1. CurrentValue(<<g, "code">>)' = CurrentValue(<<g, "code">>)
      BY <2>1, <2>7 DEF CodeKept
    <3> QED BY <2>1, <2>8, <3>1 DEF UndoInv, RestoredExactly
  <2>9. ASSUME NEW i \in DOMAIN Top.old_binds, i < cursor + 1
        PROVE  CurrentValue(<<Top.modified_funcs[i], "bind">>)' = [bind |-> Top.old_binds[i]]
    <3>1. CASE i = cursor
      <4>1. \A g : g = f => CurrentValue(<<g, "bind">>)' = [bind |-> bind]
        BY <2>6
      <4> QED BY <2>1, <3>1, <4>1 DEF bind
    <3>2. CASE i < cursor
      <4> DEFINE g == Top.modified_funcs[i]
      <4>1. g # f
        BY <2>2, <2>4, <2>9, <3>2, RecordTypes DEF Aligned
      <4>2. CurrentValue(<<g, "bind">>)' = CurrentValue(<<g, "bind">>)
        BY <2>1, <2>6, <4>1 DEF BindKept
      <4> QED BY <2>1, <2>9, <3>2, <4>2 DEF UndoInv, RestoredExactly
    <3> QED BY <2>2, <2>9, <3>1, <3>2
  <2> QED BY <2>1, <2>8, <2>9 DEF RestoredExactly
<1> QED BY <1>1, <1>2, <1>3, <1>4
  DEF Next, ProgramRegistersNative, ProgramRegistersVm, ApplyBegin, ApplyModified, ApplyAdded,
      ApplyRemoved, ApplyEnd, RollbackEnd, AtEntry, NextEntry, patchVars

LEMMA UndoNextStep ==
    ASSUME IInv, UndoInv, Next, OnlyUndoable
    PROVE  UndoInv'
<1>1. BoundToItsFunction'
  BY OwnersNext, CompleteIsInStep DEF UndoInv, OwnersStep
<1> QED BY <1>1, CompleteNext, RestNext, RestoredNext DEF UndoInv

LEMMA InitUndo == Init => UndoInv
<1> SUFFICES ASSUME Init PROVE UndoInv
  OBVIOUS
<1>1. /\ history = <<>> /\ record = NewRecord(0) /\ pc = "idle"
  BY DEF Init, NoRecord
<1>2. \A n \in Layers : Layer(n) = NewRecord(0)
  BY <1>1 DEF Layers, Layer
<1>3. RecordComplete(NewRecord(0))
  BY SavedNothing DEF RecordComplete
<1> QED BY <1>1, <1>2, <1>3, InitOwners
  DEF UndoInv, RecordsComplete, RestIsUndoable, RestoredExactly

-----------------------------------------------------------------------------
(* The program's redirections. *)

\* The program puts a usable binding of f on f's wrapper.
ProgramRebinds(f, bind) ==
    /\ pc = "idle"
    /\ bind.func_id = f /\ UsableBind(bind)
    /\ Rebind(GetWrapperForFunc(f), bind)
    /\ UNCHANGED <<dispatch_table, functions, patchVars>>

LEMMA RebindKeepsIInv ==
    ASSUME IInv, NEW f \in FuncIds, NEW bind \in BindInfo, ProgramRebinds(f, bind)
    PROVE  IInv' /\ Recoverable' = Recoverable /\ UsedSlots' = UsedSlots
<1> DEFINE wid == GetWrapperForFunc(f)
<1> USE DEF IInv, TypeOK
<1>1. /\ Rebind(wid, bind) /\ UsableBind(bind) /\ pc = "idle"
      /\ UNCHANGED <<dispatch_table, functions, history, current_version, pc, todo,
                     record, cursor>>
  BY DEF ProgramRebinds, patchVars
<1>2. TableTypeOK
  BY DEF RuntimeTypeOK
<1>3. /\ TableTypeOK' /\ CountIsExact' /\ UsedSlots' = UsedSlots
      /\ \A w \in WrapperIds : w # wid => bind_info'[w] = bind_info[w]
      /\ wid \in UsedSlots => bind_info'[wid] = bind
  BY <1>1, <1>2, RebindStep
<1>4. TypeOK'
  BY <1>1, <1>3 DEF RuntimeTypeOK
<1>5. Recoverable' = Recoverable
  BY <1>1 DEF Recoverable, SavedIn
<1>6. \A w \in UsedSlots' :
         \/ w \in UsedSlots /\ bind_info'[w] = bind_info[w]
         \/ /\ bind_info'[w].mode = kVM => bind_info'[w].func_id \in Recoverable'
            /\ bind_info'[w].mode = kNative => bind_info'[w].native_fn # nullptr
  <2> SUFFICES ASSUME NEW w \in UsedSlots
               PROVE  \/ bind_info'[w] = bind_info[w]
                      \/ /\ bind_info'[w].mode = kVM => bind_info'[w].func_id \in Recoverable'
                         /\ bind_info'[w].mode = kNative => bind_info'[w].native_fn # nullptr
    BY <1>3
  <2>1. CASE w = wid
    BY <1>1, <1>3, <1>5, <2>1 DEF UsableBind
  <2>2. CASE w # wid
    BY <1>3, <2>2 DEF UsedSlots
  <2> QED BY <2>1, <2>2
<1>7. BindsUsable'
  BY <1>1, <1>5, <1>6, BindsStep
<1>8. DispatchSound'
  BY <1>1, <1>3, DispatchKept
<1>9. VersionIsDepth' /\ NothingOpen' /\ RestoredSoFar'
  BY <1>1 DEF VersionIsDepth, NothingOpen, RestoredSoFar
<1> QED BY <1>3, <1>4, <1>5, <1>7, <1>8, <1>9

LEMMA RebindKeepsUndoInv ==
    ASSUME IInv, UndoInv, NEW f \in FuncIds, NEW bind \in BindInfo, ProgramRebinds(f, bind)
    PROVE  UndoInv'
<1>1. /\ Rebind(GetWrapperForFunc(f), bind) /\ bind.func_id = f /\ pc = "idle"
      /\ UNCHANGED <<dispatch_table, history, pc, record>>
  BY DEF ProgramRebinds, patchVars
<1>2. BoundToItsFunction'
  BY <1>1, OwnersRebind DEF UndoInv, OwnersStep
<1>3. RecordsComplete'
  BY <1>1 DEF UndoInv, RecordsComplete, RecordComplete, Aligned, Layers, Layer, HasWrapper,
              GetWrapperForFunc
<1> QED BY <1>1, <1>2, <1>3 DEF UndoInv, RestIsUndoable, RestoredExactly

LEMMA SameKeepsUndoInv ==
    ASSUME UndoInv, UNCHANGED vars
    PROVE  UndoInv'
<1>1. UNCHANGED <<bind_info, dispatch_table, functions, history, pc, todo, record, cursor>>
  BY DEF vars
<1>2. \A f : /\ GetWrapperForFunc(f)' = GetWrapperForFunc(f)
             /\ HasWrapper(f)' <=> HasWrapper(f)
             /\ HasBytecode(f)' <=> HasBytecode(f)
  BY <1>1 DEF GetWrapperForFunc, HasWrapper, HasBytecode
<1>3. BoundToItsFunction' /\ RecordsComplete'
  BY <1>1, <1>2 DEF UndoInv, BoundToItsFunction, RecordsComplete, RecordComplete, Aligned, Layers,
                    Layer, HasWrapper, GetWrapperForFunc
<1>4. RestIsUndoable'
  BY <1>1, <1>2 DEF UndoInv, RestIsUndoable, Undoable, HasWrapper, HasBytecode, GetWrapperForFunc
<1>5. RestoredExactly'
  <2>1. \A k : CurrentValue(k)' = CurrentValue(k)
    BY <1>1 DEF CurrentValue, GetWrapperForFunc
  <2>2. Top' = Top
    BY <1>1 DEF Top
  <2> QED BY <1>1, <2>1, <2>2 DEF UndoInv, RestoredExactly
<1> QED BY <1>3, <1>4, <1>5 DEF UndoInv

\* The binding of a redirection is f's own, and so is the one that is put back.
LEMMA RedirectRebinds ==
    ASSUME IInv, EntriesOwn, NEW f \in FuncIds, ProgramRedirects(f)
    PROVE  /\ VmBind(f, functions[f]) \in BindInfo
           /\ ProgramRebinds(f, VmBind(f, functions[f]))
<1>1. /\ pc = "idle" /\ f \in DOMAIN entries /\ f \in DOMAIN functions
      /\ Rebind(entries[f].wrapper_id, VmBind(f, functions[f]))
      /\ UNCHANGED <<dispatch_table, functions, patchVars, entries>>
  BY DEF ProgramRedirects, IsPatched, HasBytecode
<1>2. functions[f] \in Bodies
  BY <1>1, MapApply DEF IInv, TypeOK, RuntimeTypeOK
<1>3. VmBind(f, functions[f]) \in BindInfo
  BY <1>2, BindTypes
<1>4. entries[f].wrapper_id = GetWrapperForFunc(f)
  BY <1>1 DEF EntriesOwn
<1>5. UsableBind(VmBind(f, functions[f])) /\ VmBind(f, functions[f]).func_id = f
  BY <1>1 DEF UsableBind, VmBind, Recoverable, kVM, kNative
<1> QED BY <1>1, <1>3, <1>4, <1>5 DEF ProgramRebinds

LEMMA UnpatchRebinds ==
    ASSUME IInv, EntriesOwn, NEW f \in FuncIds, ProgramUnpatches(f)
    PROVE  /\ f \in DOMAIN entries /\ entries[f].made_at = current_version
           /\ entries[f].original_bind \in BindInfo
           /\ ProgramRebinds(f, entries[f].original_bind)
           /\ entries' = Erase(entries, f)
<1>1. /\ pc = "idle" /\ f \in DOMAIN entries /\ entries[f].made_at = current_version
      /\ Rebind(entries[f].wrapper_id, entries[f].original_bind)
      /\ entries' = Erase(entries, f)
      /\ UNCHANGED <<dispatch_table, functions, patchVars>>
  BY DEF ProgramUnpatches, Unpatch, IsPatched
<1>2. entries[f] \in FunctionEntry
  BY <1>1 DEF EntriesOwn
<1>3. entries[f].original_bind \in BindInfo
  BY <1>2 DEF FunctionEntry
<1>4. /\ entries[f].wrapper_id = GetWrapperForFunc(f)
      /\ entries[f].original_bind.func_id = f /\ UsableBind(entries[f].original_bind)
  BY <1>1 DEF EntriesOwn
<1> QED BY <1>1, <1>3, <1>4 DEF ProgramRebinds

\* What an entry of f holds when it is made.
LEMMA PatchEnters ==
    ASSUME IInv, UndoInv, NEW f \in FuncIds, ProgramPatches(f)
    PROVE  /\ UNCHANGED vars /\ pc = "idle" /\ f \notin DOMAIN entries
           /\ \/ entries' = entries
              \/ LET wid == GetWrapperForFunc(f)
                     entry == [wrapper_id |-> wid, original_bind |-> bind_info[wid],
                               made_at |-> current_version]
                 IN  /\ HasWrapper(f) /\ entry \in FunctionEntry
                     /\ entries' = Put(entries, f, entry)
                     /\ bind_info[wid].func_id = f /\ UsableBind(bind_info[wid])
<1> DEFINE wid == GetWrapperForFunc(f)
           entry == [wrapper_id |-> wid, original_bind |-> bind_info[wid],
                     made_at |-> current_version]
<1>1. /\ UNCHANGED vars /\ pc = "idle" /\ f \notin DOMAIN entries
      /\ entries' = IF wid \in UsedSlots THEN Put(entries, f, entry) ELSE entries
  BY DEF ProgramPatches, Patch, IsPatched
<1>2. ASSUME wid \in UsedSlots
      PROVE  /\ HasWrapper(f) /\ entry \in FunctionEntry
             /\ bind_info[wid].func_id = f /\ UsableBind(bind_info[wid])
  <2>1. wid \in WrapperIds /\ HasWrapper(f)
    BY <1>2 DEF UsedSlots, HasWrapper
  <2>2. bind_info[wid] \in BindInfo /\ current_version \in Nat
    BY <2>1 DEF IInv, TypeOK, RuntimeTypeOK, TableTypeOK
  <2>3. bind_info[wid].func_id = f
    BY <2>1 DEF UndoInv, BoundToItsFunction
  <2>4. UsableBind(bind_info[wid])
    BY <1>2 DEF IInv, BindsUsable
  <2> QED BY <2>1, <2>2, <2>3, <2>4 DEF FunctionEntry
<1> QED BY <1>1, <1>2

\* An entry stays f's own if its wrapper, what is recoverable and the version
\* that is safe allow it.
LEMMA EntriesKept ==
    ASSUME EntriesOwn,
           DOMAIN entries' \subseteq DOMAIN entries,
           entries' \in [DOMAIN entries' -> FunctionEntry],
           \A f \in DOMAIN entries' :
              /\ entries'[f] = entries[f]
              /\ GetWrapperForFunc(f)' = entries[f].wrapper_id
              /\ entries[f].made_at <= SafeVersion',
           Recoverable \subseteq Recoverable'
    PROVE  EntriesOwn'
<1>1. ASSUME NEW f \in DOMAIN entries'
      PROVE  /\ entries'[f].wrapper_id = GetWrapperForFunc(f)'
             /\ entries'[f].original_bind.func_id = f
             /\ UsableBind(entries[f].original_bind)'
             /\ entries'[f].made_at <= SafeVersion'
  <2>1. /\ f \in DOMAIN entries /\ entries'[f] = entries[f]
        /\ entries[f].original_bind.func_id = f /\ UsableBind(entries[f].original_bind)
    BY <1>1 DEF EntriesOwn
  <2>2. UsableBind(entries[f].original_bind)'
    BY <2>1 DEF UsableBind
  <2> QED BY <1>1, <2>1, <2>2
<1> QED BY <1>1 DEF EntriesOwn

\* No step of the patch manager makes an entry's version unsafe, if the program
\* begins no rollback below it.
LEMMA SafeVersionStep ==
    ASSUME IInv, EntriesOwn, Next, OnlyNested, NEW f \in DOMAIN entries
    PROVE  entries[f].made_at <= SafeVersion'
<1>1. /\ entries[f].made_at \in Nat /\ entries[f].made_at <= SafeVersion
      /\ history \in Seq(PatchRecord) /\ Len(history) \in Nat
  BY DEF EntriesOwn, FunctionEntry, IInv, TypeOK
<1>2. CASE pc' = pc /\ history' = history
  BY <1>1, <1>2 DEF SafeVersion
<1>3. CASE ApplyBegin
  BY <1>1, <1>3 DEF SafeVersion, ApplyBegin
<1>4. CASE ApplyEnd
  <2>1. pc = "apply" /\ pc' = "idle" /\ Len(history') = Len(history) + 1
    BY <1>1, <1>4 DEF ApplyEnd, IInv, TypeOK
  <2> QED BY <1>1, <2>1 DEF SafeVersion
<1>5. CASE RollbackBegin
  <2>1. /\ pc = "idle" /\ pc' = "restore_code" /\ history' = history
    BY <1>5 DEF RollbackBegin
  <2>2. current_version = Len(history) /\ entries[f].made_at < current_version
    BY <1>1, <2>1 DEF OnlyNested, IInv, VersionIsDepth
  <2> QED BY <1>1, <2>1, <2>2 DEF SafeVersion
<1>6. CASE RestoreBytecode
  <2>1. history' = history /\ pc = "restore_code" /\ pc' \in {"restore_code", "restore_binds"}
    BY <1>6 DEF RestoreBytecode
  <2> QED BY <1>1, <2>1 DEF SafeVersion
<1>7. CASE RollbackEnd
  <2>1. /\ pc = "restore_binds" /\ pc' = "idle"
        /\ history' = SubSeq(history, 1, Len(history) - 1)
    BY <1>7 DEF RollbackEnd
  <2>2. Len(history) # 0
    BY <1>1, <2>1, TopType
  <2>3. Len(history') = Len(history) - 1
    BY <1>1, <2>1, <2>2, PopBack
  <2> QED BY <1>1, <2>1, <2>3 DEF SafeVersion
<1> QED BY <1>2, <1>3, <1>4, <1>5, <1>6, <1>7
  DEF Next, ProgramRegistersNative, ProgramRegistersVm, ApplyModified, ApplyAdded, ApplyRemoved,
      RestoreBind, NextEntry, patchVars

LEMMA EntriesNext ==
    ASSUME IInv, UndoInv, EntriesOwn, CarefulNext
    PROVE  EntriesOwn'
<1>1. CASE Next /\ OnlyUndoable /\ OnlyNested /\ SameWrappers /\ UNCHANGED entries
  <2>1. Recoverable \subseteq Recoverable'
    BY <1>1, NextStep DEF StepOK
  <2>2. \A f \in DOMAIN entries : GetWrapperForFunc(f)' = entries[f].wrapper_id
    BY <1>1 DEF SameWrappers
  <2> QED BY <1>1, <2>1, <2>2, SafeVersionStep, EntriesKept DEF EntriesOwn
<1>2. ASSUME NEW f \in FuncIds, ProgramPatches(f) PROVE EntriesOwn'
  <2>1. UNCHANGED vars /\ pc = "idle" /\ f \notin DOMAIN entries
    BY <1>2, PatchEnters
  <2>2. /\ \A g : GetWrapperForFunc(g)' = GetWrapperForFunc(g)
        /\ Recoverable' = Recoverable /\ SafeVersion' = SafeVersion
    BY <2>1 DEF vars, GetWrapperForFunc, Recoverable, SavedIn, SafeVersion
  <2>3. CASE entries' = entries
    BY <2>2, <2>3, EntriesKept DEF EntriesOwn
  <2>4. CASE entries' # entries
    <3> DEFINE wid == GetWrapperForFunc(f)
               entry == [wrapper_id |-> wid, original_bind |-> bind_info[wid],
                         made_at |-> current_version]
    <3>1. /\ entry \in FunctionEntry /\ entries' = Put(entries, f, entry)
          /\ entry.wrapper_id = wid /\ entry.original_bind.func_id = f
          /\ UsableBind(entry.original_bind) /\ entry.made_at = current_version
      BY <1>2, <2>4, PatchEnters
    <3>2. current_version = SafeVersion
      BY <2>1 DEF IInv, VersionIsDepth, SafeVersion, TypeOK
    <3> HIDE DEF entry
    <3>3. /\ DOMAIN entries' = DOMAIN entries \cup {f} /\ entries'[f] = entry
          /\ \A g \in DOMAIN entries : entries'[g] = entries[g]
      BY <2>1, <3>1 DEF Put
    <3>4. entries' \in [DOMAIN entries' -> FunctionEntry]
      BY <3>1, <3>3 DEF EntriesOwn, Put
    <3>5. SafeVersion \in Int
      BY DEF SafeVersion, IInv, TypeOK
    <3>6. ASSUME NEW g \in DOMAIN entries'
          PROVE  /\ entries'[g].wrapper_id = GetWrapperForFunc(g)'
                 /\ entries'[g].original_bind.func_id = g
                 /\ UsableBind(entries[g].original_bind)'
                 /\ entries'[g].made_at <= SafeVersion'
      <4>1. CASE g = f
        <5>1. entries'[g].made_at <= SafeVersion'
          BY <2>2, <3>1, <3>2, <3>3, <3>5, <4>1
        <5>2. UsableBind(entries[g].original_bind)'
          BY <2>2, <3>1, <3>3, <4>1 DEF UsableBind
        <5> QED BY <2>2, <3>1, <3>3, <4>1, <5>1, <5>2
      <4>2. CASE g \in DOMAIN entries
        BY <2>2, <3>3, <4>2 DEF EntriesOwn, UsableBind
      <4> QED BY <3>3, <3>6, <4>1, <4>2
    <3> QED BY <3>3, <3>4, <3>6 DEF EntriesOwn
  <2> QED BY <2>3, <2>4
<1>3. ASSUME NEW f \in FuncIds, NEW bind \in BindInfo, ProgramRebinds(f, bind),
             entries' = entries \/ entries' = Erase(entries, f)
      PROVE  EntriesOwn'
  <2>1. /\ Recoverable' = Recoverable
        /\ \A g : GetWrapperForFunc(g)' = GetWrapperForFunc(g)
        /\ SafeVersion' = SafeVersion
    BY <1>3, RebindKeepsIInv DEF ProgramRebinds, patchVars, GetWrapperForFunc, SafeVersion
  <2>2. /\ DOMAIN entries' \subseteq DOMAIN entries
        /\ entries' \in [DOMAIN entries' -> FunctionEntry]
        /\ \A g \in DOMAIN entries' : entries'[g] = entries[g]
    <3>1. CASE entries' = entries
      BY <3>1 DEF EntriesOwn
    <3>2. CASE entries' = Erase(entries, f)
      BY <3>2 DEF EntriesOwn, Erase
    <3> QED BY <1>3, <3>1, <3>2
  <2>3. \A g \in DOMAIN entries' : /\ GetWrapperForFunc(g)' = entries[g].wrapper_id
                                   /\ entries[g].made_at <= SafeVersion'
    BY <2>1, <2>2 DEF EntriesOwn
  <2> QED BY <2>1, <2>2, <2>3, EntriesKept
<1>4. ASSUME NEW f \in FuncIds, ProgramRedirects(f) PROVE EntriesOwn'
  BY <1>3, <1>4, RedirectRebinds DEF ProgramRedirects
<1>5. ASSUME NEW f \in FuncIds, ProgramUnpatches(f) PROVE EntriesOwn'
  BY <1>3, <1>5, UnpatchRebinds
<1> QED BY <1>1, <1>2, <1>4, <1>5 DEF CarefulNext

\* The careful program's invariant but for where the bindings come from.
CareInv == IInv /\ UndoInv /\ EntriesOwn

LEMMA CareStep ==
    ASSUME CareInv, [CarefulNext]_functionPatchVars
    PROVE  CareInv'
<1>1. CASE UNCHANGED functionPatchVars
  <2>1. UNCHANGED vars /\ entries' = entries
    BY <1>1 DEF functionPatchVars, vars
  <2>2. IInv' /\ UndoInv'
    BY <2>1, NextStep, SameKeepsUndoInv DEF CareInv, StepOK
  <2>3. EntriesOwn'
    <3>1. /\ \A f : GetWrapperForFunc(f)' = GetWrapperForFunc(f)
          /\ Recoverable' = Recoverable /\ SafeVersion' = SafeVersion
      BY <2>1 DEF vars, GetWrapperForFunc, Recoverable, SavedIn, SafeVersion
    <3> QED BY <2>1, <3>1, EntriesKept DEF CareInv, EntriesOwn
  <2> QED BY <2>2, <2>3 DEF CareInv
<1>2. CASE CarefulNext
  <2>1. EntriesOwn'
    BY <1>2, EntriesNext DEF CareInv
  <2>2. CASE Next /\ OnlyUndoable
    BY <2>1, <2>2, NextStep, UndoNextStep DEF CareInv, StepOK
  <2>3. ASSUME NEW f \in FuncIds, ProgramPatches(f) PROVE IInv' /\ UndoInv'
    BY <2>3, PatchEnters, NextStep, SameKeepsUndoInv DEF CareInv, StepOK
  <2>4. ASSUME NEW f \in FuncIds, NEW bind \in BindInfo, ProgramRebinds(f, bind)
        PROVE  IInv' /\ UndoInv'
    BY <2>4, RebindKeepsIInv, RebindKeepsUndoInv DEF CareInv
  <2>5. ASSUME NEW f \in FuncIds, ProgramRedirects(f) \/ ProgramUnpatches(f)
        PROVE  IInv' /\ UndoInv'
    BY <2>4, <2>5, RedirectRebinds, UnpatchRebinds DEF CareInv
  <2> QED BY <1>2, <2>1, <2>2, <2>3, <2>5 DEF CareInv, CarefulNext
<1> QED BY <1>1, <1>2

LEMMA InitCare == CarefulInit => CareInv
<1> SUFFICES ASSUME CarefulInit PROVE CareInv
  OBVIOUS
<1>1. IInv /\ UndoInv
  BY InitIInv, InitUndo DEF CarefulInit
<1>2. DOMAIN entries = {} /\ entries \in [{} -> FunctionEntry]
  BY DEF CarefulInit, NoEntries, EmptyMap
<1> QED BY <1>1, <1>2 DEF CareInv, EntriesOwn

THEOREM Carefulness == CarefulSpec => []CareInv
BY InitCare, CareStep, PTL DEF CarefulSpec

\* A call of f through its wrapper never runs another function, whatever
\* undoable patches are applied, rolled back and redirected over
\* (patch_manager.cpp:110).
THEOREM WrappersKeepTheirFunction == CarefulSpec => []BoundToItsFunction
<1>1. CareInv => BoundToItsFunction
  BY DEF CareInv, UndoInv
<1> QED BY <1>1, Carefulness, PTL

-----------------------------------------------------------------------------
(* The refinement of UndoStack: the values that the abstraction shows. *)

LEMMA LiveNow ==
    \A k \in Items : LiveItems[k] = IF k \in SavedItems(OpenRecord)
                                    THEN SavedValue(OpenRecord, k) ELSE CurrentValue(k)
BY DEF LiveItems

LEMMA LiveNext ==
    \A k \in Items : LiveItems'[k] = IF k \in SavedItems(OpenRecord')
                                     THEN SavedValue(OpenRecord', k) ELSE CurrentValue(k)'
BY DEF LiveItems

LEMMA LiveEqual ==
    ASSUME \A k \in Items : LiveItems'[k] = LiveItems[k]
    PROVE  LiveItems' = LiveItems
BY DEF LiveItems

LEMMA OpenNow ==
    /\ pc = "idle" => OpenRecord = NoRecord
    /\ pc = "apply" => OpenRecord = record
    /\ pc \in {"restore_code", "restore_binds"} => OpenRecord = Top
BY DEF OpenRecord

LEMMA OpenNext ==
    /\ pc' = "idle" => OpenRecord' = NoRecord
    /\ pc' = "apply" => OpenRecord' = record'
    /\ pc' \in {"restore_code", "restore_binds"} => OpenRecord' = Top'
BY DEF OpenRecord, NoRecord, NewRecord

\* While no operation is in progress what is live is what is current.
LEMMA LiveIdle ==
    /\ pc = "idle" => \A k \in Items : LiveItems[k] = CurrentValue(k)
    /\ pc' = "idle" => \A k \in Items : LiveItems'[k] = CurrentValue(k)'
BY LiveNow, LiveNext, OpenNow, OpenNext, SavedNothing DEF NoRecord

LEMMA PhaseNow ==
    /\ pc = "idle" => Phase = "quiet"
    /\ pc = "apply" => Phase = "changing"
    /\ pc \in {"restore_code", "restore_binds"} => Phase = "undoing"
BY DEF Phase

LEMMA PhaseNext ==
    /\ pc' = "idle" => Phase' = "quiet"
    /\ pc' = "apply" => Phase' = "changing"
    /\ pc' \in {"restore_code", "restore_binds"} => Phase' = "undoing"
BY DEF Phase

\* The maps on the abstract stack are those of the records that stay.
SavedMaps == {SavedMap(rec) : rec \in PatchRecord}

LEMMA MapsNow ==
    ASSUME IInv
    PROVE  /\ SafeVersion \in Nat /\ SafeVersion <= Len(history)
           /\ UndoMaps \in Seq(SavedMaps) /\ Len(UndoMaps) = SafeVersion
           /\ \A i \in 1 .. SafeVersion : UndoMaps[i] = SavedMap(history[i])
<1>1. history \in Seq(PatchRecord) /\ Len(history) \in Nat
  BY DEF IInv, TypeOK
<1>2. SafeVersion \in Nat /\ SafeVersion <= Len(history)
  BY <1>1, TopType DEF SafeVersion
<1>3. UndoMaps = [i \in 1 .. SafeVersion |-> SavedMap(history[i])]
  BY DEF UndoMaps, SafeVersion
<1>4. \A i \in 1 .. SafeVersion : SavedMap(history[i]) \in SavedMaps
  BY <1>1, <1>2 DEF SavedMaps
<1>5. UndoMaps \in [1 .. SafeVersion -> SavedMaps]
  BY <1>3, <1>4
<1>6. UndoMaps \in Seq(SavedMaps) /\ Len(UndoMaps) = SafeVersion
  BY <1>2, <1>5, SeqDef, LenProperties
<1> QED BY <1>2, <1>3, <1>6

LEMMA MapsNext ==
    UndoMaps' = [i \in 1 .. SafeVersion' |-> SavedMap(history'[i])]
BY DEF UndoMaps, SafeVersion, SavedMap, SavedItems, SavedValue

\* The stack is untouched by a step that keeps the records that stay.
LEMMA MapsSame ==
    ASSUME IInv, SafeVersion' = SafeVersion,
           \A i \in 1 .. SafeVersion : history'[i] = history[i]
    PROVE  UndoMaps' = UndoMaps
<1>1. UndoMaps = [i \in 1 .. SafeVersion |-> SavedMap(history[i])]
  BY DEF UndoMaps, SafeVersion
<1> QED BY <1>1, MapsNext

\* What is live of an item that the open record saved, and of one it did not.
LEMMA LiveSaved ==
    ASSUME NEW k \in Items
    PROVE  /\ k \in SavedItems(OpenRecord) => LiveItems[k] = SavedValue(OpenRecord, k)
           /\ k \notin SavedItems(OpenRecord) => LiveItems[k] = CurrentValue(k)
           /\ k \in SavedItems(OpenRecord') => LiveItems'[k] = SavedValue(OpenRecord', k)
           /\ k \notin SavedItems(OpenRecord') => LiveItems'[k] = CurrentValue(k)'
BY LiveNow, LiveNext

-----------------------------------------------------------------------------
(* The refinement, one action at a time. *)

\* A step within an operation, or between operations without any effect.
Stutters == LiveItems' = LiveItems /\ UndoMaps' = UndoMaps /\ Phase' = Phase

LEMMA EntryStutters ==
    ASSUME IInv, UndoInv, NEW f, EntryApplied(f), pc = "apply", pc' = pc, history' = history
    PROVE  Stutters
<1>1. OpenRecord = record /\ OpenRecord' = record'
  BY OpenNow, OpenNext
<1>2. ASSUME NEW k \in Items PROVE LiveItems'[k] = LiveItems[k]
  <2>1. CASE k \in SavedItems(record)
    <3>1. k \in SavedItems(record') /\ SavedValue(record', k) = SavedValue(record, k)
      BY <2>1 DEF EntryApplied
    <3> QED BY <1>1, <2>1, <3>1, LiveSaved
  <2>2. CASE k \notin SavedItems(record) /\ k \in SavedItems(record')
    <3>1. SavedValue(record', k) = CurrentValue(k)
      BY <2>2 DEF EntryApplied
    <3> QED BY <1>1, <2>2, <3>1, LiveSaved
  <2>3. CASE k \notin SavedItems(record) /\ k \notin SavedItems(record')
    <3>1. CurrentValue(k)' = CurrentValue(k)
      BY <2>3 DEF EntryApplied
    <3> QED BY <1>1, <2>3, <3>1, LiveSaved
  <2> QED BY <2>1, <2>2, <2>3
<1>3. SafeVersion' = SafeVersion
  BY DEF SafeVersion
<1> QED BY <1>2, <1>3, LiveEqual, MapsSame, PhaseNow, PhaseNext DEF Stutters

LEMMA RestoreStutters ==
    ASSUME IInv, UndoInv, RestoreBytecode \/ RestoreBind
    PROVE  Stutters
<1>1. /\ pc \in {"restore_code", "restore_binds"} /\ pc' \in {"restore_code", "restore_binds"}
      /\ history' = history /\ Top' = Top /\ dispatch_table' = dispatch_table
  BY DEF RestoreBytecode, RestoreBind, Top
<1>2. Top \in PatchRecord /\ Aligned(Top) /\ cursor \in Nat \ {0}
      /\ DOMAIN Top.old_bytecodes = 1 .. Len(Top.old_bytecodes)
      /\ DOMAIN Top.old_binds = 1 .. Len(Top.old_binds)
  BY <1>1, TopRecord DEF UndoInv
<1>3. OpenRecord = Top /\ OpenRecord' = Top
  BY <1>1, OpenNow, OpenNext
<1>4. ASSUME NEW k \in Items, k \notin SavedItems(Top)
      PROVE  CurrentValue(k)' = CurrentValue(k)
  <2>1. PICK g \in FuncIds : k = <<g, "code">> \/ k = <<g, "bind">>
    BY ItemCases
  <2>2. CASE RestoreBytecode
    <3>1. \A h : BindKept(h)
      BY <2>2, BindsSame DEF RestoreBytecode
    <3>2. CASE k = <<g, "bind">>
      BY <3>1, <3>2 DEF BindKept
    <3>3. CASE k = <<g, "code">> /\ cursor <= Len(Top.old_bytecodes)
      <4> DEFINE old == Top.old_bytecodes[cursor]
      <4>1. functions' = Put(functions, old.func_id, old.body)
        BY <2>2, <3>3 DEF RestoreBytecode, RegisterFunction
      <4>2. /\ cursor \in DOMAIN Top.modified_funcs
            /\ old.func_id = Top.modified_funcs[cursor]
        BY <1>2, <3>3, RecordTypes DEF Aligned
      <4>3. <<old.func_id, "code">> \in SavedItems(Top)
        BY <1>2, <4>2, SavedCode
      <4>4. g # old.func_id
        BY <1>4, <3>3, <4>3
      <4>5. CodeKept(g)
        <5> HIDE DEF old
        <5> QED BY <4>1, <4>4, CodePut
      <4> QED BY <3>3, <4>5 DEF CodeKept
    <3>4. CASE k = <<g, "code">> /\ ~ (cursor <= Len(Top.old_bytecodes))
      <4>1. functions' = functions
        BY <2>2, <3>4 DEF RestoreBytecode
      <4> QED BY <3>4, <4>1, CodesSame DEF CodeKept
    <3> QED BY <2>1, <3>2, <3>3, <3>4
  <2>3. CASE RestoreBind
    <3> DEFINE f == Top.modified_funcs[cursor]
               bind == Top.old_binds[cursor]
    <3>1. /\ pc = "restore_binds" /\ MoreBinds /\ functions' = functions
          /\ Rebind(GetWrapperForFunc(f), bind)
      BY <2>3 DEF RestoreBind
    <3>2. f \in FuncIds /\ bind \in BindInfo
      BY <3>1, TopPair, CompleteIsInStep DEF UndoInv
    <3>3. cursor \in DOMAIN Top.old_binds
      BY <1>2, <3>1 DEF MoreBinds
    <3>4. <<f, "bind">> \in SavedItems(Top)
      BY <1>2, <3>3, SavedBinding
    <3>5. \A h : h # f => BindKept(h)
      <4> HIDE DEF f, bind
      <4> QED BY <1>1, <3>1, <3>2, BindPut
    <3>6. \A h : CodeKept(h)
      BY <3>1, CodesSame
    <3>7. CASE k = <<g, "code">>
      BY <3>6, <3>7 DEF CodeKept
    <3>8. CASE k = <<g, "bind">>
      <4>1. g # f
        BY <1>4, <3>4, <3>8
      <4> QED BY <3>5, <3>8, <4>1 DEF BindKept
    <3> QED BY <2>1, <3>7, <3>8
  <2> QED BY <2>2, <2>3
<1>5. \A k \in Items : LiveItems'[k] = LiveItems[k]
  BY <1>3, <1>4, LiveSaved
<1>6. SafeVersion' = SafeVersion
  BY <1>1 DEF SafeVersion
<1> QED BY <1>1, <1>5, <1>6, LiveEqual, MapsSame, PhaseNow, PhaseNext DEF Stutters

LEMMA ProgramSets ==
    ASSUME IInv, NEW k \in Items, pc = "idle", pc' = "idle", history' = history,
           \A j \in Items : j # k => CurrentValue(j)' = CurrentValue(j)
    PROVE  Undo!SetOutside(k)
<1>1. \A j \in Items \ {k} : LiveItems'[j] = LiveItems[j]
  BY LiveIdle
<1>2. SafeVersion' = SafeVersion
  BY DEF SafeVersion
<1> QED BY <1>1, <1>2, MapsSame, PhaseNow, PhaseNext DEF Undo!SetOutside

\* A registration sets the binding or the bytecode of one function.
LEMMA RegistersSet ==
    ASSUME IInv, ProgramRegistersNative \/ ProgramRegistersVm
    PROVE  \E k \in Items : Undo!SetOutside(k)
<1>1. pc = "idle" /\ pc' = "idle" /\ history' = history
  BY DEF ProgramRegistersNative, ProgramRegistersVm, patchVars
<1>2. CASE ProgramRegistersNative
  <2>1. PICK f \in FuncIds, fn \in NativeFns, sig \in Sigs : RegisterNativeFunction(f, fn, sig)
    BY <1>2 DEF ProgramRegistersNative
  <2>2. functions' = functions
    BY <2>1 DEF RegisterNativeFunction
  <2>3. /\ \A g : g # f => BindKept(g)
        /\ \A g : CodeKept(g)
    BY <2>1, <2>2, BindRegistered, CodesSame
  <2> DEFINE k == <<f, "bind">>
  <2>4. k \in Items /\ \A j \in Items : j # k => CurrentValue(j)' = CurrentValue(j)
    BY <2>3, ItemCases DEF CodeKept, BindKept, Items
  <2> HIDE DEF k
  <2> QED BY <1>1, <2>4, ProgramSets
<1>3. CASE ProgramRegistersVm
  <2>1. PICK f \in FuncIds, body \in BaseBodies : RegisterVmFunction(f, body)
    BY <1>3 DEF ProgramRegistersVm
  <2>2. functions' = Put(functions, f, body) /\ UNCHANGED <<tableVars, dispatch_table>>
    BY <2>1 DEF RegisterVmFunction, RegisterFunction
  <2>3. /\ \A g : g # f => CodeKept(g)
        /\ \A g : BindKept(g)
    BY <2>2, CodePut, BindsSame
  <2> DEFINE k == <<f, "code">>
  <2>4. k \in Items /\ \A j \in Items : j # k => CurrentValue(j)' = CurrentValue(j)
    BY <2>3, ItemCases DEF CodeKept, BindKept, Items
  <2> HIDE DEF k
  <2> QED BY <1>1, <2>4, ProgramSets
<1> QED BY <1>2, <1>3

LEMMA RebindSets ==
    ASSUME IInv, NEW f \in FuncIds, NEW bind \in BindInfo, ProgramRebinds(f, bind)
    PROVE  \E k \in Items : Undo!SetOutside(k)
<1>1. /\ pc = "idle" /\ pc' = "idle" /\ history' = history /\ functions' = functions
      /\ Rebind(GetWrapperForFunc(f), bind) /\ dispatch_table' = dispatch_table
  BY DEF ProgramRebinds, patchVars
<1>2. /\ \A g : g # f => BindKept(g)
      /\ \A g : CodeKept(g)
  BY <1>1, BindPut, CodesSame
<1> DEFINE k == <<f, "bind">>
<1>3. k \in Items /\ \A j \in Items : j # k => CurrentValue(j)' = CurrentValue(j)
  BY <1>2, ItemCases DEF CodeKept, BindKept, Items
<1> HIDE DEF k
<1> QED BY <1>1, <1>3, ProgramSets

\* Nothing that a value is made of changes.
LEMMA ValuesSame ==
    ASSUME UNCHANGED <<bind_info, dispatch_table, functions>>
    PROVE  \A k : CurrentValue(k)' = CurrentValue(k)
BY DEF CurrentValue, GetWrapperForFunc

LEMMA BeginsChange ==
    ASSUME IInv, ApplyBegin
    PROVE  Undo!BeginChange
<1>1. /\ pc = "idle" /\ pc' = "apply" /\ history' = history
      /\ record' = NewRecord(current_version')
      /\ UNCHANGED <<bind_info, dispatch_table, functions>>
  BY DEF ApplyBegin, runtimeVars
<1>2. SavedItems(record') = {} /\ OpenRecord' = record'
  BY <1>1, SavedNothing, OpenNext
<1>3. \A k \in Items : LiveItems'[k] = LiveItems[k]
  BY <1>1, <1>2, ValuesSame, LiveIdle, LiveSaved
<1>4. SafeVersion' = SafeVersion
  BY <1>1 DEF SafeVersion
<1> QED BY <1>1, <1>3, <1>4, LiveEqual, MapsSame, PhaseNow, PhaseNext DEF Undo!BeginChange

\* The record that is pushed holds what was live of all that the patch touched.
LEMMA EndsChange ==
    ASSUME IInv, UndoInv, ApplyEnd
    PROVE  \E S \in SUBSET Items : Undo!EndChange(S)
<1>1. /\ pc = "apply" /\ pc' = "idle" /\ history' = Append(history, record)
      /\ UNCHANGED <<bind_info, dispatch_table, functions>>
  BY DEF ApplyEnd, runtimeVars
<1>2. record \in PatchRecord /\ Aligned(record) /\ OpenRecord = record
  BY <1>1, LayerTypes, OpenNow DEF UndoInv, RecordsComplete, RecordComplete
<1> DEFINE S == SavedItems(record)
<1>3. S \in SUBSET Items
  BY <1>2, SavedOnly
<1>4. \A k \in Items \ S : LiveItems'[k] = LiveItems[k]
  BY <1>1, <1>2, ValuesSame, LiveIdle, LiveSaved
<1>5. [k \in S |-> LiveItems[k]] = SavedMap(record)
  BY <1>2, <1>3, LiveSaved DEF SavedMap
<1>6. UndoMaps' = Append(UndoMaps, SavedMap(record))
  <2>1. history \in Seq(PatchRecord) /\ Len(history) \in Nat
    BY DEF IInv, TypeOK
  <2>2. /\ Len(history') = Len(history) + 1
        /\ history'[Len(history) + 1] = record
        /\ \A i \in 1 .. Len(history) : history'[i] = history[i]
        /\ history' \in Seq(PatchRecord)
    BY <1>1, <1>2, <2>1
  <2>3. SafeVersion = Len(history) /\ SafeVersion' = Len(history) + 1
    BY <1>1, <2>2 DEF SafeVersion
  <2> DEFINE n == Len(history)
  <2>4. /\ UndoMaps \in Seq(SavedMaps) /\ Len(UndoMaps) = n
        /\ \A i \in 1 .. n : UndoMaps[i] = SavedMap(history[i])
    BY <2>3, MapsNow
  <2>5. SavedMap(record) \in SavedMaps
    BY <1>2 DEF SavedMaps
  <2> DEFINE pushed == Append(UndoMaps, SavedMap(record))
  <2>6. /\ pushed \in Seq(SavedMaps) /\ Len(pushed) = n + 1
        /\ \A i \in 1 .. n : pushed[i] = UndoMaps[i]
        /\ pushed[n + 1] = SavedMap(record)
    BY <2>4, <2>5, AppendProperties
  <2>7. UndoMaps' = [i \in 1 .. n + 1 |-> SavedMap(history'[i])]
    BY <2>3, MapsNext
  <2>8. UndoMaps' \in Seq(SavedMaps) /\ Len(UndoMaps') = n + 1
    <3>1. \A i \in 1 .. n + 1 : SavedMap(history'[i]) \in SavedMaps
      BY <2>1, <2>2 DEF SavedMaps
    <3>2. UndoMaps' \in [1 .. n + 1 -> SavedMaps] /\ n + 1 \in Nat
      BY <2>1, <2>7, <3>1
    <3> QED BY <3>2, SeqDef, LenProperties
  <2>9. ASSUME NEW i \in 1 .. n + 1 PROVE UndoMaps'[i] = pushed[i]
    <3>1. UndoMaps'[i] = SavedMap(history'[i])
      BY <2>7, <2>9
    <3> HIDE DEF pushed
    <3>2. CASE i \in 1 .. n
      <4>1. history'[i] = history[i]
        BY <2>2, <3>2
      <4> QED BY <2>4, <2>6, <3>1, <3>2, <4>1
    <3>3. CASE i = n + 1
      <4>1. history'[i] = record
        BY <2>2, <3>3
      <4> QED BY <2>6, <3>1, <3>3, <4>1
    <3> QED BY <2>1, <2>9, <3>2, <3>3
  <2> HIDE DEF pushed, n
  <2>10. \A i \in 1 .. Len(UndoMaps') : UndoMaps'[i] = pushed[i]
    BY <2>8, <2>9
  <2>11. UndoMaps' = pushed
    BY <2>6, <2>8, <2>10, SeqEqual
  <2> QED BY <2>11 DEF pushed
<1>7. Undo!EndChange(S)
  <2> HIDE DEF S
  <2> QED BY <1>1, <1>4, <1>5, <1>6, PhaseNow, PhaseNext DEF Undo!EndChange
<1> QED BY <1>3, <1>7

\* From its beginning on, a rollback shows the values that its record saved.
LEMMA BeginsUndo ==
    ASSUME IInv, UndoInv, RollbackBegin
    PROVE  Undo!BeginUndo
<1>1. /\ pc = "idle" /\ pc' = "restore_code" /\ history' = history /\ history # <<>>
      /\ UNCHANGED <<bind_info, dispatch_table, functions>>
  BY DEF RollbackBegin, runtimeVars
<1>2. /\ history \in Seq(PatchRecord) /\ Len(history) \in Nat \ {0} /\ Len(history) \in DOMAIN history
      /\ Top \in PatchRecord /\ Top' = Top
  <2>1. history \in Seq(PatchRecord)
    BY DEF IInv, TypeOK
  <2> QED BY <1>1, <2>1 DEF Top
<1>3. Aligned(Top)
  BY <1>2, LayerTypes DEF UndoInv, RecordsComplete, RecordComplete, Top
<1> DEFINE n == Len(history)
<1>4. SafeVersion = n /\ SafeVersion' = n - 1
  BY <1>1 DEF SafeVersion
<1>5. /\ UndoMaps \in Seq(SavedMaps) /\ Len(UndoMaps) = n
      /\ \A i \in 1 .. n : UndoMaps[i] = SavedMap(history[i])
  BY <1>4, MapsNow
<1>6. UndoMaps # <<>> /\ UndoMaps[Len(UndoMaps)] = SavedMap(Top)
  BY <1>2, <1>5 DEF Top
<1>7. UndoMaps' = SubSeq(UndoMaps, 1, Len(UndoMaps) - 1)
  <2> DEFINE popped == SubSeq(UndoMaps, 1, Len(UndoMaps) - 1)
  <2>1. /\ popped \in Seq(SavedMaps) /\ Len(popped) = n - 1
        /\ \A i \in 1 .. n - 1 : popped[i] = UndoMaps[i]
    BY <1>2, <1>5, PopBack
  <2>2. UndoMaps' = [i \in 1 .. n - 1 |-> SavedMap(history[i])]
    BY <1>1, <1>4, MapsNext
  <2>3. UndoMaps' \in Seq(SavedMaps) /\ Len(UndoMaps') = n - 1
    <3>1. \A i \in 1 .. n - 1 : SavedMap(history[i]) \in SavedMaps
      BY <1>2 DEF SavedMaps
    <3>2. UndoMaps' \in [1 .. n - 1 -> SavedMaps] /\ n - 1 \in Nat
      BY <1>2, <2>2, <3>1
    <3> QED BY <3>2, SeqDef, LenProperties
  <2>4. \A i \in 1 .. n - 1 : UndoMaps'[i] = popped[i]
    <3> HIDE DEF popped
    <3> SUFFICES ASSUME NEW i \in 1 .. n - 1 PROVE UndoMaps'[i] = popped[i]
      OBVIOUS
    <3>1. i \in 1 .. n
      BY <1>2
    <3> QED BY <1>5, <2>1, <2>2, <3>1
  <2> HIDE DEF popped, n
  <2>5. UndoMaps' = popped
    BY <2>1, <2>3, <2>4, SeqEqual
  <2> QED BY <2>5 DEF popped
<1>8. LiveItems' = [k \in Items |-> IF k \in DOMAIN SavedMap(Top)
                                    THEN SavedMap(Top)[k] ELSE LiveItems[k]]
  <2>1. OpenRecord' = Top
    BY <1>1, <1>2, OpenNext
  <2>2. DOMAIN SavedMap(Top) = SavedItems(Top)
        /\ \A k \in SavedItems(Top) : SavedMap(Top)[k] = SavedValue(Top, k)
    BY DEF SavedMap
  <2>3. \A k \in Items : LiveItems'[k] = IF k \in DOMAIN SavedMap(Top)
                                         THEN SavedMap(Top)[k] ELSE LiveItems[k]
    BY <1>1, <2>1, <2>2, ValuesSame, LiveIdle, LiveSaved
  <2>4. LiveItems' = [k \in Items |-> LiveItems'[k]]
    BY DEF LiveItems
  <2> QED BY <2>3, <2>4
<1> QED BY <1>1, <1>6, <1>7, <1>8, PhaseNow, PhaseNext DEF Undo!BeginUndo

\* At the end of Rollback all that the record saved is back.
LEMMA AllIsRestored ==
    ASSUME IInv, UndoInv, pc = "restore_binds", ~ MoreBinds, NEW k \in SavedItems(Top)
    PROVE  CurrentValue(k) = SavedValue(Top, k)
<1>1. pc = "restore_binds" /\ ~ MoreBinds
  OBVIOUS
<1>2. /\ Top \in PatchRecord /\ Aligned(Top) /\ cursor \in Nat \ {0}
      /\ DOMAIN Top.old_bytecodes = 1 .. Len(Top.old_bytecodes)
      /\ DOMAIN Top.old_binds = 1 .. Len(Top.old_binds)
  BY <1>1, TopRecord DEF UndoInv
<1>3. \A i \in DOMAIN Top.old_binds : i < cursor
  <2>1. /\ Len(Top.old_binds) \in Nat /\ Len(Top.modified_funcs) \in Nat
        /\ Len(Top.old_binds) <= Len(Top.modified_funcs)
    BY <1>2 DEF PatchRecord, Aligned
  <2> QED BY <1>1, <1>2, <2>1 DEF MoreBinds
<1>4. CASE \E i \in DOMAIN Top.modified_funcs : k = <<Top.modified_funcs[i], "code">>
  <2>1. PICK i \in DOMAIN Top.modified_funcs : k = <<Top.modified_funcs[i], "code">>
    BY <1>4
  <2>2. i \in DOMAIN Top.old_bytecodes
    BY <1>2, RecordTypes
  <2> QED BY <1>1, <1>2, <2>1, <2>2, SavedCode DEF UndoInv, RestoredExactly
<1>5. CASE \E i \in DOMAIN Top.old_binds : k = <<Top.modified_funcs[i], "bind">>
  <2>1. PICK i \in DOMAIN Top.old_binds : k = <<Top.modified_funcs[i], "bind">>
    BY <1>5
  <2> QED BY <1>1, <1>2, <1>3, <2>1, SavedBinding DEF UndoInv, RestoredExactly
<1> QED BY <1>2, <1>4, <1>5, SavedOnly

\* So the values are those, and the record may go.
LEMMA EndsUndo ==
    ASSUME IInv, UndoInv, RollbackEnd
    PROVE  Undo!EndUndo
<1>1. /\ pc = "restore_binds" /\ pc' = "idle" /\ ~ MoreBinds
      /\ history' = SubSeq(history, 1, Len(history) - 1)
      /\ UNCHANGED <<bind_info, dispatch_table, functions>>
  BY DEF RollbackEnd, runtimeVars
<1>2. /\ Top \in PatchRecord /\ Aligned(Top) /\ OpenRecord = Top
  BY <1>1, TopRecord, OpenNow DEF UndoInv
<1>3. \A k \in SavedItems(Top) : CurrentValue(k) = SavedValue(Top, k)
  BY <1>1, AllIsRestored
<1>4. \A k \in Items : LiveItems'[k] = LiveItems[k]
  BY <1>1, <1>2, <1>3, ValuesSame, LiveIdle, LiveSaved
<1>5. history \in Seq(PatchRecord) /\ Len(history) \in Nat \ {0}
  BY <1>1, TopType DEF IInv, TypeOK
<1>6. Len(history') = Len(history) - 1 /\ \A i \in 1 .. Len(history') : history'[i] = history[i]
  BY <1>1, <1>5, PopBack
<1>7. SafeVersion = Len(history) - 1 /\ SafeVersion' = Len(history) - 1
  BY <1>1, <1>6 DEF SafeVersion
<1>8. UndoMaps' = UndoMaps
  BY <1>6, <1>7, MapsSame
<1> QED BY <1>1, <1>4, <1>8, LiveEqual, PhaseNow, PhaseNext DEF Undo!EndUndo

LEMMA InitMaps == Init => Undo!UndoInit
<1> SUFFICES ASSUME Init PROVE Undo!UndoInit
  OBVIOUS
<1>1. history = <<>> /\ pc = "idle"
  BY DEF Init
<1>2. Len(UndoMaps) = 0 /\ UndoMaps \in Seq(SavedMaps)
  BY <1>1, InitIInv, MapsNow DEF SafeVersion
<1>3. UndoMaps = <<>>
  BY <1>2, EmptySeq
<1> QED BY <1>1, <1>3, PhaseNow DEF Undo!UndoInit

LEMMA StepRefines ==
    ASSUME CareInv, [CarefulNext]_functionPatchVars
    PROVE  [Undo!UndoNext]_(Undo!undoVars)
<1> USE DEF CareInv
<1>1. ASSUME Stutters PROVE UNCHANGED Undo!undoVars
  BY <1>1 DEF Stutters, Undo!undoVars
<1>2. CASE ApplyModified \/ ApplyRemoved
  <2>1. pc = "apply" /\ pc' = pc /\ history' = history
    BY <1>2 DEF ApplyModified, ApplyRemoved, AtEntry, NextEntry
  <2>2. EntryApplied(Head(todo).func_id)
    BY <1>2, ModifiedApplies, RemovedApplies
  <2> DEFINE f == Head(todo).func_id
  <2>3. EntryApplied(f)
    BY <2>2
  <2> HIDE DEF f
  <2>4. Stutters
    BY <2>1, <2>3, EntryStutters DEF EntryApplied
  <2> QED BY <1>1, <2>4
<1>3. CASE RestoreBytecode \/ RestoreBind
  BY <1>1, <1>3, RestoreStutters
<1>4. CASE UNCHANGED vars
  <2>1. /\ UNCHANGED <<pc, history, record>>
        /\ UNCHANGED <<bind_info, dispatch_table, functions>>
    BY <1>4 DEF vars
  <2>2. OpenRecord' = OpenRecord /\ SafeVersion' = SafeVersion /\ Phase' = Phase
    BY <2>1 DEF OpenRecord, Top, NoRecord, NewRecord, SafeVersion, Phase
  <2>3. \A k \in Items : LiveItems'[k] = LiveItems[k]
    BY <2>1, <2>2, ValuesSame, LiveSaved
  <2>4. Stutters
    BY <2>1, <2>2, <2>3, LiveEqual, MapsSame DEF Stutters
  <2> QED BY <1>1, <2>4
<1>5. CASE ProgramRegistersNative \/ ProgramRegistersVm
  BY <1>5, RegistersSet DEF Undo!UndoNext
<1>6. CASE ApplyBegin
  BY <1>6, BeginsChange DEF Undo!UndoNext
<1>7. CASE ApplyEnd
  BY <1>7, EndsChange DEF Undo!UndoNext
<1>8. CASE RollbackBegin
  BY <1>8, BeginsUndo DEF Undo!UndoNext
<1>9. CASE RollbackEnd
  BY <1>9, EndsUndo DEF Undo!UndoNext
<1>10. CASE \E f \in FuncIds : ProgramRedirects(f) \/ ProgramUnpatches(f)
  BY <1>10, RedirectRebinds, UnpatchRebinds, RebindSets DEF Undo!UndoNext
<1>11. CASE \E f \in FuncIds : ProgramPatches(f)
  BY <1>4, <1>11, PatchEnters
<1>12. CASE UNCHANGED functionPatchVars
  BY <1>4, <1>12 DEF functionPatchVars, vars
<1>13. ~ ApplyAdded
  BY NoneIsAdded
<1> QED BY <1>2, <1>3, <1>5, <1>6, <1>7, <1>8, <1>9, <1>10, <1>11, <1>12, <1>13
  DEF CarefulNext, Next

\* Patches and rollbacks of a careful program are changes and undos: ApplyPatch
\* saves the previous value of all that it changes, and Rollback puts exactly
\* those back, however patches, registrations and redirections are stacked
\* (patch_manager.cpp:20-122, function_patch.cpp:5-27).
THEOREM RollbackIsUndo == CarefulSpec => ImplementsUndoStack
<1>1. CarefulInit => Undo!UndoInit
  BY InitMaps DEF CarefulInit
<1>2. CareInv /\ [CarefulNext]_functionPatchVars => [Undo!UndoNext]_(Undo!undoVars)
  BY StepRefines
<1> QED BY <1>1, <1>2, Carefulness, PTL DEF CarefulSpec, ImplementsUndoStack, Undo!UndoSpec

-----------------------------------------------------------------------------
(* Where every binding and every bytecode comes from. *)

LEMMA SavesMeans ==
    ASSUME NEW rec, NEW f
    PROVE  /\ SavesBind(rec, f) <=> <<f, "bind">> \in SavedItems(rec)
           /\ SavesCode(rec, f) <=> <<f, "code">> \in SavedItems(rec)
BY DEF SavesBind, SavesCode, SavedItems

\* The parts of OriginalsFounded.
LayerFounded(n) ==
    /\ \A i \in DOMAIN Layer(n).old_binds :
          LET old == Layer(n).old_binds[i] IN BindFounded(old.func_id, old, n - 1)
    /\ \A i \in DOMAIN Layer(n).old_bytecodes :
          LET old == Layer(n).old_bytecodes[i] IN CodeFounded(old.func_id, old.body, n - 1)

EntryFounded(f) ==
    OriginalBind(entries[f].original_bind) \/ UnderPatch(f, entries[f].made_at)

BindInPlace(f) ==
    HasWrapper(f) => BindFounded(f, bind_info[GetWrapperForFunc(f)], Len(history) + 1)

CodeInPlace(f) == f \in DOMAIN functions => CodeFounded(f, functions[f], Len(history) + 1)

InPlaceFounded(f) == BindInPlace(f) /\ CodeInPlace(f)

LEMMA FoundedParts ==
    ASSUME CareInv
    PROVE  OriginalsFounded <=> /\ \A n \in Layers : LayerFounded(n)
                                /\ \A f \in DOMAIN entries : EntryFounded(f)
                                /\ \A f \in FuncIds : InPlaceFounded(f)
<1>1. DOMAIN functions \subseteq FuncIds
  BY MapApply DEF CareInv, IInv, TypeOK, RuntimeTypeOK
<1> QED BY <1>1 DEF OriginalsFounded, LayerFounded, EntryFounded, InPlaceFounded, BindInPlace,
                 CodeInPlace

LEMMA FoundedPartsNext ==
    ASSUME CareInv', \A n \in Layers' : LayerFounded(n)',
           \A f \in DOMAIN entries' : EntryFounded(f)',
           \A f \in FuncIds : InPlaceFounded(f)'
    PROVE  OriginalsFounded'
<1>1. DOMAIN functions' \subseteq FuncIds
  BY MapApply DEF CareInv, IInv, TypeOK, RuntimeTypeOK
<1> QED BY <1>1 DEF OriginalsFounded, LayerFounded, EntryFounded, InPlaceFounded, BindInPlace,
                 CodeInPlace

\* The records up to v keep what they saved; so does the entry of f.
SavesKept(v) ==
    \A m \in Layers : m <= v =>
       /\ m \in Layers'
       /\ \A f : /\ SavesBind(Layer(m), f) => SavesBind(Layer(m), f)'
                 /\ SavesCode(Layer(m), f) => SavesCode(Layer(m), f)'

EntryStays(f, v) ==
    f \in DOMAIN entries /\ entries[f].made_at <= v
       => f \in DOMAIN entries' /\ entries'[f] = entries[f]

LEMMA FoundedKept ==
    ASSUME CareInv, NEW v \in Int, NEW w \in Int, v <= w, SavesKept(v), NEW f
    PROVE  /\ UnderPatch(f, v) => UnderPatch(f, w)'
           /\ \A body : CodeFounded(f, body, v) => CodeFounded(f, body, w)'
           /\ EntryStays(f, v) => \A bind : BindFounded(f, bind, v) => BindFounded(f, bind, w)'
<1>1. \A m \in Layers : m \in Int
  BY DEF Layers
<1>2. UnderPatch(f, v) => UnderPatch(f, w)'
  BY <1>1 DEF UnderPatch, SavesKept
<1>3. \A body : CodeFounded(f, body, v) => CodeFounded(f, body, w)'
  BY <1>1 DEF CodeFounded, SavesKept
<1>4. EntryStays(f, v) /\ UnderEntry(f, v) => UnderEntry(f, w)'
  <2>1. f \in DOMAIN entries => entries[f].made_at \in Nat
    BY DEF CareInv, EntriesOwn, FunctionEntry
  <2> QED BY <2>1 DEF EntryStays, UnderEntry
<1> QED BY <1>2, <1>3, <1>4 DEF BindFounded

LEMMA LayerStays ==
    ASSUME CareInv, NEW n \in Layers, LayerFounded(n), Layer(n)' = Layer(n),
           SavesKept(n - 1), \A f : EntryStays(f, n - 1)
    PROVE  LayerFounded(n)'
<1>1. n - 1 \in Int /\ n - 1 <= n - 1
  BY DEF Layers
<1>2. \A f : /\ \A body : CodeFounded(f, body, n - 1) => CodeFounded(f, body, n - 1)'
             /\ \A bind : BindFounded(f, bind, n - 1) => BindFounded(f, bind, n - 1)'
  BY <1>1, FoundedKept
<1>3. ASSUME NEW i \in DOMAIN Layer(n)'.old_binds, NEW old, old = Layer(n)'.old_binds[i]
      PROVE  BindFounded(old.func_id, old, n - 1)'
  BY <1>2, <1>3 DEF LayerFounded
<1>4. ASSUME NEW i \in DOMAIN Layer(n)'.old_bytecodes, NEW old, old = Layer(n)'.old_bytecodes[i]
      PROVE  CodeFounded(old.func_id, old.body, n - 1)'
  BY <1>2, <1>4 DEF LayerFounded
<1> QED BY <1>3, <1>4 DEF LayerFounded

LEMMA EmptyLayerFounded ==
    ASSUME NEW n, NEW v, Layer(n)' = NewRecord(v)
    PROVE  LayerFounded(n)'
<1>1. DOMAIN Layer(n)'.old_binds = {} /\ DOMAIN Layer(n)'.old_bytecodes = {}
  BY SavedNothing
<1> QED BY <1>1 DEF LayerFounded

LEMMA EntryStaysFounded ==
    ASSUME CareInv, NEW f \in DOMAIN entries, EntryFounded(f), entries'[f] = entries[f],
           SavesKept(entries[f].made_at)
    PROVE  EntryFounded(f)'
<1> DEFINE v == entries[f].made_at
<1>1. v \in Int /\ v <= v
  BY DEF CareInv, EntriesOwn, FunctionEntry
<1>2. ASSUME NEW w, w = v PROVE UnderPatch(f, w) => UnderPatch(f, w)'
  <2>1. w \in Int /\ w <= w /\ SavesKept(w)
    BY <1>1, <1>2
  <2> HIDE DEF v
  <2> QED BY <2>1, FoundedKept
<1> QED BY <1>2 DEF EntryFounded

\* What is in place stays founded if it stays in place.
LEMMA KeptValues ==
    ASSUME NEW f
    PROVE  /\ BindKept(f) /\ HasWrapper(f)' =>
                 /\ HasWrapper(f)
                 /\ bind_info'[GetWrapperForFunc(f)'] = bind_info[GetWrapperForFunc(f)]
           /\ CodeKept(f) /\ f \in DOMAIN functions' =>
                 f \in DOMAIN functions /\ functions'[f] = functions[f]
<1>1. ASSUME BindKept(f), HasWrapper(f)'
      PROVE  /\ HasWrapper(f)
             /\ bind_info'[GetWrapperForFunc(f)'] = bind_info[GetWrapperForFunc(f)]
  <2>1. CurrentValue(<<f, "bind">>)' = [bind |-> bind_info'[GetWrapperForFunc(f)']]
    BY <1>1 DEF CurrentValue, HasWrapper
  <2>2. CurrentValue(<<f, "bind">>) = [bind |-> bind_info'[GetWrapperForFunc(f)']]
    BY <1>1, <2>1 DEF BindKept
  <2> QED BY <2>2, BindValue, ValuesDiffer
<1>2. ASSUME CodeKept(f), f \in DOMAIN functions'
      PROVE  f \in DOMAIN functions /\ functions'[f] = functions[f]
  <2>1. CurrentValue(<<f, "code">>)' = [code |-> functions'[f]]
    BY <1>2 DEF CurrentValue
  <2>2. CurrentValue(<<f, "code">>) = [code |-> functions'[f]]
    BY <1>2, <2>1 DEF CodeKept
  <2> QED BY <2>2, CodeValue, ValuesDiffer
<1> QED BY <1>1, <1>2

LEMMA InPlaceStays ==
    ASSUME CareInv, NEW f, InPlaceFounded(f), SavesKept(Len(history) + 1),
           Len(history') \in Nat, Len(history) <= Len(history')
    PROVE  /\ BindKept(f) /\ EntryStays(f, Len(history) + 1) => BindInPlace(f)'
           /\ CodeKept(f) => CodeInPlace(f)'
<1>1. Len(history) \in Nat
  BY LayerTypes DEF CareInv
<1>2. ASSUME NEW v, v = Len(history) + 1, NEW w, w = Len(history') + 1
      PROVE  /\ \A body : CodeFounded(f, body, v) => CodeFounded(f, body, w)'
             /\ EntryStays(f, v) => \A bind : BindFounded(f, bind, v) => BindFounded(f, bind, w)'
  <2>1. v \in Int /\ w \in Int /\ v <= w /\ SavesKept(v)
    BY <1>1, <1>2
  <2> QED BY <2>1, FoundedKept
<1>3. ASSUME BindKept(f), EntryStays(f, Len(history) + 1), HasWrapper(f)',
             NEW w, w = Len(history') + 1, NEW bind, bind = bind_info'[GetWrapperForFunc(f)']
      PROVE  BindFounded(f, bind, w)'
  <2>1. HasWrapper(f) /\ bind = bind_info[GetWrapperForFunc(f)]
    BY <1>3, KeptValues
  <2>2. BindFounded(f, bind, Len(history) + 1)
    BY <2>1 DEF InPlaceFounded, BindInPlace
  <2> QED BY <1>2, <1>3, <2>2
<1>4. ASSUME CodeKept(f), f \in DOMAIN functions', NEW w, w = Len(history') + 1,
             NEW body, body = functions'[f]
      PROVE  CodeFounded(f, body, w)'
  <2>1. f \in DOMAIN functions /\ body = functions[f]
    BY <1>4, KeptValues
  <2>2. CodeFounded(f, body, Len(history) + 1)
    BY <2>1 DEF InPlaceFounded, CodeInPlace
  <2> QED BY <1>2, <1>4, <2>2
<1> QED BY <1>3, <1>4 DEF BindInPlace, CodeInPlace

\* A value that is put in place is founded if what was put is.
LEMMA BindPlaced ==
    ASSUME NEW f, NEW bind, CurrentValue(<<f, "bind">>)' = [bind |-> bind],
           NEW w, w = Len(history') + 1, BindFounded(f, bind, w)'
    PROVE  BindInPlace(f)'
<1>1. ASSUME HasWrapper(f)' PROVE bind_info'[GetWrapperForFunc(f)'] = bind
  <2>1. [bind |-> bind_info'[GetWrapperForFunc(f)']] = [bind |-> bind]
    BY <1>1 DEF CurrentValue, HasWrapper
  <2> QED BY <2>1, ValuesDiffer
<1> QED BY <1>1 DEF BindInPlace

LEMMA CodePlaced ==
    ASSUME NEW f, NEW body, CurrentValue(<<f, "code">>)' = [code |-> body],
           NEW w, w = Len(history') + 1, CodeFounded(f, body, w)'
    PROVE  CodeInPlace(f)'
<1>1. ASSUME f \in DOMAIN functions' PROVE functions'[f] = body
  <2>1. [code |-> functions'[f]] = [code |-> body]
    BY <1>1 DEF CurrentValue
  <2> QED BY <2>1, ValuesDiffer
<1> QED BY <1>1 DEF CodeInPlace

\* Outside ApplyPatch only the history's records hold anything.
LEMMA OpenSavesNothing ==
    ASSUME CareInv, pc # "apply"
    PROVE  /\ record = NewRecord(0)
           /\ \A m \in Layers : \A f : SavesBind(Layer(m), f) \/ SavesCode(Layer(m), f)
                                          => m <= Len(history)
<1>1. record = NewRecord(0)
  BY DEF CareInv, IInv, NothingOpen, NoRecord
<1>2. \A f : ~ SavesBind(record, f) /\ ~ SavesCode(record, f)
  BY <1>1, SavedNothing, SavesMeans
<1>3. \A m \in Layers : m <= Len(history) \/ Layer(m) = record
  BY DEF Layer
<1> QED BY <1>1, <1>2, <1>3

LEMMA RecordsSame ==
    ASSUME history' = history, record' = record
    PROVE  /\ Layers' = Layers
           /\ \A n : Layer(n)' = Layer(n)
           /\ \A v : SavesKept(v)
<1>1. Layers' = Layers /\ \A n : Layer(n)' = Layer(n)
  BY DEF Layers, Layer
<1> QED BY <1>1 DEF SavesKept, SavesBind, SavesCode

\* A step that leaves the records alone.
LEMMA InPlaceStep ==
    ASSUME CareInv, CareInv', OriginalsFounded, history' = history, record' = record,
           \A n \in Layers : (\A f : EntryStays(f, n - 1)) \/ Layer(n) = NewRecord(0),
           \A f \in DOMAIN entries' :
              (f \in DOMAIN entries /\ entries'[f] = entries[f]) \/ EntryFounded(f)',
           \A f \in FuncIds :
              /\ (BindKept(f) /\ EntryStays(f, Len(history) + 1)) \/ BindInPlace(f)'
              /\ CodeKept(f) \/ CodeInPlace(f)'
    PROVE  OriginalsFounded'
<1>1. /\ Layers' = Layers /\ \A n : Layer(n)' = Layer(n)
      /\ \A v : SavesKept(v)
  BY RecordsSame
<1>2. /\ \A n \in Layers : LayerFounded(n)
      /\ \A f \in DOMAIN entries : EntryFounded(f)
      /\ \A f \in FuncIds : InPlaceFounded(f)
  BY FoundedParts
<1>3. Len(history) \in Nat
  BY LayerTypes DEF CareInv
<1>4. ASSUME NEW n \in Layers' PROVE LayerFounded(n)'
  <2>1. CASE \A f : EntryStays(f, n - 1)
    BY <1>1, <1>2, <1>4, <2>1, LayerStays
  <2>2. CASE Layer(n) = NewRecord(0)
    BY <1>1, <2>2, EmptyLayerFounded
  <2> QED BY <1>1, <1>4, <2>1, <2>2
<1>5. ASSUME NEW f \in DOMAIN entries' PROVE EntryFounded(f)'
  BY <1>1, <1>2, <1>5, EntryStaysFounded
<1>6. ASSUME NEW f \in FuncIds PROVE InPlaceFounded(f)'
  <2>1. /\ BindKept(f) /\ EntryStays(f, Len(history) + 1) => BindInPlace(f)'
        /\ CodeKept(f) => CodeInPlace(f)'
    BY <1>1, <1>2, <1>3, InPlaceStays
  <2> QED BY <2>1 DEF InPlaceFounded
<1> QED BY <1>4, <1>5, <1>6, FoundedPartsNext

-----------------------------------------------------------------------------
(* OriginalsFounded, one action at a time. *)

LEMMA EntriesAllStay ==
    ASSUME entries' = entries
    PROVE  /\ \A f, v : EntryStays(f, v)
           /\ \A f \in DOMAIN entries' : f \in DOMAIN entries /\ entries'[f] = entries[f]
BY DEF EntryStays

LEMMA RegisterFounded ==
    ASSUME CareInv, CareInv', OriginalsFounded, entries' = entries,
           ProgramRegistersNative \/ ProgramRegistersVm
    PROVE  OriginalsFounded'
<1>1. history' = history /\ record' = record
  BY DEF ProgramRegistersNative, ProgramRegistersVm, patchVars
<1>2. CASE ProgramRegistersNative
  <2>1. PICK f \in FuncIds, fn \in NativeFns, sig \in Sigs : RegisterNativeFunction(f, fn, sig)
    BY <1>2 DEF ProgramRegistersNative
  <2>2. \A g : CodeKept(g)
    BY <2>1, CodesSame DEF RegisterNativeFunction
  <2>3. /\ \A g : g # f => BindKept(g)
        /\ \/ BindKept(f)
           \/ CurrentValue(<<f, "bind">>)' = [bind |-> NativeBind(f, fn, sig)]
    BY <2>1, BindRegistered DEF CareInv
  <2>4. ASSUME CurrentValue(<<f, "bind">>)' = [bind |-> NativeBind(f, fn, sig)]
        PROVE  BindInPlace(f)'
    <3> DEFINE bind == NativeBind(f, fn, sig)
    <3>1. ASSUME NEW w PROVE BindFounded(f, bind, w)'
      BY DEF BindFounded, OriginalBind, NativeBind
    <3> HIDE DEF bind
    <3>2. CurrentValue(<<f, "bind">>)' = [bind |-> bind]
      BY <2>4 DEF bind
    <3>3. PICK w : w = Len(history') + 1
      OBVIOUS
    <3> QED BY <3>1, <3>2, <3>3, BindPlaced
  <2> QED BY <1>1, <2>2, <2>3, <2>4, EntriesAllStay, InPlaceStep
<1>3. CASE ProgramRegistersVm
  <2>1. PICK f \in FuncIds, body \in BaseBodies : RegisterVmFunction(f, body)
    BY <1>3 DEF ProgramRegistersVm
  <2>2. functions' = Put(functions, f, body) /\ UNCHANGED <<tableVars, dispatch_table>>
    BY <2>1 DEF RegisterVmFunction, RegisterFunction
  <2>3. /\ \A g : BindKept(g)
        /\ \A g : g # f => CodeKept(g)
        /\ CurrentValue(<<f, "code">>)' = [code |-> body]
    BY <2>2, BindsSame, CodePut
  <2>4. CodeInPlace(f)'
    <3>1. \A w : CodeFounded(f, body, w)'
      BY DEF CodeFounded
    <3>2. PICK w : w = Len(history') + 1
      OBVIOUS
    <3> QED BY <2>3, <3>1, <3>2, CodePlaced
  <2> QED BY <1>1, <2>3, <2>4, EntriesAllStay, InPlaceStep
<1> QED BY <1>2, <1>3

\* What Rollback puts in place was founded when it was saved.
LEMMA RestoreFounded ==
    ASSUME CareInv, CareInv', OriginalsFounded, entries' = entries,
           RestoreBytecode \/ RestoreBind
    PROVE  OriginalsFounded'
<1>1. /\ history' = history /\ record' = record
      /\ pc \in {"restore_code", "restore_binds"}
  BY DEF RestoreBytecode, RestoreBind
<1>2. /\ Top \in PatchRecord /\ Aligned(Top) /\ cursor \in Nat \ {0}
      /\ Len(history) \in Layers /\ Layer(Len(history)) = Top /\ Len(history) \in Nat \ {0}
      /\ DOMAIN Top.old_bytecodes = 1 .. Len(Top.old_bytecodes)
      /\ DOMAIN Top.old_binds = 1 .. Len(Top.old_binds)
  BY <1>1, TopRecord DEF CareInv, UndoInv
<1>3. LayerFounded(Len(history))
  BY <1>2, FoundedParts
<1>4. ASSUME NEW f, NEW w, w = Len(history') + 1
      PROVE  /\ \A body : CodeFounded(f, body, Len(history) - 1) => CodeFounded(f, body, w)'
             /\ \A bind : BindFounded(f, bind, Len(history) - 1) => BindFounded(f, bind, w)'
  <2>1. w \in Int /\ Len(history) - 1 \in Int /\ Len(history) - 1 <= w
    BY <1>1, <1>2, <1>4
  <2>2. PICK v : v = Len(history) - 1
    OBVIOUS
  <2>3. SavesKept(v) /\ EntryStays(f, v)
    BY <1>1, RecordsSame, EntriesAllStay
  <2> QED BY <2>1, <2>2, <2>3, FoundedKept
<1>5. CASE RestoreBytecode
  <2>1. \A g : BindKept(g)
    BY <1>5, BindsSame DEF RestoreBytecode
  <2>2. CASE cursor <= Len(Top.old_bytecodes)
    <3>1. PICK old : old = Top.old_bytecodes[cursor]
      OBVIOUS
    <3>2. functions' = Put(functions, old.func_id, old.body)
      BY <1>5, <2>2, <3>1 DEF RestoreBytecode, RegisterFunction
    <3>3. CodeFounded(old.func_id, old.body, Len(history) - 1)
      BY <1>2, <1>3, <2>2, <3>1 DEF LayerFounded
    <3>4. PICK w : w = Len(history') + 1
      OBVIOUS
    <3>5. CodeInPlace(old.func_id)'
      <4>1. CodeFounded(old.func_id, old.body, w)'
        BY <1>4, <3>3, <3>4
      <4>2. CurrentValue(<<old.func_id, "code">>)' = [code |-> old.body]
        BY <3>2, CodePut
      <4> QED BY <3>4, <4>1, <4>2, CodePlaced
    <3>6. \A g : g # old.func_id => CodeKept(g)
      BY <3>2, CodePut
    <3> QED BY <1>1, <2>1, <3>5, <3>6, EntriesAllStay, InPlaceStep
  <2>3. CASE ~ (cursor <= Len(Top.old_bytecodes))
    <3>1. functions' = functions
      BY <1>5, <2>3 DEF RestoreBytecode
    <3> QED BY <1>1, <2>1, <3>1, CodesSame, EntriesAllStay, InPlaceStep
  <2> QED BY <2>2, <2>3
<1>6. CASE RestoreBind
  <2>1. /\ pc = "restore_binds" /\ MoreBinds /\ functions' = functions
        /\ dispatch_table' = dispatch_table
        /\ Rebind(GetWrapperForFunc(Top.modified_funcs[cursor]), Top.old_binds[cursor])
    BY <1>6 DEF RestoreBind
  <2>2. PICK f, bind : f = Top.modified_funcs[cursor] /\ bind = Top.old_binds[cursor]
    OBVIOUS
  <2>3. f \in FuncIds /\ bind \in BindInfo /\ bind.func_id = f
    BY <2>1, <2>2, TopPair, CompleteIsInStep DEF CareInv, UndoInv
  <2>4. /\ HasWrapper(f) => CurrentValue(<<f, "bind">>)' = [bind |-> bind]
        /\ \A g : g # f => BindKept(g)
        /\ \A g : HasWrapper(g)' <=> HasWrapper(g)
    BY <2>1, <2>2, <2>3, BindPut DEF CareInv
  <2>5. cursor \in DOMAIN Top.old_binds
    BY <1>2, <2>1 DEF MoreBinds
  <2>6. BindFounded(f, bind, Len(history) - 1)
    BY <1>2, <1>3, <2>2, <2>3, <2>5 DEF LayerFounded
  <2>7. BindInPlace(f)'
    <3>1. PICK w : w = Len(history') + 1
      OBVIOUS
    <3>2. BindFounded(f, bind, w)'
      BY <1>4, <2>6, <3>1
    <3>3. CASE HasWrapper(f)
      BY <2>4, <3>1, <3>2, <3>3, BindPlaced
    <3>4. CASE ~ HasWrapper(f)
      BY <2>4, <3>4 DEF BindInPlace
    <3> QED BY <3>3, <3>4
  <2> QED BY <1>1, <2>1, <2>4, <2>7, CodesSame, EntriesAllStay, InPlaceStep
<1> QED BY <1>5, <1>6

\* A redirection lies over its entry, and what is put back was founded when it
\* was saved.
LEMMA RebindFounded ==
    ASSUME CareInv, CareInv', OriginalsFounded, NEW f \in FuncIds,
           ProgramRedirects(f) \/ ProgramUnpatches(f)
    PROVE  OriginalsFounded'
<1> USE DEF CareInv
<1>1. PICK bind \in BindInfo :
         /\ ProgramRebinds(f, bind)
         /\ f \in DOMAIN entries
         /\ \/ /\ bind = VmBind(f, functions[f]) /\ entries' = entries
            \/ /\ bind = entries[f].original_bind /\ entries' = Erase(entries, f)
               /\ entries[f].made_at = current_version
  BY RedirectRebinds, UnpatchRebinds DEF ProgramRedirects, IsPatched
<1>2. /\ pc = "idle" /\ Rebind(GetWrapperForFunc(f), bind)
      /\ history' = history /\ record' = record /\ functions' = functions
      /\ dispatch_table' = dispatch_table
  BY <1>1 DEF ProgramRebinds, patchVars
<1>3. /\ HasWrapper(f) => CurrentValue(<<f, "bind">>)' = [bind |-> bind]
      /\ \A g : g # f => BindKept(g)
      /\ \A g : HasWrapper(g)' <=> HasWrapper(g)
      /\ \A g : CodeKept(g)
  BY <1>1, <1>2, BindPut, CodesSame
<1>4. /\ Len(history) \in Nat /\ current_version = Len(history)
      /\ entries[f].made_at \in Nat /\ entries[f].made_at <= Len(history)
      /\ record = NewRecord(0)
  <2>1. Len(history) \in Nat /\ record = NewRecord(0)
    BY <1>2, LayerTypes, OpenSavesNothing
  <2>2. current_version = Len(history) /\ SafeVersion = Len(history)
    BY <1>2, <2>1 DEF IInv, VersionIsDepth, SafeVersion
  <2> QED BY <1>1, <2>1, <2>2 DEF EntriesOwn, FunctionEntry
<1>5. \A g, v : g # f => EntryStays(g, v)
  BY <1>1, PutDomain DEF EntryStays, Erase
<1>6. ASSUME NEW n \in Layers
      PROVE  (\A g : EntryStays(g, n - 1)) \/ Layer(n) = NewRecord(0)
  <2>1. CASE n <= Len(history) /\ entries' # entries
    <3>1. entries[f].made_at = Len(history) /\ ~ (Len(history) <= n - 1)
      BY <1>1, <1>4, <2>1 DEF Layers
    <3> QED BY <1>5, <3>1 DEF EntryStays
  <2>2. CASE ~ (n <= Len(history))
    BY <1>4, <2>2 DEF Layer
  <2>3. CASE entries' = entries
    BY <2>3, EntriesAllStay
  <2> QED BY <2>1, <2>2, <2>3
<1>7. \A g \in DOMAIN entries' : g \in DOMAIN entries /\ entries'[g] = entries[g]
  BY <1>1 DEF Erase
<1>8. BindInPlace(f)'
  <2>1. PICK w : w = Len(history') + 1
    OBVIOUS
  <2>2. w \in Int /\ w = Len(history) + 1
    BY <1>2, <1>4, <2>1
  <2>3. BindFounded(f, bind, w)'
    <3>1. CASE entries' = entries
      <4>1. UnderEntry(f, w)'
        BY <1>1, <1>4, <2>2, <3>1 DEF UnderEntry
      <4> QED BY <4>1 DEF BindFounded
    <3>2. CASE bind = entries[f].original_bind
      <4>1. OriginalBind(bind) \/ UnderPatch(f, entries[f].made_at)
        BY <1>1, <3>2, FoundedParts DEF EntryFounded
      <4>2. PICK v : v = entries[f].made_at
        OBVIOUS
      <4>3. v \in Int /\ v <= w /\ SavesKept(v)
        BY <1>2, <1>4, <2>2, <4>2, RecordsSame
      <4>4. UnderPatch(f, v) => UnderPatch(f, w)'
        BY <2>2, <4>3, FoundedKept
      <4> QED BY <4>1, <4>2, <4>4 DEF BindFounded, OriginalBind
    <3> QED BY <1>1, <3>1, <3>2
  <2>4. CASE HasWrapper(f)
    BY <1>3, <2>1, <2>3, <2>4, BindPlaced
  <2>5. CASE ~ HasWrapper(f)
    BY <1>3, <2>5 DEF BindInPlace
  <2> QED BY <2>4, <2>5
<1> HIDE DEF CareInv
<1> QED BY <1>2, <1>3, <1>5, <1>6, <1>7, <1>8, InPlaceStep

\* The binding that an entry remembers was founded when it was in place.
LEMMA PatchFounded ==
    ASSUME CareInv, CareInv', OriginalsFounded, NEW f \in FuncIds, ProgramPatches(f)
    PROVE  OriginalsFounded'
<1> DEFINE wid == GetWrapperForFunc(f)
           entry == [wrapper_id |-> wid, original_bind |-> bind_info[wid],
                     made_at |-> current_version]
<1>1. /\ UNCHANGED vars /\ pc = "idle" /\ f \notin DOMAIN entries
      /\ entries' = entries \/ (HasWrapper(f) /\ entries' = Put(entries, f, entry))
  BY PatchEnters DEF CareInv
<1>2. /\ history' = history /\ record' = record
      /\ UNCHANGED <<bind_info, dispatch_table, functions>>
  BY <1>1 DEF vars
<1>3. \A g : BindKept(g) /\ CodeKept(g)
  BY <1>2, ValuesSame DEF BindKept, CodeKept
<1>4. \A g, v : EntryStays(g, v)
  BY <1>1 DEF EntryStays, Put
<1>5. ASSUME NEW g \in DOMAIN entries'
      PROVE  (g \in DOMAIN entries /\ entries'[g] = entries[g]) \/ EntryFounded(g)'
  <2>1. CASE entries' = entries
    BY <1>5, <2>1
  <2>2. CASE g # f
    BY <1>1, <1>5, <2>2 DEF Put
  <2>3. CASE g = f /\ HasWrapper(f) /\ entries' = Put(entries, f, entry)
    <3>1. /\ entries'[f].original_bind = bind_info[wid]
          /\ entries'[f].made_at = current_version
      BY <2>3 DEF Put
    <3>2. Len(history) \in Nat /\ current_version = Len(history)
      BY <1>1, LayerTypes DEF CareInv, IInv, VersionIsDepth
    <3>3. BindFounded(f, bind_info[wid], Len(history) + 1)
      BY <2>3, FoundedParts DEF InPlaceFounded, BindInPlace
    <3>4. ~ UnderEntry(f, Len(history) + 1)
      BY <1>1 DEF UnderEntry
    <3>5. UnderPatch(f, Len(history) + 1) => UnderPatch(f, Len(history))
      BY <1>1, OpenSavesNothing DEF UnderPatch
    <3>6. PICK v : v = Len(history)
      OBVIOUS
    <3>7. v \in Int /\ v <= v /\ SavesKept(v)
      BY <1>2, <3>2, <3>6, RecordsSame
    <3>8. UnderPatch(f, v) => UnderPatch(f, v)'
      BY <3>7, FoundedKept
    <3>9. OriginalBind(bind_info[wid]) \/ UnderPatch(f, v)'
      BY <3>3, <3>4, <3>5, <3>6, <3>8 DEF BindFounded
    <3> QED BY <1>2, <2>3, <3>1, <3>2, <3>6, <3>9 DEF EntryFounded, OriginalBind
  <2> QED BY <1>1, <2>1, <2>2, <2>3
<1> QED BY <1>2, <1>3, <1>4, <1>5, InPlaceStep

LEMMA NothingFounded ==
    ASSUME CareInv, CareInv', OriginalsFounded, entries' = entries,
           history' = history, record' = record,
           UNCHANGED <<bind_info, dispatch_table, functions>>
    PROVE  OriginalsFounded'
<1>1. \A g : BindKept(g) /\ CodeKept(g)
  BY ValuesSame DEF BindKept, CodeKept
<1> QED BY <1>1, EntriesAllStay, InPlaceStep

\* An empty record is put on top.
LEMMA OnTopFounded ==
    ASSUME CareInv, CareInv', OriginalsFounded, entries' = entries,
           UNCHANGED <<bind_info, dispatch_table, functions>>,
           ApplyBegin \/ ApplyEnd
    PROVE  OriginalsFounded'
<1>1. history \in Seq(PatchRecord) /\ record \in PatchRecord /\ Len(history) \in Nat
  BY DEF CareInv, IInv, TypeOK
<1>2. \E v : record' = NewRecord(v)
  BY DEF ApplyBegin, ApplyEnd, NoRecord
<1>3. \/ history' = history /\ record = NewRecord(0)
      \/ history' = Append(history, record)
  BY OpenSavesNothing DEF ApplyBegin, ApplyEnd
<1>4. /\ Len(history') \in Nat /\ Len(history) <= Len(history')
      /\ \A n \in Layers : n \in Layers' /\ (n <= Len(history') => Layer(n)' = Layer(n))
      /\ \A n \in Layers' : n \in Layers \/ n = Len(history') + 1
      /\ \A n \in Layers : n <= Len(history') \/ (Layer(n) = NewRecord(0) /\ Layer(n)' = record')
      /\ \A n : n = Len(history') + 1 => Layer(n)' = record'
  <2>1. CASE history' = history /\ record = NewRecord(0)
    <3>1. Layers' = Layers /\ Len(history') = Len(history) /\ \A n \in Layers : n \in Int
      BY <2>1 DEF Layers
    <3>2. \A n \in Layers : n <= Len(history) => Layer(n)' = Layer(n)
      BY <2>1 DEF Layer
    <3>3. \A n \in Layers : ~ (n <= Len(history)) => Layer(n) = NewRecord(0) /\ Layer(n)' = record'
      BY <2>1 DEF Layer
    <3>4. \A n : n = Len(history) + 1 => Layer(n)' = record'
      BY <1>1, <2>1 DEF Layer
    <3> QED BY <1>1, <3>1, <3>2, <3>3, <3>4 DEF Layers
  <2>2. CASE history' = Append(history, record)
    <3>1. /\ Len(history') = Len(history) + 1
          /\ history'[Len(history) + 1] = record
          /\ \A n \in 1 .. Len(history) : history'[n] = history[n]
      BY <1>1, <2>2
    <3>2. /\ Layers = 1 .. Len(history) + 1 /\ Layers' = 1 .. Len(history) + 2
      BY <1>1, <3>1 DEF Layers
    <3>3. \A n \in Layers : n <= Len(history') /\ Layer(n)' = Layer(n)
      BY <1>1, <3>1, <3>2 DEF Layer
    <3>4. \A n : n = Len(history') + 1 => Layer(n)' = record'
      BY <1>1, <3>1 DEF Layer
    <3> QED BY <1>1, <3>1, <3>2, <3>3, <3>4
  <2> QED BY <1>3, <2>1, <2>2
<1>5. \A v : SavesKept(v)
  <2> SUFFICES ASSUME NEW m \in Layers, NEW f
               PROVE  /\ m \in Layers'
                      /\ SavesBind(Layer(m), f) => SavesBind(Layer(m), f)'
                      /\ SavesCode(Layer(m), f) => SavesCode(Layer(m), f)'
    BY DEF SavesKept
  <2>1. CASE Layer(m)' = Layer(m)
    BY <1>4, <2>1 DEF SavesBind, SavesCode
  <2>2. CASE Layer(m) = NewRecord(0)
    BY <1>4, <2>2, SavesMeans, SavedNothing
  <2> QED BY <1>4, <2>1, <2>2
<1>6. /\ \A n \in Layers : LayerFounded(n)
      /\ \A f \in DOMAIN entries : EntryFounded(f)
      /\ \A f \in FuncIds : InPlaceFounded(f)
  BY FoundedParts
<1>7. ASSUME NEW n \in Layers' PROVE LayerFounded(n)'
  <2>1. CASE n \in Layers /\ n <= Len(history')
    BY <1>4, <1>5, <1>6, <2>1, EntriesAllStay, LayerStays
  <2>2. CASE Layer(n)' = record'
    <3>1. PICK v : Layer(n)' = NewRecord(v)
      BY <1>2, <2>2
    <3> QED BY <3>1, EmptyLayerFounded
  <2> QED BY <1>4, <1>7, <2>1, <2>2
<1>8. ASSUME NEW f \in DOMAIN entries' PROVE EntryFounded(f)'
  BY <1>5, <1>6, <1>8, EntryStaysFounded
<1>9. ASSUME NEW f \in FuncIds PROVE InPlaceFounded(f)'
  <2>1. BindKept(f) /\ CodeKept(f)
    BY ValuesSame DEF BindKept, CodeKept
  <2> QED BY <1>4, <1>5, <1>6, <2>1, EntriesAllStay, InPlaceStays DEF InPlaceFounded
<1> QED BY <1>7, <1>8, <1>9, FoundedPartsNext

\* What an entry of a patch saves was in place, and what it puts in place lies
\* over that.
LEMMA EntryFoundedStep ==
    ASSUME CareInv, CareInv', OriginalsFounded, entries' = entries,
           pc = "apply", history' = history, NEW e, EntryApplied(e)
    PROVE  OriginalsFounded'
<1> DEFINE top == Len(history) + 1
<1>1. /\ record \in PatchRecord /\ Aligned(record) /\ top \in Layers /\ Layer(top) = record
      /\ Len(history) \in Nat
  BY LayerTypes DEF CareInv, UndoInv, RecordsComplete, RecordComplete
<1>2. /\ record' \in PatchRecord /\ Aligned(record')
      /\ \A k \in SavedItems(record) :
            k \in SavedItems(record') /\ SavedValue(record', k) = SavedValue(record, k)
      /\ \A k \in SavedItems(record') :
            k \in SavedItems(record) \/ SavedValue(record', k) = CurrentValue(k)
      /\ \A k \in Items : k \in SavedItems(record') \/ CurrentValue(k)' = CurrentValue(k)
  BY DEF EntryApplied
<1>3. /\ Layers' = Layers /\ \A n : n = top => Layer(n)' = record'
      /\ \A n \in Layers : n # top => Layer(n)' = Layer(n) /\ n <= Len(history)
      /\ \A n \in Layers : n \in Int
  BY <1>1 DEF Layers, Layer
<1>4. /\ \A n \in Layers : LayerFounded(n)
      /\ \A f \in DOMAIN entries : EntryFounded(f)
      /\ \A f \in FuncIds : InPlaceFounded(f)
  BY FoundedParts
<1> HIDE DEF top
<1>5. \A v : SavesKept(v)
  <2> SUFFICES ASSUME NEW m \in Layers, NEW f
               PROVE  /\ m \in Layers'
                      /\ SavesBind(Layer(m), f) => SavesBind(Layer(m), f)'
                      /\ SavesCode(Layer(m), f) => SavesCode(Layer(m), f)'
    BY DEF SavesKept
  <2>1. CASE m # top
    BY <1>3, <2>1 DEF SavesBind, SavesCode
  <2>2. CASE m = top
    <3>1. /\ SavesBind(record, f) => SavesBind(record', f)
          /\ SavesCode(record, f) => SavesCode(record', f)
      BY <1>2, SavesMeans
    <3>2. Layer(m) = record /\ Layer(m)' = record' /\ m \in Layers'
      BY <1>1, <1>3, <2>2
    <3>3. /\ SavesBind(Layer(m), f)' <=> SavesBind(record', f)
          /\ SavesCode(Layer(m), f)' <=> SavesCode(record', f)
      BY <3>2 DEF SavesBind, SavesCode
    <3> QED BY <3>1, <3>2, <3>3
  <2> QED BY <2>1, <2>2
\* What is in place and not in the record lies over an earlier record.
<1>6. ASSUME NEW f \in FuncIds
      PROVE  /\ \A bind : <<f, "bind">> \notin SavedItems(record) /\ BindFounded(f, bind, top)
                             => BindFounded(f, bind, Len(history))
             /\ \A body : <<f, "code">> \notin SavedItems(record) /\ CodeFounded(f, body, top)
                             => CodeFounded(f, body, Len(history))
  <2>1. ASSUME <<f, "bind">> \notin SavedItems(record), UnderPatch(f, top)
        PROVE  UnderPatch(f, Len(history))
    BY <1>1, <1>3, <2>1, SavesMeans DEF UnderPatch
  <2>2. UnderEntry(f, top) => UnderEntry(f, Len(history))
    <3>1. f \in DOMAIN entries => entries[f].made_at <= Len(history)
      BY DEF CareInv, EntriesOwn, SafeVersion
    <3> QED BY <3>1 DEF UnderEntry
  <2>3. ASSUME NEW body, <<f, "code">> \notin SavedItems(record), CodeFounded(f, body, top)
        PROVE  CodeFounded(f, body, Len(history))
    BY <1>1, <1>3, <2>3, SavesMeans DEF CodeFounded
  <2> QED BY <2>1, <2>2, <2>3 DEF BindFounded
<1>7. PICK v, w : v = Len(history) /\ w = top
  OBVIOUS
<1>8. ASSUME NEW f
      PROVE  /\ \A bind : BindFounded(f, bind, v) => BindFounded(f, bind, v)'
             /\ \A body : CodeFounded(f, body, v) => CodeFounded(f, body, v)'
  <2>1. v \in Int /\ v <= v /\ SavesKept(v) /\ EntryStays(f, v)
    BY <1>1, <1>5, <1>7, EntriesAllStay
  <2> QED BY <2>1, FoundedKept
<1>9. w \in Layers /\ w - 1 = v /\ Layer(w)' = record' /\ w = Len(history') + 1
  BY <1>1, <1>3, <1>7 DEF top
<1>10. ASSUME NEW i \in DOMAIN record'.old_binds, NEW old, old = record'.old_binds[i]
       PROVE  BindFounded(old.func_id, old, v)'
  <2>1. PICK f : f = old.func_id
    OBVIOUS
  <2> DEFINE k == <<f, "bind">>
  <2>2. /\ k \in SavedItems(record') /\ SavedValue(record', k) = [bind |-> old] /\ f \in FuncIds
    <3>1. record'.modified_funcs[i] = f /\ f \in FuncIds
      BY <1>2, <1>10, <2>1, RecordTypes DEF Aligned
    <3> QED BY <1>2, <1>10, <3>1, SavedBinding
  <2>3. BindFounded(f, old, v)
    <3>1. CASE k \in SavedItems(record)
      <4>1. SavedValue(record, k) = [bind |-> old]
        BY <1>2, <2>2, <3>1
      <4>2. PICK j \in DOMAIN record.old_binds : record.old_binds[j].func_id = f
        BY <3>1, SavesMeans DEF SavesBind
      <4>3. record.modified_funcs[j] = f
        BY <1>1, <4>2 DEF Aligned
      <4>4. SavedValue(record, k) = [bind |-> record.old_binds[j]]
        BY <1>1, <4>2, <4>3, SavedBinding
      <4>5. record.old_binds[j] = old
        BY <4>1, <4>4, ValuesDiffer
      <4> QED BY <1>1, <1>4, <1>7, <1>9, <2>1, <4>2, <4>5 DEF LayerFounded
    <3>2. CASE k \notin SavedItems(record)
      <4>1. CurrentValue(k) = [bind |-> old]
        BY <1>2, <2>2, <3>2
      <4>2. HasWrapper(f) /\ bind_info[GetWrapperForFunc(f)] = old
        BY <4>1, BindValue, ValuesDiffer
      <4>3. BindFounded(f, old, top)
        BY <1>4, <2>2, <4>2 DEF InPlaceFounded, BindInPlace, top
      <4> QED BY <1>6, <1>7, <2>2, <3>2, <4>3
    <3> QED BY <3>1, <3>2
  <2> QED BY <1>8, <2>1, <2>3
<1>11. ASSUME NEW i \in DOMAIN record'.old_bytecodes, NEW old, old = record'.old_bytecodes[i]
       PROVE  CodeFounded(old.func_id, old.body, v)'
  <2>1. PICK f : f = old.func_id
    OBVIOUS
  <2> DEFINE k == <<f, "code">>
  <2>2. /\ k \in SavedItems(record') /\ SavedValue(record', k) = [code |-> old.body]
        /\ f \in FuncIds
    <3>1. i \in DOMAIN record'.modified_funcs /\ record'.modified_funcs[i] = f /\ f \in FuncIds
      BY <1>2, <1>11, <2>1, RecordTypes DEF Aligned
    <3> QED BY <1>2, <1>11, <3>1, SavedCode
  <2>3. CodeFounded(f, old.body, v)
    <3>1. CASE k \in SavedItems(record)
      <4>1. SavedValue(record, k) = [code |-> old.body]
        BY <1>2, <2>2, <3>1
      <4>2. PICK j \in DOMAIN record.old_bytecodes : record.old_bytecodes[j].func_id = f
        BY <3>1, SavesMeans DEF SavesCode
      <4>3. j \in DOMAIN record.modified_funcs /\ record.modified_funcs[j] = f
        BY <1>1, <4>2, RecordTypes DEF Aligned
      <4>4. SavedValue(record, k) = [code |-> record.old_bytecodes[j].body]
        BY <1>1, <4>3, SavedCode
      <4>5. record.old_bytecodes[j].body = old.body
        BY <4>1, <4>4, ValuesDiffer
      <4> QED BY <1>1, <1>4, <1>7, <1>9, <2>1, <4>2, <4>5 DEF LayerFounded
    <3>2. CASE k \notin SavedItems(record)
      <4>1. CurrentValue(k) = [code |-> old.body]
        BY <1>2, <2>2, <3>2
      <4>2. f \in DOMAIN functions /\ functions[f] = old.body
        BY <4>1, CodeValue, ValuesDiffer
      <4>3. CodeFounded(f, old.body, top)
        BY <1>4, <2>2, <4>2 DEF InPlaceFounded, CodeInPlace, top
      <4> QED BY <1>6, <1>7, <2>2, <3>2, <4>3
    <3> QED BY <3>1, <3>2
  <2> QED BY <1>8, <2>1, <2>3
<1>12. ASSUME NEW n \in Layers' PROVE LayerFounded(n)'
  <2>1. CASE n # top
    BY <1>3, <1>4, <1>5, <1>12, <2>1, EntriesAllStay, LayerStays
  <2>2. CASE n = top
    BY <1>7, <1>9, <1>10, <1>11, <2>2 DEF LayerFounded
  <2> QED BY <2>1, <2>2
<1>13. ASSUME NEW f \in DOMAIN entries' PROVE EntryFounded(f)'
  BY <1>4, <1>5, <1>13, EntryStaysFounded
<1>14. ASSUME NEW f \in FuncIds PROVE InPlaceFounded(f)'
  <2>1. BindInPlace(f)'
    <3>1. CASE <<f, "bind">> \in SavedItems(record')
      <4>1. SavesBind(record', f)
        BY <3>1, SavesMeans
      <4>2. UnderPatch(f, w)'
        BY <1>3, <1>9, <4>1 DEF UnderPatch, SavesBind, Layers
      <4> QED BY <1>9, <4>2 DEF BindInPlace, BindFounded
    <3>2. CASE <<f, "bind">> \notin SavedItems(record')
      <4>1. BindKept(f)
        BY <1>2, <3>2 DEF Items, BindKept
      <4> QED BY <1>1, <1>4, <1>5, <4>1, EntriesAllStay, InPlaceStays
    <3> QED BY <3>1, <3>2
  <2>2. CodeInPlace(f)'
    <3>1. CASE <<f, "code">> \in SavedItems(record')
      <4>1. SavesCode(record', f)
        BY <3>1, SavesMeans
      <4>2. \A body : CodeFounded(f, body, w)'
        BY <1>3, <1>9, <4>1 DEF CodeFounded, SavesCode, Layers
      <4> QED BY <1>9, <4>2 DEF CodeInPlace
    <3>2. CASE <<f, "code">> \notin SavedItems(record')
      <4>1. CodeKept(f)
        BY <1>2, <3>2 DEF Items, CodeKept
      <4> QED BY <1>1, <1>4, <1>5, <4>1, EntriesAllStay, InPlaceStays
    <3> QED BY <3>1, <3>2
  <2> QED BY <2>1, <2>2 DEF InPlaceFounded
<1> QED BY <1>12, <1>13, <1>14, FoundedPartsNext
\* Once all is restored, what is in place was founded below the popped record.
LEMMA PopFounded ==
    ASSUME CareInv, CareInv', OriginalsFounded, entries' = entries, RollbackEnd
    PROVE  OriginalsFounded'
<1>1. /\ pc = "restore_binds" /\ ~ MoreBinds /\ record' = record
      /\ history' = SubSeq(history, 1, Len(history) - 1)
      /\ UNCHANGED <<bind_info, dispatch_table, functions>>
  BY DEF RollbackEnd, runtimeVars
<1>2. /\ Top \in PatchRecord /\ Aligned(Top) /\ Len(history) \in Nat \ {0}
      /\ Len(history) \in Layers /\ Layer(Len(history)) = Top
      /\ history \in Seq(PatchRecord)
  BY <1>1, TopRecord DEF CareInv, UndoInv, IInv, TypeOK
<1>3. /\ Len(history') = Len(history) - 1
      /\ \A n \in 1 .. Len(history') : history'[n] = history[n]
      /\ record = NewRecord(0)
  BY <1>1, <1>2, PopBack, OpenSavesNothing
<1>4. PICK v, w : v = Len(history) - 1 /\ w = Len(history)
  OBVIOUS
<1>5. /\ v \in Nat /\ w \in Nat /\ v = w - 1 /\ w = Len(history') + 1
      /\ Layers = 1 .. w + 1 /\ Layers' = 1 .. w
      /\ \A n \in Layers' : n <= v => Layer(n)' = Layer(n)
      /\ Layer(w)' = NewRecord(0)
      /\ w \in Layers /\ Layer(w) = Top
  BY <1>1, <1>2, <1>3, <1>4 DEF Layers, Layer
<1>6. \A u : u \in Int /\ u <= v => SavesKept(u)
  <2> SUFFICES ASSUME NEW u \in Int, u <= v, NEW m \in Layers, m <= u, NEW f
               PROVE  /\ m \in Layers'
                      /\ SavesBind(Layer(m), f) => SavesBind(Layer(m), f)'
                      /\ SavesCode(Layer(m), f) => SavesCode(Layer(m), f)'
    BY DEF SavesKept
  <2>1. m \in Layers' /\ Layer(m)' = Layer(m)
    BY <1>5
  <2> QED BY <2>1 DEF SavesBind, SavesCode
<1>7. /\ \A n \in Layers : LayerFounded(n)
      /\ \A f \in DOMAIN entries : EntryFounded(f)
      /\ \A f \in FuncIds : InPlaceFounded(f)
  BY FoundedParts
<1>8. \A f \in DOMAIN entries : entries[f].made_at \in Nat /\ entries[f].made_at <= v
  BY <1>1, <1>4 DEF CareInv, EntriesOwn, FunctionEntry, SafeVersion
<1>9. \A m \in Layers : \A f : SavesBind(Layer(m), f) \/ SavesCode(Layer(m), f) => m <= v \/ m = w
  BY <1>1, <1>4, <1>5, OpenSavesNothing
<1>10. ASSUME NEW f
       PROVE  /\ \A bind : BindFounded(f, bind, v) => BindFounded(f, bind, w)'
              /\ \A body : CodeFounded(f, body, v) => CodeFounded(f, body, w)'
  <2>1. v \in Int /\ w \in Int /\ v <= w /\ SavesKept(v) /\ EntryStays(f, v)
    BY <1>5, <1>6, EntriesAllStay
  <2> QED BY <2>1, FoundedKept
<1>11. ASSUME NEW f \in FuncIds, HasWrapper(f), NEW bind, bind = bind_info[GetWrapperForFunc(f)]
       PROVE  BindFounded(f, bind, v)
  <2>1. BindFounded(f, bind, w + 1)
    BY <1>4, <1>7, <1>11 DEF InPlaceFounded, BindInPlace
  <2>2. UnderEntry(f, w + 1) => UnderEntry(f, v)
    BY <1>8 DEF UnderEntry
  <2>3. ASSUME UnderPatch(f, w + 1), ~ UnderPatch(f, v)
        PROVE  BindFounded(f, bind, v)
    <3>1. SavesBind(Top, f)
      BY <1>5, <1>9, <2>3 DEF UnderPatch
    <3>2. PICK i \in DOMAIN Top.old_binds : Top.old_binds[i].func_id = f
      BY <3>1 DEF SavesBind
    <3>3. Top.modified_funcs[i] = f /\ <<f, "bind">> \in SavedItems(Top)
      BY <1>2, <3>1, <3>2, SavesMeans DEF Aligned
    <3>4. CurrentValue(<<f, "bind">>) = [bind |-> Top.old_binds[i]]
      BY <1>1, <1>2, <3>2, <3>3, AllIsRestored, SavedBinding DEF CareInv
    <3>5. bind = Top.old_binds[i]
      BY <1>11, <3>4, BindValue, ValuesDiffer
    <3> QED BY <1>5, <1>7, <3>2, <3>5 DEF LayerFounded
  <2> QED BY <2>1, <2>2, <2>3 DEF BindFounded
<1>12. ASSUME NEW f \in DOMAIN functions, f \in FuncIds PROVE CodeFounded(f, functions[f], v)
  <2>1. CodeFounded(f, functions[f], w + 1)
    BY <1>4, <1>7, <1>12 DEF InPlaceFounded, CodeInPlace
  <2>2. CASE SavesCode(Top, f)
    <3>1. PICK i \in DOMAIN Top.old_bytecodes : Top.old_bytecodes[i].func_id = f
      BY <2>2 DEF SavesCode
    <3>2. /\ i \in DOMAIN Top.modified_funcs /\ Top.modified_funcs[i] = f
          /\ <<f, "code">> \in SavedItems(Top)
      BY <1>2, <2>2, <3>1, SavesMeans, RecordTypes DEF Aligned
    <3>3. CurrentValue(<<f, "code">>) = [code |-> Top.old_bytecodes[i].body]
      BY <1>1, <1>2, <3>2, AllIsRestored, SavedCode DEF CareInv
    <3>4. functions[f] = Top.old_bytecodes[i].body
      BY <1>12, <3>3, CodeValue, ValuesDiffer
    <3> QED BY <1>5, <1>7, <3>1, <3>4 DEF LayerFounded
  <2>3. CASE ~ SavesCode(Top, f)
    BY <1>5, <1>9, <2>1, <2>3 DEF CodeFounded
  <2> QED BY <2>2, <2>3
<1>13. ASSUME NEW n \in Layers' PROVE LayerFounded(n)'
  <2>1. CASE n <= v
    <3>1. n \in Layers /\ Layer(n)' = Layer(n) /\ SavesKept(n - 1)
      BY <1>5, <1>6, <1>13, <2>1
    <3> QED BY <1>7, <3>1, EntriesAllStay, LayerStays
  <2>2. CASE n = w
    BY <1>5, <2>2, EmptyLayerFounded
  <2> QED BY <1>5, <1>13, <2>1, <2>2
<1>14. ASSUME NEW f \in DOMAIN entries' PROVE EntryFounded(f)'
  <2>1. f \in DOMAIN entries /\ entries'[f] = entries[f] /\ SavesKept(entries[f].made_at)
    BY <1>6, <1>8, <1>14
  <2> QED BY <1>7, <2>1, EntryStaysFounded
<1>15. ASSUME NEW f \in FuncIds PROVE InPlaceFounded(f)'
  <2>1. /\ HasWrapper(f)' <=> HasWrapper(f)
        /\ bind_info'[GetWrapperForFunc(f)'] = bind_info[GetWrapperForFunc(f)]
    BY <1>1 DEF HasWrapper, GetWrapperForFunc
  <2>2. BindInPlace(f)'
    BY <1>5, <1>10, <1>11, <2>1 DEF BindInPlace
  <2>3. CodeInPlace(f)'
    BY <1>1, <1>5, <1>10, <1>12 DEF CodeInPlace
  <2> QED BY <2>2, <2>3 DEF InPlaceFounded
<1> QED BY <1>13, <1>14, <1>15, FoundedPartsNext

LEMMA OriginalsNext ==
    ASSUME CareInv, OriginalsFounded, [CarefulNext]_functionPatchVars
    PROVE  OriginalsFounded'
<1>1. CareInv'
  BY CareStep
<1>2. CASE Next /\ UNCHANGED entries
  <2>1. CASE ProgramRegistersNative \/ ProgramRegistersVm
    BY <1>1, <1>2, <2>1, RegisterFounded
  <2>2. CASE ApplyBegin \/ ApplyEnd
    BY <1>1, <1>2, <2>2, OnTopFounded DEF ApplyBegin, ApplyEnd, runtimeVars, tableVars
  <2>3. CASE ApplyModified \/ ApplyRemoved
    <3>1. pc = "apply" /\ history' = history
      BY <2>3 DEF ApplyModified, ApplyRemoved, AtEntry, NextEntry
    <3>2. PICK f : f = Head(todo).func_id
      OBVIOUS
    <3>3. EntryApplied(f)
      BY <2>3, <3>2, ModifiedApplies, RemovedApplies DEF CareInv
    <3> QED BY <1>1, <1>2, <3>1, <3>3, EntryFoundedStep
  <2>4. CASE RollbackBegin
    BY <1>1, <1>2, <2>4, NothingFounded DEF RollbackBegin, runtimeVars, tableVars
  <2>5. CASE RestoreBytecode \/ RestoreBind
    BY <1>1, <1>2, <2>5, RestoreFounded
  <2>6. CASE RollbackEnd
    BY <1>1, <1>2, <2>6, PopFounded
  <2>7. ~ ApplyAdded
    BY NoneIsAdded DEF CareInv
  <2> QED BY <1>2, <2>1, <2>2, <2>3, <2>4, <2>5, <2>6, <2>7 DEF Next
<1>3. ASSUME NEW f \in FuncIds, ProgramPatches(f) PROVE OriginalsFounded'
  BY <1>1, <1>3, PatchFounded
<1>4. ASSUME NEW f \in FuncIds, ProgramRedirects(f) \/ ProgramUnpatches(f)
      PROVE  OriginalsFounded'
  BY <1>1, <1>4, RebindFounded
<1>5. CASE UNCHANGED functionPatchVars
  BY <1>1, <1>5, NothingFounded DEF functionPatchVars
<1> QED BY <1>2, <1>3, <1>4, <1>5 DEF CarefulNext

LEMMA InitOriginals == CarefulInit => OriginalsFounded
<1> SUFFICES ASSUME CarefulInit PROVE OriginalsFounded
  OBVIOUS
<1>1. CareInv /\ history = <<>> /\ record = NewRecord(0)
  BY InitCare DEF CarefulInit, Init, NoRecord
<1>2. \A n \in Layers : Layer(n) = NewRecord(0)
  BY <1>1 DEF Layers, Layer
<1>3. \A n \in Layers : LayerFounded(n)
  BY <1>2, SavedNothing DEF LayerFounded
<1>4. DOMAIN entries = {} /\ DOMAIN functions = {} /\ DOMAIN dispatch_table = {}
  BY DEF CarefulInit, Init, RuntimeInit, NoEntries, EmptyMap
<1>5. \A f \in FuncIds : InPlaceFounded(f)
  BY <1>4, WrapperTableAssumption DEF InPlaceFounded, BindInPlace, CodeInPlace, HasWrapper,
     GetWrapperForFunc, WrapperIds
<1> QED BY <1>1, <1>3, <1>4, <1>5, FoundedParts

\* A careful program's every binding and bytecode, in place or saved, lies over
\* one that the program registered: the invariant behind "version 0 is the
\* original program" (patch_manager.h:26, function_patch.h:17).
THEOREM OriginalsLieBelow == CarefulSpec => []CarefulInv
<1>1. CareInv /\ OriginalsFounded => CarefulInv
  BY DEF CarefulInv, CareInv
<1> QED BY <1>1, InitOriginals, OriginalsNext, Carefulness, PTL DEF CarefulSpec
\* The fates of a call are told apart.
LEMMA FatesDiffer ==
    /\ \A a, b : InVm(a) = InVm(b) => a = b
    /\ \A a : InVm(a) # Throws /\ Native(a) # Throws
    /\ \A a, b : Native(a) # InVm(b)
<1>1. ASSUME NEW a, NEW b, InVm(a) = InVm(b) PROVE a = b
  <2>1. InVm(a).body = InVm(b).body
    BY <1>1
  <2> QED BY <2>1 DEF InVm
<1>2. \A a : InVm(a).does = "vm" /\ Native(a).does = "native"
  BY DEF InVm, Native
<1>3. Throws.does = "throws"
  BY DEF Throws
<1> QED BY <1>1, <1>2, <1>3

\* When nothing is saved, what is in place is the program's.
LEMMA BottomIsOriginal ==
    ASSUME CareInv, OriginalsFounded, pc = "idle", current_version = 0, entries = NoEntries
    PROVE  /\ \A f \in FuncIds : HasWrapper(f) => OriginalBind(bind_info[GetWrapperForFunc(f)])
           /\ \A f \in DOMAIN functions : f \in FuncIds /\ functions[f] \in BaseBodies
<1>1. Len(history) = 0
  BY LayerTypes DEF CareInv, IInv, VersionIsDepth
<1>2. Layers \subseteq Int /\ \A m \in Layers : ~ (m <= 0)
  BY <1>1 DEF Layers
<1>3. \A m \in Layers : \A f : ~ SavesBind(Layer(m), f) /\ ~ SavesCode(Layer(m), f)
  BY <1>1, <1>2, OpenSavesNothing
<1>4. DOMAIN entries = {}
  BY DEF NoEntries, EmptyMap
<1>5. \A f \in FuncIds : InPlaceFounded(f)
  BY FoundedParts
<1>6. \A f, v : ~ UnderPatch(f, v) /\ ~ UnderEntry(f, v)
  BY <1>3, <1>4 DEF UnderPatch, UnderEntry
<1>7. DOMAIN functions \subseteq FuncIds
  BY MapApply DEF CareInv, IInv, TypeOK, RuntimeTypeOK
<1>8. \A f \in FuncIds : HasWrapper(f) => OriginalBind(bind_info[GetWrapperForFunc(f)])
  BY <1>5, <1>6 DEF InPlaceFounded, BindInPlace, BindFounded
<1>9. \A f \in DOMAIN functions : functions[f] \in BaseBodies
  BY <1>3, <1>5, <1>7 DEF InPlaceFounded, CodeInPlace, CodeFounded
<1> QED BY <1>7, <1>8, <1>9

\* With every patch rolled back and every redirection taken back the program is
\* the original one: no call reaches a patch's bytecode and none fails that did
\* not fail before (patch_manager.h:26, function_patch.h:17).
THEOREM UnpatchedProgramIsOriginal == CarefulSpec => []UnpatchedIsOriginal
<1>1. ASSUME CareInv, OriginalsFounded, pc = "idle", current_version = 0, entries = NoEntries,
             NEW f \in FuncIds
      PROVE  /\ HasWrapper(f) =>
                   \E fn \in NativeFns : AdapterDispatch(GetWrapperForFunc(f)) = Native(fn)
             /\ HasWrapper(f) \/ HasBytecode(f) => DispatchCall(f) # Throws
             /\ \A body \in Bodies \ BaseBodies : DispatchCall(f) # InVm(body)
  <2> DEFINE wid == GetWrapperForFunc(f)
  <2>1. /\ HasWrapper(f) => OriginalBind(bind_info[wid])
        /\ f \in DOMAIN functions => functions[f] \in BaseBodies
    BY <1>1, BottomIsOriginal
  <2>2. HasWrapper(f) => wid \in UsedSlots /\ wid # kInvalidWrapperId
    BY <1>1, FoundSlot, WrapperTableAssumption DEF CareInv, HasWrapper, WrapperIds
  <2>3. ASSUME HasWrapper(f)
        PROVE  /\ bind_info[wid].mode = kNative /\ bind_info[wid].mode # kVM
               /\ bind_info[wid].native_fn \in NativeFns /\ bind_info[wid].native_fn # nullptr
    BY <2>1, <2>3, TypesAssumption DEF OriginalBind, kNative, kVM
  <2>4. HasWrapper(f) => AdapterDispatch(wid) = Native(bind_info[wid].native_fn)
    BY <2>2, <2>3 DEF AdapterDispatch
  <2>5. CASE f \in DOMAIN functions
    <3>1. DispatchCall(f) = InVm(functions[f])
      BY <2>5 DEF DispatchCall
    <3> QED BY <2>1, <2>3, <2>4, <2>5, <3>1, FatesDiffer
  <2>6. CASE f \notin DOMAIN functions
    <3>1. HasWrapper(f) => DispatchCall(f) = Native(bind_info[wid].native_fn)
      BY <2>2, <2>3, <2>6 DEF DispatchCall
    <3>2. DispatchCall(f) = Throws \/ \E fn : DispatchCall(f) = Native(fn)
      BY <2>6 DEF DispatchCall
    <3>3. \A body : DispatchCall(f) # InVm(body)
      BY <3>2, FatesDiffer
    <3> QED BY <2>3, <2>4, <2>6, <3>1, <3>3, FatesDiffer DEF HasBytecode
  <2> QED BY <2>5, <2>6
<1>2. CareInv /\ OriginalsFounded => UnpatchedIsOriginal
  BY <1>1 DEF UnpatchedIsOriginal, VersionZeroIsOriginal, Idle
<1>3. CarefulInv => OriginalsFounded
  BY DEF CarefulInv
<1> QED BY <1>2, <1>3, OriginalsLieBelow, Carefulness, PTL

=============================================================================
