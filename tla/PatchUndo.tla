------------------------------ MODULE PatchUndo -----------------------------
(***************************************************************************)
(* When is a rollback an undo?  PatchManager restricted to the patches     *)
(* whose undo record is complete and in step: every entry is for a         *)
(* function with bytecode, a modified one has a wrapper too, no function   *)
(* has two entries, and modified functions come before removed ones        *)
(* (Rollback pairs old_binds with modified_funcs by position).  Under      *)
(* these conditions PatchManager implements UndoStack.                     *)
(***************************************************************************)
EXTENDS PatchManager

\* An item is the bytecode of a function, or the binding of its wrapper.
Items == FuncIds \X {"code", "bind"}

NoValue == [none |-> 0]     \* no bytecode, no wrapper

CurrentValue(k) ==
    LET f   == k[1]
        wid == GetWrapperForFunc(f)
    IN  IF k[2] = "code"
        THEN IF f \in DOMAIN functions THEN [code |-> functions[f]] ELSE NoValue
        ELSE IF wid \in WrapperIds THEN [bind |-> bind_info[wid]] ELSE NoValue

-----------------------------------------------------------------------------
(* The restriction on patches. *)

HasBytecode(f) == f \in DOMAIN functions

Undoable(manifest) ==
    LET n == Len(manifest)
    IN  /\ \A i \in 1 .. n :
              /\ HasBytecode(manifest[i].func_id)
              /\ manifest[i].action = kModified => HasWrapper(manifest[i].func_id)
              /\ manifest[i].action \in {kModified, kRemoved}
        /\ \A i, j \in 1 .. n : i < j =>
              /\ manifest[i].func_id # manifest[j].func_id
              /\ manifest[j].action = kModified => manifest[i].action = kModified

\* A step that begins a patch begins an undoable one.
OnlyUndoable == (pc = "idle" /\ pc' = "apply") => Undoable(todo')

-----------------------------------------------------------------------------
(* What the restriction gives, while a patch is applied and rolled back. *)

\* Everything a record is about has its bytecode in it, and its binding as far
\* as the bindings go.
Aligned(rec) ==
    /\ Len(rec.old_bytecodes) = Len(rec.modified_funcs)
    /\ Len(rec.old_binds) <= Len(rec.modified_funcs)
    /\ \A i \in DOMAIN rec.modified_funcs :
          rec.old_bytecodes[i].func_id = rec.modified_funcs[i]
    /\ \A i \in DOMAIN rec.old_binds : rec.old_binds[i].func_id = rec.modified_funcs[i]
    /\ \A i, j \in DOMAIN rec.modified_funcs :
          rec.modified_funcs[i] = rec.modified_funcs[j] => i = j

\* And the bindings still have their wrappers.
RecordComplete(rec) ==
    /\ Aligned(rec)
    /\ \A i \in DOMAIN rec.old_binds : HasWrapper(rec.modified_funcs[i])

RecordsComplete == \A n \in Layers : RecordComplete(Layer(n))

\* The entries left are as undoable as the whole was, and of functions that the
\* record has not got; while modified ones are left, only modified ones are in it.
RestIsUndoable ==
    pc = "apply" =>
       /\ Undoable(todo)
       /\ \A i \in DOMAIN todo, j \in DOMAIN record.modified_funcs :
             todo[i].func_id # record.modified_funcs[j]
       /\ (\E i \in DOMAIN todo : todo[i].action = kModified)
             => Len(record.old_binds) = Len(record.modified_funcs)

\* What Rollback has passed is what it was.
RestoredExactly ==
    /\ pc \in {"restore_code", "restore_binds"} =>
          \A i \in DOMAIN Top.old_bytecodes :
             i < cursor \/ pc = "restore_binds" =>
                CurrentValue(<<Top.modified_funcs[i], "code">>)
                   = [code |-> Top.old_bytecodes[i].body]
    /\ pc = "restore_binds" =>
          \A i \in DOMAIN Top.old_binds :
             i < cursor =>
                CurrentValue(<<Top.modified_funcs[i], "bind">>) = [bind |-> Top.old_binds[i]]

\* The inductive invariant of the refinement, beside IInv.
UndoInv ==
    /\ BoundToItsFunction
    /\ RecordsComplete
    /\ RestIsUndoable
    /\ RestoredExactly

-----------------------------------------------------------------------------
(* The abstraction: what a record saved, keyed by what it is the value of. *)

SavedItems(rec) ==
    {<<rec.old_bytecodes[i].func_id, "code">> : i \in DOMAIN rec.old_bytecodes}
    \cup {<<rec.old_binds[i].func_id, "bind">> : i \in DOMAIN rec.old_binds}

SavedValue(rec, k) ==
    IF k[2] = "code"
    THEN LET i == CHOOSE i \in DOMAIN rec.old_bytecodes : rec.old_bytecodes[i].func_id = k[1]
         IN  [code |-> rec.old_bytecodes[i].body]
    ELSE LET i == CHOOSE i \in DOMAIN rec.old_binds : rec.old_binds[i].func_id = k[1]
         IN  [bind |-> rec.old_binds[i]]

SavedMap(rec) == [k \in SavedItems(rec) |-> SavedValue(rec, k)]

\* The record that the operation in progress is filling or emptying.
OpenRecord ==
    CASE pc = "idle"  -> NoRecord
      [] pc = "apply" -> record
      [] OTHER        -> Top

\* ApplyPatch takes effect at its end, Rollback at its beginning: in between
\* the values are those the open record saved.
LiveItems ==
    [k \in Items |-> IF k \in SavedItems(OpenRecord)
                     THEN SavedValue(OpenRecord, k) ELSE CurrentValue(k)]

UndoMaps ==
    [i \in 1 .. (IF pc \in {"restore_code", "restore_binds"}
                 THEN Len(history) - 1 ELSE Len(history))
        |-> SavedMap(history[i])]

Phase ==
    CASE pc = "idle"  -> "quiet"
      [] pc = "apply" -> "changing"
      [] OTHER        -> "undoing"

Undo == INSTANCE UndoStack
          WITH live <- LiveItems, undo <- UndoMaps, phase <- Phase

\* Under the restriction, ApplyPatch saves the previous value of all it
\* changes and Rollback, entry by entry over both vectors, restores exactly
\* that, for stacked patches of overlapping functions and for functions
\* registered in between.
ImplementsUndoStack == Undo!UndoSpec

-----------------------------------------------------------------------------

Idle == pc = "idle"

\* Version 0 is the original program (patch_manager.h:26 "0 = original"): no
\* call of any function, through its wrapper or by a CALL instruction, reaches
\* a patch's bytecode, and none fails that did not fail before.
VersionZeroIsOriginal ==
    Idle /\ current_version = 0 =>
       \A f \in FuncIds :
          /\ HasWrapper(f) =>
                \E fn \in NativeFns : AdapterDispatch(GetWrapperForFunc(f)) = Native(fn)
          /\ HasWrapper(f) \/ HasBytecode(f) => DispatchCall(f) # Throws
          /\ \A body \in Bodies \ BaseBodies : DispatchCall(f) # InVm(body)

\* "Rollback restores the previous bytecode and flips dispatch mode back to
\* Native" (README.md:315): where only native functions have wrappers, every
\* wrapper calls its native function again once the last patch is rolled back.
RollbackFlipsBack ==
    Idle /\ current_version = 0 =>
       \A f \in FuncIds :
          HasWrapper(f) =>
             \E fn \in NativeFns : AdapterDispatch(GetWrapperForFunc(f)) = Native(fn)

=============================================================================
