------------------------------ MODULE Delivery ------------------------------
(***************************************************************************)
(* A program under patches as its developer sees it: compiled modules are  *)
(* files, hotdiff writes the difference of two of them to the patch file,  *)
(* and the running program applies that file, or rolls the last patch      *)
(* back.  Files, differ and PatchManager together.  Files are as old as    *)
(* their last writing: one patch file may be applied twice, late, or to a  *)
(* program it was not made for.                                            *)
(***************************************************************************)
EXTENDS PatchManager, ModuleFiles, ModuleDiff

CONSTANTS
    Compiled,           \* the modules that hotvm-compile has written, by version
    Exported,           \* the functions that have a native twin
    Started,            \* the versions that a program is started with
    Asked               \* the pairs of versions that hotdiff is run on

VARIABLES
    patch_file,         \* patch.hotpatch; empty when there is none
    made_for,           \* the two versions it was made from
    expected,           \* the version the developer takes to be running, per applied patch
    undone              \* whether there has been a rollback

deliveryVars == <<vars, patch_file, made_for, expected, undone>>

Versions == DOMAIN Compiled
Unknown  == 0           \* of a program, when nobody can say what it runs

\* ReadModule(path), for the file that hotvm-compile wrote.
Loaded == [v \in Versions |-> ReadModule(WriteModule(Compiled[v]))]

\* DiffFiles.
Differences == [p \in Asked |-> Diff(Loaded[p[1]], Loaded[p[2]], NoFunction)]

\* What the interpreter keeps of a function under its id.
Body(fn) == [k \in DOMAIN fn \ {"func_id"} |-> fn[k]]

\* A name stands for the kinds of the parameters, as a mangled name does: a
\* function whose parameters change has another name.
ASSUME ManglingAssumption ==
    \A p \in Versions \X Versions :
        LET v == Compiled[p[1]]
            w == Compiled[p[2]]
        IN  \A n \in Names(v) \cap Names(w) : Named(v, n).param_kinds = Named(w, n).param_kinds

\* From version v to w: w's numbers can be used in a program that runs v, for
\* a common function has kept its number and a new one has none of v's.
Compatible(p) ==
    LET v == Compiled[p[1]]
        w == Compiled[p[2]]
    IN  /\ \A n \in Names(v) \cap Names(w) : Named(v, n).func_id = Named(w, n).func_id
        /\ \A n \in Names(w) \ Names(v), m \in Names(v) : Named(w, n).func_id # Named(v, m).func_id

\* The functions of a file, registered one by one over those in m: of two with
\* one number the later stays.
RegisterAll(m, fns) ==
    LET ids == {fns[k].func_id : k \in DOMAIN fns}
        LastOf(f) == CHOOSE k \in DOMAIN fns :
                        /\ fns[k].func_id = f
                        /\ \A j \in DOMAIN fns : fns[j].func_id = f => j <= k
    IN  [f \in DOMAIN m \cup ids |-> IF f \in ids THEN Body(fns[LastOf(f)]) ELSE m[f]]

\* hotvm-compile numbers the functions of a module: no two have one number, and
\* a version is not zero.
ASSUME NumberingAssumption ==
    /\ Unknown \notin Versions
    /\ \A v \in Versions :
          LET fns == Compiled[v].functions
          IN  /\ fns \in Seq({fns[k] : k \in DOMAIN fns})
              /\ \A j, k \in DOMAIN fns : fns[j].func_id = fns[k].func_id => j = k

\* Registers are numbered as the code mentions them, and there are no unwind
\* entries: code, kinds and name leave nothing open.
ASSUME GenerationAssumption ==
    \A p \in Versions \X Versions :
        \A n \in Names(Compiled[p[1]]) \cap Names(Compiled[p[2]]) :
            LET a == Named(Compiled[p[1]], n)
                b == Named(Compiled[p[2]], n)
            IN  a.code = b.code /\ a.param_kinds = b.param_kinds /\ a.ret_kind = b.ret_kind
                    => Body(a) = Body(b)

\* Every value fits the width that it is written with: what has been written
\* is read again.
ASSUME FilesAssumption ==
    /\ \A v \in Versions : Loaded[v].functions = Compiled[v].functions
    /\ \A p \in Asked : \A manifest \in Differences[p] :
          ReadPatchManifest(WritePatchManifest(manifest)).entries = manifest.entries

\* The ids and bodies are those that the files hold.
ASSUME DeliveryAssumption ==
    /\ Asked \subseteq Versions \X Versions
    /\ \A v \in Started :
          v \in Versions /\ RegisterAll(EmptyMap, Loaded[v].functions) \in MapsOf(FuncIds, Bodies)

DeliveryInit ==
    /\ Init
    /\ patch_file = <<>> /\ made_for = <<>> /\ expected = <<>> /\ undone = FALSE

Current == Last(expected)

-----------------------------------------------------------------------------

\* The program starts: it reads a module and registers its functions.
LoadModule(v) ==
    /\ expected = <<>>
    /\ functions' = RegisterAll(functions, Loaded[v].functions)
    /\ expected' = <<v>>
    /\ UNCHANGED <<tableVars, dispatch_table, patchVars, patch_file, made_for, undone>>

\* A function of the module has a native twin that the program calls it by.
ExportNative ==
    /\ pc = "idle"
    /\ \E f \in Exported \cap DOMAIN functions, fn \in NativeFns :
        /\ f \notin DOMAIN dispatch_table
        /\ RegisterNativeFunction(f, fn, SigOf[functions[f]])
    /\ UNCHANGED <<patchVars, patch_file, made_for, expected, undone>>

\* hotdiff on the files of p: no file is written when there is no difference, and a program
\* that runs the one then runs the other; unless the numbers have moved, for then equal code
\* calls other functions.
Hotdiff(p) ==
    /\ expected # <<>>
    /\ \E manifest \in Differences[p] :
        IF manifest.entries = <<>>
        THEN /\ expected' = [expected EXCEPT ![Len(expected)] = IF @ = p[1] /\ Compatible(p) THEN p[2] ELSE @]
             /\ UNCHANGED <<patch_file, made_for>>
        ELSE /\ patch_file' = WritePatchManifest(manifest)
             /\ made_for' = p
             /\ UNCHANGED expected
    /\ UNCHANGED <<vars, undone>>

\* The entries that ApplyPatch(hotpatch_path) reads.
FromFile ==
    LET entries == ReadPatchManifest(patch_file).entries
    IN  [k \in DOMAIN entries |-> [action |-> entries[k].action, func_id |-> entries[k].func_id,
                                   body |-> Body(entries[k].new_func)]]

ApplyFile ==
    /\ patch_file # <<>>
    /\ ApplyBegin
    /\ todo' = FromFile
    /\ UNCHANGED <<patch_file, made_for, expected, undone>>

\* The file is the right one, or the one that has been applied already.
Fits == /\ Current \in {made_for[1], made_for[2]}
        /\ Compatible(made_for)

\* A patch that does not fit may overwrite what no rollback restores.
EndOfPatch ==
    /\ ApplyEnd
    /\ expected' = IF Fits THEN Append(expected, made_for[2])
                   ELSE [k \in 1 .. (Len(expected) + 1) |-> Unknown]
    /\ UNCHANGED <<patch_file, made_for, undone>>

EndOfRollback ==
    /\ RollbackEnd
    /\ expected' = Front(expected)
    /\ undone' = TRUE
    /\ UNCHANGED <<patch_file, made_for>>

PatchStep ==
    /\ ApplyModified \/ ApplyAdded \/ ApplyRemoved \/ RollbackBegin \/ RestoreBytecode \/ RestoreBind
    /\ UNCHANGED <<patch_file, made_for, expected, undone>>

\* The patch file is not replaced while it is being applied.
DeliveryNext ==
    \/ \E v \in Started : LoadModule(v)
    \/ ExportNative
    \/ \E p \in Asked : pc = "idle" /\ Hotdiff(p)
    \/ ApplyFile
    \/ EndOfPatch
    \/ EndOfRollback
    \/ PatchStep

DeliverySpec == DeliveryInit /\ [][DeliveryNext]_deliveryVars

-----------------------------------------------------------------------------

\* The program runs the version its developer takes it to run: every function
\* of that version is there under the version's own number with the code, kinds
\* and registers the compiler wrote, so that every call in that code finds the
\* callee it names.  It holds through files, differ and patch manager, for
\* patches stacked, applied a second time, found empty or rolled back, in
\* whatever order the differ lists the functions (WriteModule to Rollback).
RunsExpectedVersion ==
    pc = "idle" /\ expected # <<>> /\ Current # Unknown =>
        \A n \in Names(Compiled[Current]) :
            LET fn == Named(Compiled[Current], n)
            IN  fn.func_id \in DOMAIN functions /\ functions[fn.func_id] = Body(fn)

\* Until something is rolled back, a wrapper in VM mode unpacks the arguments
\* by the signature of the bytecode it then runs, and of its own function,
\* though patches change signatures and remove and add the function again
\* (ApplyPatch's BindInfo against functions_).
SignatureInStep ==
    pc = "idle" /\ ~ undone =>
        \A f \in DOMAIN dispatch_table \cap DOMAIN functions :
            LET w == dispatch_table[f]
            IN  w \in WrapperIds /\ bind_info[w].mode = kVM =>
                    bind_info[w].func_id = f /\ bind_info[w].sig = SigOf[functions[f]]

-----------------------------------------------------------------------------
(* The inductive invariant behind SignatureInStep. *)

\* Before the program has started there is nothing to patch and no patch.
NothingStarted ==
    expected = <<>> =>
       /\ functions = EmptyMap /\ dispatch_table = EmptyMap
       /\ pc = "idle" /\ history = <<>> /\ patch_file = <<>>

\* The developer has an opinion on the version below every applied patch, and a
\* rollback therefore never forgets the version that the program started with.
OneVersionPerPatch ==
    /\ expected \in Seq(Versions \cup {Unknown})
    /\ expected # <<>> => Len(expected) = Len(history) + 1
    /\ patch_file # <<>> \/ pc = "apply" => made_for \in Asked

\* f's wrapper, if it has one in VM mode, is its own and unpacks for its code.
WrapperFits(f) ==
    LET w == dispatch_table[f]
    IN  w \in WrapperIds /\ bind_info[w].mode = kVM =>
            /\ bind_info[w].func_id = f
            /\ f \in DOMAIN functions => bind_info[w].sig = SigOf[functions[f]]

\* In the middle of a patch as well, and for functions that were removed.
WrappersFit ==
    ~ undone /\ pc \in {"idle", "apply"} => \A f \in DOMAIN dispatch_table : WrapperFits(f)

DeliveryInv ==
    /\ IInv
    /\ NothingStarted
    /\ OneVersionPerPatch
    /\ WrappersFit

-----------------------------------------------------------------------------
(* The inductive invariant behind RunsExpectedVersion: every version below an *)
(* applied patch can be had back.                                          *)

\* Whether the developer knows what runs, and will when the patch at hand is through.
Tracked ==
    /\ expected # <<>> /\ Current # Unknown
    /\ pc = "apply" => Fits

Numbers(v) == {Named(Compiled[v], n).func_id : n \in Names(Compiled[v])}

\* The record of layer k would put body back as f's code.
Saves(k, f, body) ==
    \E i \in DOMAIN Layer(k).old_bytecodes :
        Layer(k).old_bytecodes[i] = [func_id |-> f, body |-> body]

\* With the patches from the n-th on rolled back, f runs body: the lowest of
\* their records that has f is the last to be restored.
ComesBack(n, f, body) ==
    \/ \E k \in Layers :
          /\ n <= k /\ Saves(k, f, body)
          /\ \A j \in Layers : n <= j /\ j < k => f \notin SavedIn(Layer(j))
    \/ /\ \A j \in Layers : n <= j => f \notin SavedIn(Layer(j))
       /\ f \in DOMAIN functions /\ functions[f] = body

\* Once out of sight, a program stays there: its rollbacks may bring back anything.
AllOrNoneKnown ==
    \/ \A n \in DOMAIN expected : expected[n] \in Versions
    \/ \A n \in DOMAIN expected : expected[n] = Unknown

\* A patch file is one that hotdiff wrote for the two versions.
FileIsDifference ==
    patch_file # <<>> =>
        \E manifest \in Differences[made_for] : patch_file = WritePatchManifest(manifest)

\* Every version that a rollback leads to is there in full; the current one, unless a
\* rollback is about to take it away.
VersionsComeBack ==
    \A n \in DOMAIN expected :
        n < Len(expected) \/ pc \in {"idle", "apply"} =>
            \A name \in Names(Compiled[expected[n]]) :
                LET fn == Named(Compiled[expected[n]], name)
                IN  ComesBack(n, fn.func_id, Body(fn))

\* From a version to a later one no number is lost that no record has.
NumbersStay ==
    \A n, m \in DOMAIN expected :
        n <= m => \A f \in Numbers(expected[n]) :
            \/ \E k \in n .. (m - 1) : f \in SavedIn(history[k])
            \/ f \in Numbers(expected[m])

\* A record has a function once, or Rollback would restore what came between.
SavedOnce ==
    \A k \in Layers : \A i, j \in DOMAIN Layer(k).old_bytecodes :
        Layer(k).old_bytecodes[i].func_id = Layer(k).old_bytecodes[j].func_id => i = j

\* What Rollback has passed is back.
BodiesRestored ==
    pc \in {"restore_code", "restore_binds"} =>
        \A i \in DOMAIN Top.old_bytecodes :
            i < cursor \/ pc = "restore_binds" =>
                functions[Top.old_bytecodes[i].func_id] = Top.old_bytecodes[i].body

\* Each function is in the rest of a patch once at most, and has not been in it before.
EntriesOnce ==
    \A i \in DOMAIN todo :
        /\ todo[i].func_id \notin SavedIn(record)
        /\ \A j \in DOMAIN todo : todo[i].func_id = todo[j].func_id => i = j

\* What the new version needs is there, or in the rest of the patch.
NewVersionArrives ==
    \A name \in Names(Compiled[made_for[2]]) :
        LET fn == Named(Compiled[made_for[2]], name)
        IN  \/ \E k \in DOMAIN todo : /\ todo[k].func_id = fn.func_id
                                     /\ todo[k].action # kRemoved /\ todo[k].body = Body(fn)
            \/ /\ fn.func_id \in DOMAIN functions /\ functions[fn.func_id] = Body(fn)
               /\ \A k \in DOMAIN todo : todo[k].func_id # fn.func_id

\* What a patch adds is none of the old version's functions, or the very function when it
\* is applied again: nothing is saved of it, and nothing is lost.
AddedIsNew ==
    \A k \in DOMAIN todo :
        LET f == todo[k].func_id
        IN  todo[k].action = kAdded /\ f \in Numbers(Current)
                => f \in DOMAIN functions /\ functions[f] = todo[k].body

\* A number that the new version does not use is saved.
OldVersionIsSaved ==
    \A f \in Numbers(Current) :
        \/ f \in SavedIn(record) \/ f \in Numbers(made_for[2])
        \/ f \in DOMAIN functions /\ \E k \in DOMAIN todo : todo[k].func_id = f /\ todo[k].action = kRemoved

VersionInv ==
    /\ AllOrNoneKnown
    /\ FileIsDifference
    /\ Tracked => VersionsComeBack /\ NumbersStay /\ SavedOnce /\ BodiesRestored
    /\ Tracked /\ pc = "apply" =>
          EntriesOnce /\ NewVersionArrives /\ AddedIsNew /\ OldVersionIsSaved

=============================================================================
