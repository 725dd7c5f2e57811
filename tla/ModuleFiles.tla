----------------------------- MODULE ModuleFiles ----------------------------
(***************************************************************************)
(* The .hotmod and .hotpatch files (src/runtime/module.cpp,                *)
(* src/patch/patch_manifest.cpp).  A file is the sequence of the values    *)
(* written to it, each with its width in bytes; a string, which brings its *)
(* own length, counts as one value.  Nothing in a file says what a value   *)
(* is: the reader knows by the order alone.                                *)
(***************************************************************************)
EXTENDS Integers, SequencesExt, Maps

kModuleMagic   == "HOTM"
kModuleVersion == 1
kPatchMagic    == "HOTP"

ActionOrder == <<"kModified", "kAdded", "kRemoved">>

Written(width, v) == <<[width |-> width, value |-> v]>>

WriteU8(v)  == Written(1, v)
WriteU16(v) == Written(2, v % 2 ^ 16)
WriteU32(v) == Written(4, v)
WriteU64(v) == Written(8, v)
WriteStr(s) == Written(0, s)

\* The number of elements, and what One writes of each.
WriteAll(One(_), s) == FlattenSeq([k \in DOMAIN s |-> One(s[k])])
WriteCounted(One(_), s) == WriteU32(Len(s)) \o WriteAll(One, s)

WriteField(f) == WriteStr(f.name) \o WriteU32(f.offset) \o WriteU8(f.kind) \o WriteU32(f.type_id)

WriteVMethod(m) == WriteStr(m.name) \o WriteU32(m.vtable_slot) \o WriteU32(m.func_id)

WriteType(t) ==
    WriteU32(t.type_id) \o WriteStr(t.name) \o WriteU32(t.size) \o WriteU32(t.align)
    \o WriteU32(t.base_type_id)
    \o WriteCounted(WriteField, t.fields) \o WriteCounted(WriteVMethod, t.vmethods)

WriteInstruction(i) ==
    WriteU8(i.op) \o WriteU8(i.a) \o WriteU8(i.b) \o WriteU8(i.c)
    \o WriteU32(i.imm32) \o WriteU64(i.imm64)

WriteUnwind(u) ==
    WriteU32(u.try_begin) \o WriteU32(u.try_end) \o WriteU32(u.catch_pc)
    \o WriteU32(u.dtor_slot) \o WriteU32(u.catch_type)

\* What both formats say of a function besides its id and name.
WriteBody(fn) ==
    WriteU16(fn.reg_count) \o WriteU16(Len(fn.param_kinds)) \o WriteAll(WriteU8, fn.param_kinds)
    \o WriteU8(fn.ret_kind)
    \o WriteCounted(WriteInstruction, fn.code) \o WriteCounted(WriteUnwind, fn.unwind_entries)

WriteFunction(fn) == WriteU32(fn.func_id) \o WriteStr(fn.name) \o WriteBody(fn)

\* The checksum is a zero.
WriteModule(mod) ==
    WriteU32(kModuleMagic) \o WriteU32(kModuleVersion)
    \o WriteU32(Len(mod.types)) \o WriteU32(Len(mod.functions)) \o WriteU32(0)
    \o WriteAll(WriteType, mod.types) \o WriteAll(WriteFunction, mod.functions)
    \o WriteU32(0)

WriteEntry(e) ==
    WriteU8(CHOOSE k \in DOMAIN ActionOrder : ActionOrder[k] = e.action)
    \o WriteStr(e.func_name) \o WriteU32(e.func_id)
    \o (IF e.action \in {"kModified", "kAdded"} THEN WriteBody(e.new_func) ELSE <<>>)

WritePatchManifest(manifest) ==
    WriteU32(kPatchMagic) \o WriteU32(manifest.version) \o WriteU32(manifest.base_version_hash)
    \o WriteCounted(WriteEntry, manifest.entries)

-----------------------------------------------------------------------------
(* Readers: what is still to be read, and what has been read into the      *)
(* fields of the record at hand.                                           *)

Open(file) == [rest |-> file, got |-> EmptyMap]

\* A value that is not there, or was written with another width.
Garbage == "garbage"

Read(r, field, width) ==
    [rest |-> IF r.rest = <<>> THEN <<>> ELSE Tail(r.rest),
     got  |-> Put(r.got, field, IF r.rest # <<>> /\ Head(r.rest).width = width
                                THEN Head(r.rest).value ELSE Garbage)]

\* Fields of the same width, in that order.
ReadEach(r, width, fields) == FoldLeft(LAMBDA q, f : Read(q, f, width), r, fields)

\* n elements.
ReadAll(One(_), r, field, n) ==
    LET Another(q, k) == LET one == One(Open(q.rest))
                       IN  [rest |-> one.rest, got |-> Append(q.got, one.got)]
        all == FoldLeft(Another, [rest |-> r.rest, got |-> <<>>], [k \in 1 .. n |-> k])
    IN  [rest |-> all.rest, got |-> Put(r.got, field, all.got)]

ReadCounted(One(_), r, field) ==
    LET n == Read(r, field, 4) IN ReadAll(One, [r EXCEPT !.rest = n.rest], field, n.got[field])

ReadField(r) == ReadEach(Read(ReadEach(Read(r, "name", 0), 4, <<"offset">>), "kind", 1),
                         4, <<"type_id">>)

ReadVMethod(r) == ReadEach(Read(r, "name", 0), 4, <<"vtable_slot", "func_id">>)

ReadType(r) ==
    LET head == ReadEach(Read(Read(r, "type_id", 4), "name", 0), 4, <<"size", "align", "base_type_id">>)
    IN  ReadCounted(ReadVMethod, ReadCounted(ReadField, head, "fields"), "vmethods")

ReadInstruction(r) ==
    Read(Read(ReadEach(r, 1, <<"op", "a", "b", "c">>), "imm32", 4), "imm64", 8)

ReadUnwind(r) ==
    ReadEach(r, 4, <<"try_begin", "try_end", "catch_pc", "dtor_slot", "catch_type">>)

ReadKind(r) == LET k == Read(r, "kind", 1) IN [k EXCEPT !.got = @["kind"]]

ReadBody(r) ==
    LET counts == Read(Read(r, "reg_count", 2), "param_count", 2)
        kinds  == ReadAll(ReadKind, [counts EXCEPT !.got = Erase(@, "param_count")],
                          "param_kinds", counts.got["param_count"])
    IN  ReadCounted(ReadUnwind, ReadCounted(ReadInstruction, Read(kinds, "ret_kind", 1), "code"),
                    "unwind_entries")

ReadFunction(r) == ReadBody(Read(Read(r, "func_id", 4), "name", 0))

\* A module of another magic is refused; its version and its checksum are not
\* looked at.
Refused == [refused |-> TRUE]

ReadModule(file) ==
    LET header == ReadEach(Open(file), 4, <<"magic", "version", "type_count", "func_count", "strings">>)
        types  == ReadAll(ReadType, header, "types", header.got["type_count"])
        funcs  == ReadAll(ReadFunction, types, "functions", header.got["func_count"])
    IN  IF header.got["magic"] # kModuleMagic THEN Refused
        ELSE [types |-> funcs.got["types"], functions |-> funcs.got["functions"]]

\* VmFunction{}, which the entry of a removed function keeps.
NoFunction == [func_id |-> -1, name |-> "", reg_count |-> 0, param_kinds |-> <<>>,
               ret_kind |-> "Void", code |-> <<>>, unwind_entries |-> <<>>]

\* The function's id and name are the entry's.
ReadEntry(r) ==
    LET number == Read(r, "action", 1)
        head   == Read(Read([number EXCEPT !.got["action"] = ActionOrder[@]],
                            "func_name", 0), "func_id", 4)
        fn     == ReadBody([head EXCEPT !.got =
                      [func_id |-> head.got["func_id"], name |-> head.got["func_name"]]])
    IN  IF head.got["action"] \in {"kModified", "kAdded"}
        THEN [rest |-> fn.rest, got |-> Put(head.got, "new_func", fn.got)]
        ELSE [head EXCEPT !.got = Put(@, "new_func", NoFunction)]

ReadPatchManifest(file) ==
    LET header == Read(Read(Read(Open(file), "magic", 4), "version", 4), "base_version_hash", 4)
    IN  IF header.got["magic"] # kPatchMagic THEN Refused
        ELSE ReadCounted(ReadEntry, header, "entries").got

=============================================================================
