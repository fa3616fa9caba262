------------------------------ MODULE MCVmpWalk ------------------------------
EXTENDS VmpWalk

X(name) == <<"x", name>>
W(name) == <<"w", name>>
No == X(NoReg)
Word(kind, reg, uses, base) ==
    [kind |-> kind, reg |-> reg, uses |-> uses, base |-> base, disp |-> 0,
     writeback |-> FALSE, target |-> 0]
LoadPair(reg, other, base) == Word("ldp", reg, <<other, No, base>>, base)
Load(kind, reg, base, index) == Word(kind, reg, <<index, base>>, base)
Jump(kind, target) == [Word(kind, No, << >>, No) EXCEPT !.target = target]

\* v walks over the bytecode, o is the opcode, t the target, c the tables and
\* the context, d and e of no importance.
Fetch == Load("ldrb", W("o"), X("v"), No)
FetchOn == [Load("ldr", W("o"), X("v"), No) EXCEPT !.writeback = TRUE]
Advance == Word("add", X("v"), <<X("v")>>, No)
Mix == Word("add", X("t"), <<X("t"), W("o")>>, No)
Kill == Word("mov", W("o"), <<W("c")>>, No)
TableLoad == Load("ldr", X("t"), X("c"), X("o"))
HandlerLoad == [Load("ldr", X("t"), X("v"), No) EXCEPT !.writeback = TRUE]
Pair == LoadPair(X("t"), X("o"), X("c"))
Flags == Word("subs", X("o"), <<X("t")>>, No)
Keep == Word("bfi", W("o"), <<W("c")>>, No)
Turn == Word("rev", X("t"), <<W("o")>>, No)
Decoy == [Load("ldrb", W("d"), X("e"), No) EXCEPT !.writeback = TRUE]
Adr == Word("adr", X("t"), << >>, No)

CodeWords ==
    {Word("invalid", No, << >>, No), Fetch, FetchOn, Advance, Mix, Kill, TableLoad, HandlerLoad,
     Pair, Flags, Keep, Turn, Decoy, Adr, Word("br", X("t"), << >>, No), Word("blr", X("t"), << >>, No),
     Word("ret", No, << >>, No), Jump("b", 1), Jump("cbz", 2)}
=============================================================================
