------------------------------- MODULE VmpWalk -------------------------------
(***************************************************************************)
(* vmp_detector.cpp, collect_from_stream: the instructions of a region are *)
(* decoded, past words that are none, and at each indirect transfer and    *)
(* each backward branch the data flow that leads to it is classified.      *)
(*                                                                         *)
(* A word is what the classification looks at: the kind of instruction,    *)
(* its first operand, the registers of its other operands in the order in  *)
(* which they are looked at, base and displacement of a memory operand and *)
(* the target of a direct branch. A kind stands for the mnemonics that the *)
(* predicates treat alike: "subs" for ands too, "add" for adds and sub,    *)
(* "bfi" for what keeps bits of its first operand, "rev" for the many that *)
(* define a register and are neither loads nor transforms. A direct call   *)
(* counts as a store does, of nothing. Addresses count words; the limit of *)
(* 4096 bytes on a backward branch is out of reach, x29 is taken for sp.   *)
(***************************************************************************)
EXTENDS Integers, Sequences, FiniteSets

CONSTANTS
    Words,        \* words of the code; kind "invalid" is no instruction
    Excluded,     \* addresses in excluded_thunk_ranges
    Lookback,     \* kLookbackInstructions
    MaxWords      \* bound on the words of a region

VARIABLES
    insns,      \* the instructions decoded
    address,    \* of the next word
    at,         \* the site the walk is at; 0 while decoding
    candidates, switch_like_sites, vtable_sites, excluded_thunk_sites   \* Accumulator

vars == <<insns, address, at, candidates, switch_like_sites, vtable_sites, excluded_thunk_sites>>

Most(S) == CHOOSE x \in S : \A y \in S : x >= y
NoReg == ""

\* A register is written as a view and a name: Wn and Xn become one register,
\* and the width of the first operand is kept.
Canonical(r) == r[2]

\* BR and BLR name a register, and the other operands of a word are counted:
\* the second register of a pair of loads is the first of them.
ASSUME WalkAssumption ==
    /\ Lookback \in Nat
    /\ \A w \in Words :
          /\ w.kind \in {"br", "blr"} => Canonical(w.reg) # NoReg
          /\ w.kind = "ldp" => 1 \in DOMAIN w.uses
          /\ DOMAIN w.uses \subseteq Nat

WidthOf(r) == IF r[1] = "w" THEN 32 ELSE 64
Operands == [w \in Words |-> [k \in DOMAIN w.uses |-> Canonical(w.uses[k])]]
Populate(w, a) ==
    [address |-> a, kind |-> w.kind, reg |-> Canonical(w.reg), width |-> WidthOf(w.reg),
     uses |-> Operands[w], base |-> Canonical(w.base),
     disp |-> w.disp, writeback |-> w.writeback, target |-> w.target]

Uses(ins) == {ins.uses[k] : k \in DOMAIN ins.uses} \ {NoReg}

-----------------------------------------------------------------------------
\* The predicates on instructions. The width tells a 32-bit load from that of
\* a pointer. SUBS and ANDS are transforms, and compares as well.
IsLoad(ins) == ins.kind \in {"ldr", "ldrb", "ldp"}
IsPointerLoad(ins) == ins.kind = "ldr" /\ ins.width # 32
IsOpcodeLoad(ins) == ins.kind = "ldrb" \/ (ins.kind = "ldr" /\ ins.width = 32)
IsStore(ins) == ins.kind = "str"
IsTransform(ins) == ins.kind \in {"add", "mov", "bfi", "csel", "subs"}
IsCompare(ins) == ins.kind \in {"cmp", "ccmp", "cbz", "subs"}
IsIndirectBranch(ins) == ins.kind = "br"
IsIndirectCall(ins) == ins.kind = "blr"
\* Through another register than x30.
IsReturnDispatch(ins) == ins.kind = "ret" /\ ins.reg # NoReg
IsIndirect(ins) == IsIndirectBranch(ins) \/ IsIndirectCall(ins) \/ IsReturnDispatch(ins)
IsDirectJump(ins) == ins.kind \in {"b", "b.", "cbz"}
\* Selections and conditional compares have a condition of their own.
IsConditional(ins) == ins.kind \in {"b.", "cbz", "csel", "ccmp"}
IsBackward(ins) == IsDirectJump(ins) /\ ins.target < ins.address
IsJump(ins) == IsDirectJump(ins) \/ IsIndirect(ins)

\* A compare is taken to define nothing, SUBS and ANDS included, and a pair of
\* loads only the first of its registers: the other one is among its operands.
Dest(ins) ==
    IF ~IsCompare(ins) /\ (IsLoad(ins) \/ IsTransform(ins) \/ ins.kind \in {"adr", "rev"})
    THEN ins.reg ELSE NoReg
\* SUBS too would advance a register, had it a destination.
Advances(ins, reg) == ins.kind \in {"add", "subs"} /\ Dest(ins) = reg /\ reg \in Uses(ins)

-----------------------------------------------------------------------------
\* Data flow in the instructions s before the one at k.

\* Mutant: only jumps end a block, not a gap in the addresses.
JumpBreaks(s, i) ==
    \/ s[i - 1].kind = "b"
    \/ IsIndirect(s[i - 1])
    \/ s[i - 1].kind = "ret"

\* Nothing flows from instruction i - 1 to i.
Breaks(s, i) ==
    \/ s[i - 1].address + 1 # s[i].address
    \/ s[i - 1].kind = "b"
    \/ IsIndirect(s[i - 1])
    \/ s[i - 1].kind = "ret"
\* previous_block_boundary, and from there to the instruction before k.
Floor(k) == IF k > Lookback + 1 THEN k - Lookback ELSE 1
Boundary(s, k) == Most({i \in (Floor(k) + 1)..k : Breaks(s, i)} \cup {Floor(k)})
Block(s, k) == Boundary(s, k)..(k - 1)

\* has_vip_advance: each write of the register on the way derives from it, and
\* one of them, or the load itself, moves it on.
Writes(s, f, k, reg) == {i \in (f + 1)..(k - 1) : Dest(s[i]) = reg}
VipAdvance(s, f, k, vip) ==
    /\ \A i \in Writes(s, f, k, vip) : IsTransform(s[i]) /\ vip \in Uses(s[i])
    /\ s[f].writeback \/ \E i \in Writes(s, f, k, vip) : Advances(s[i], vip)

\* The registers that hold something of reg, before each instruction from f on.
Propagates(ins, tainted) == Uses(ins) \cap tainted # {} /\ (IsTransform(ins) \/ IsLoad(ins))
\* Mutant: a register once tainted stays tainted.
StickyTaint(s, f, k, reg) ==
    LET t[i \in (f + 1)..k] ==
          IF i = f + 1 THEN {reg}
          ELSE t[i - 1] \cup (IF Propagates(s[i - 1], t[i - 1]) THEN {Dest(s[i - 1])} ELSE {})
    IN t

Tainted(s, f, k, reg) ==
    LET t[i \in (f + 1)..k] ==
          IF i = f + 1 THEN {reg}
          ELSE LET ins == s[i - 1]
                   old == t[i - 1]
               IN IF Dest(ins) = NoReg THEN old
                  ELSE (old \ {Dest(ins)}) \cup (IF Propagates(ins, old) THEN {Dest(ins)} ELSE {})
    IN t
Reaches(s, f, k, reg, target) == target \in Tainted(s, f, k, reg)[k]

\* The first operand of an instruction that is tainted.
Source(ins, tainted) ==
    LET hit == {k \in DOMAIN ins.uses : ins.uses[k] \in tainted}
    IN IF hit = {} THEN NoReg ELSE ins.uses[CHOOSE k \in hit : \A j \in hit : k <= j]

\* From the target backwards to the load that it comes from; taint is what
\* Tainted says, for instructions after the fetch f.
Trace(s, k, target, f, taint) ==
    LET Stop(loaded, computed, base) == [loaded |-> loaded, computed |-> computed, base |-> base]
        From(i) == IF f > 0 /\ i > f THEN Source(s[i], taint[i]) ELSE NoReg
        regs == {target} \cup UNION {Uses(s[j]) : j \in Block(s, k)}
        tr[i \in (Boundary(s, k) - 1)..(k - 1)] == [reg \in regs |->
            IF i < Boundary(s, k) THEN Stop(FALSE, FALSE, NoReg)
            ELSE IF Dest(s[i]) # reg THEN tr[i - 1][reg]
            ELSE IF IsLoad(s[i]) THEN Stop(TRUE, FALSE, s[i].base)
            ELSE IF IsTransform(s[i])
                 THEN IF From(i) # NoReg THEN [tr[i - 1][From(i)] EXCEPT !.computed = TRUE]
                      ELSE Stop(FALSE, TRUE, NoReg)
            ELSE Stop(FALSE, FALSE, NoReg)]
    IN tr[k - 1][target]

LocalBackEdge(s, k) ==
    \E i \in Block(s, k) : IsDirectJump(s[i]) /\ s[i].target \in s[Boundary(s, k)].address..(s[i].address - 1)
IncomingEdge(s, k) ==
    \E i \in DOMAIN s \ (Boundary(s, k)..k) :
        IsDirectJump(s[i]) /\ s[i].target \in s[Boundary(s, k)].address..s[k].address
SharedContext(s, k, vip, table) ==
    \E base \in {s[i].base : i \in Block(s, k)} \ {NoReg, "sp", vip, table} :
        LET through == {i \in Block(s, k) : s[i].base = base}
        IN /\ Cardinality({s[i].disp : i \in through}) >= 2
           /\ \E i \in through : IsStore(s[i])

-----------------------------------------------------------------------------
\* The opcode fetch: among the loads whose base goes on, the nearest one that
\* reaches the target, or else the nearest one. 0 is none.
Fetches(s, k) ==
    {i \in Block(s, k) :
        /\ IsOpcodeLoad(s[i])
        /\ s[i].base \notin {NoReg, "sp", s[i].reg}
        /\ VipAdvance(s, i, k, s[i].base)}
Leading(s, k) ==
    {i \in Fetches(s, k) : IsIndirect(s[k]) => Reaches(s, i, k, s[i].reg, s[k].reg)}
\* Mutant: the nearest load is the fetch, wherever its value goes.
NearestFetch(s, k) == Most(Fetches(s, k) \cup {0})

OpcodeFetch(s, k) ==
    IF Leading(s, k) # {} THEN Most(Leading(s, k)) ELSE Most(Fetches(s, k) \cup {0})

\* The handler's address itself is fetched and the pointer to it moves on.
HandlerLoads(s, k) ==
    {i \in Block(s, k) : IsPointerLoad(s[i]) /\ s[i].reg = s[k].reg /\ s[i].base \notin {NoReg, "sp", s[i].reg}}
DirectFetch(s, k) ==
    LET i == Most(HandlerLoads(s, k) \cup {0})
    IN IF i > 0 /\ VipAdvance(s, i, k, s[i].base) THEN i ELSE 0

ConditionalSite(s, k) ==
    LET f == OpcodeFetch(s, k)
    IN /\ f > 0
       /\ Cardinality({i \in (f + 1)..k : IsCompare(s[i])}) >= 2
       /\ Cardinality({i \in (f + 1)..k : IsConditional(s[i])}) >= 2

\* What is found out at an indirect transfer: direct is the fetch of a handler,
\* f the fetch, taint what its value reaches, trace where the target comes from.
Found(s, k, direct, f, taint, trace) ==
    [fetch |-> f, direct |-> direct > 0,
     vip |-> IF f > 0 THEN s[f].base ELSE NoReg,
     advanced |-> f > 0 /\ VipAdvance(s, f, k, s[f].base),
     linked |-> f > 0 /\ direct = 0 /\ s[k].reg \in taint[k],
     decodes |-> f > 0 /\ \E i \in (f + 1)..(k - 1) :
                             IsTransform(s[i]) /\ Dest(s[i]) # NoReg /\ Source(s[i], taint[i]) # NoReg,
     loaded |-> direct > 0 \/ trace.loaded,
     computed |-> trace.computed,
     table |-> IF direct > 0 THEN s[f].base ELSE trace.base,
     adr |-> \E i \in Block(s, k) : i + 6 >= k /\ s[i].kind = "adr"]
Traced(s, k, direct, f, taint) == Found(s, k, direct, f, taint, Trace(s, k, s[k].reg, f, taint))
Fetched(s, k, direct, f) ==
    Traced(s, k, direct, f, IF f > 0 THEN Tainted(s, f, k, s[f].reg) ELSE << >>)
FlowOf(s, k, direct) == Fetched(s, k, direct, IF direct > 0 THEN direct ELSE OpcodeFetch(s, k))
Flow(s, k) == FlowOf(s, k, DirectFetch(s, k))

SwitchLike(s, k, flow) == flow.fetch > 0 /\ ~flow.advanced /\ flow.linked /\ IsIndirectBranch(s[k])
VtableCall(s, k, flow) == IsIndirectCall(s[k]) /\ flow.loaded /\ flow.fetch = 0
ClassicStrong(flow) == flow.fetch > 0 /\ flow.advanced /\ flow.loaded /\ flow.linked
ClassicMedium(flow) ==
    flow.fetch > 0 /\ flow.advanced /\ (flow.loaded \/ flow.computed) /\ (flow.linked \/ flow.decodes)
DirectStrong(s, k, flow) == flow.direct /\ flow.advanced /\ ~IsIndirectCall(s[k])
DirectMedium(s, k, flow) == flow.direct /\ flow.advanced /\ IsIndirectCall(s[k])
Trampoline(s, k, flow) ==
    flow.fetch = 0 /\ IsIndirectBranch(s[k]) /\ flow.adr /\ (flow.loaded \/ flow.computed)
\* The procedure call standard gives x16 and x17 to such thunks.
AbiThunk(s, k, flow) ==
    /\ flow.direct /\ flow.vip \in {"x16", "x17"} /\ s[k].reg \in {"x16", "x17"}
    /\ ~LocalBackEdge(s, k) /\ ~IncomingEdge(s, k) /\ ~SharedContext(s, k, flow.vip, flow.table)

Strength(s, k, flow) ==
    IF AbiThunk(s, k, flow) THEN "supporting"
    ELSE IF ClassicStrong(flow) \/ DirectStrong(s, k, flow) THEN "strong"
    ELSE IF ClassicMedium(flow) \/ DirectMedium(s, k, flow) THEN "medium"
    ELSE IF Trampoline(s, k, flow) THEN "supporting" ELSE "none"

Candidate(s, k, strength, flow) ==
    [address |-> s[k].address, strength |-> strength, linked |-> flow.linked,
     backEdge |-> LocalBackEdge(s, k) \/ IncomingEdge(s, k),
     shared |-> SharedContext(s, k, flow.vip, flow.table)]

-----------------------------------------------------------------------------
Init ==
    /\ insns = << >> /\ address = 1 /\ at = 0
    /\ candidates = {} /\ switch_like_sites = 0 /\ vtable_sites = 0 /\ excluded_thunk_sites = 0

tallies == <<candidates, switch_like_sites, vtable_sites, excluded_thunk_sites>>

\* disasm_aligned_resilient: an instruction, or a word that is skipped.
\* Instructions after the last jump make no difference: a region ends with one.
Decode(w) ==
    /\ at = 0 /\ address <= MaxWords
    /\ address = MaxWords => w.kind # "invalid" /\ IsJump(Populate(w, address))
    /\ address' = address + 1
    /\ insns' = IF w.kind = "invalid" THEN insns
                ELSE Append(insns, Populate(w, address))
    /\ UNCHANGED <<at, tallies>>

\* The region ends.
Decoded ==
    /\ at = 0 /\ insns # << >> /\ IsJump(insns[Len(insns)])
    /\ at' = 1
    /\ UNCHANGED <<insns, address, tallies>>

IsSite(k) == IsIndirect(insns[k]) \/ IsBackward(insns[k])
Visit(k) == at = k /\ k <= Len(insns) /\ at' = at + 1 /\ UNCHANGED <<insns, address>>

Pass(k) == Visit(k) /\ ~IsSite(k) /\ UNCHANGED tallies
Exclude(k) ==
    /\ Visit(k) /\ IsSite(k) /\ insns[k].address \in Excluded
    /\ excluded_thunk_sites' = excluded_thunk_sites + 1
    /\ UNCHANGED <<candidates, switch_like_sites, vtable_sites>>
Loop(k) ==
    /\ Visit(k) /\ IsBackward(insns[k]) /\ insns[k].address \notin Excluded
    /\ candidates' = candidates \cup
         {[address |-> insns[k].address, strength |-> "medium", linked |-> FALSE, backEdge |-> TRUE,
           shared |-> SharedContext(insns, k, insns[OpcodeFetch(insns, k)].base, NoReg)] :
            x \in {y \in {TRUE} : ConditionalSite(insns, k)}}
    /\ UNCHANGED <<switch_like_sites, vtable_sites, excluded_thunk_sites>>
\* A site is an alternative or a candidate, not both.
Judge(k, flow, strength, switch, vtable) ==
    /\ switch_like_sites' = switch_like_sites + (IF switch THEN 1 ELSE 0)
    /\ vtable_sites' = vtable_sites + (IF ~switch /\ vtable THEN 1 ELSE 0)
    /\ candidates' = IF switch \/ vtable \/ strength = "none" THEN candidates
                     ELSE candidates \cup {Candidate(insns, k, strength, flow)}
JudgeFlow(k, flow) ==
    Judge(k, flow, Strength(insns, k, flow), SwitchLike(insns, k, flow), VtableCall(insns, k, flow))
Transfer(k) ==
    /\ Visit(k) /\ IsIndirect(insns[k]) /\ insns[k].address \notin Excluded
    /\ JudgeFlow(k, Flow(insns, k))
    /\ UNCHANGED excluded_thunk_sites

Next ==
    \/ \E w \in Words : Decode(w)
    \/ Decoded
    \/ \E k \in 1..MaxWords : Pass(k) \/ Exclude(k) \/ Loop(k) \/ Transfer(k)

Spec == Init /\ [][Next]_vars

-----------------------------------------------------------------------------
Sites == {k \in DOMAIN insns : IsIndirect(insns[k]) /\ insns[k].address \notin Excluded}
Looked == at > Len(insns) /\ insns # << >>

\* What is said of a site, apart from jumps that lead to it from elsewhere.
SaidOf(s, k, flow) ==
    [strength |-> IF AbiThunk(s, k, flow) THEN "thunk" ELSE Strength(s, k, flow),
     vtable |-> VtableCall(s, k, flow), linked |-> flow.linked, loaded |-> flow.loaded]
Said(s, k) == SaidOf(s, k, Flow(s, k))

\* An indirect transfer is judged by the straight line of code that leads to
\* it: what comes before a word that is no instruction, or before code that
\* never goes on to the next word, makes no difference.
OnlyItsBlock ==
    Looked => \A k \in Sites : \A i \in 2..k :
        \/ /\ insns[i - 1].address + 1 = insns[i].address
           /\ insns[i - 1].kind \notin {"b", "br", "blr", "ret"}
        \/ IncomingEdge(insns, k)
        \/ Said(insns, k) = Said(SubSeq(insns, i, k), k - i + 1)

\* What an instruction does with the registers that it names: SUBS and ANDS
\* assign one, a pair of loads assigns two and reads neither, BFI keeps bits of
\* the one it assigns, and a load that writes back derives its base from itself.
Second(ins) == IF ins.kind = "ldp" THEN ins.uses[1] ELSE NoReg
Carries(ins) == IsLoad(ins) \/ IsTransform(ins) \/ ins.kind = "rev"
Assigned(ins) ==
    IF Carries(ins) \/ ins.kind = "adr" THEN {ins.reg, Second(ins)} \ {NoReg} ELSE {}
Read(ins) ==
    IF ~Carries(ins) THEN {}
    ELSE ({ins.uses[n] : n \in DOMAIN ins.uses \ (IF ins.kind = "ldp" THEN {1} ELSE {})}
           \cup (IF ins.kind = "bfi" THEN {ins.reg} ELSE {})) \ {NoReg}
\* And what the detector takes it to do.
Defined(ins) == {Dest(ins)} \ {NoReg}
Traceable(ins) == IF IsTransform(ins) \/ IsLoad(ins) THEN Uses(ins) ELSE {}
\* Instructions of which it takes in everything.
Plain(ins) == ins.kind \notin {"subs", "ldp", "bfi", "rev"}

\* A chain of definitions leads from the fetch f to the register of the
\* transfer k, each used before it is overwritten; instruction j assigns def[j]
\* and reads use[j].
LastWrite(f, i, reg, def) == Most({j \in f..(i - 1) : reg \in def[j]} \cup {0})
Derived(f, k, def, use) ==
    LET d[j \in f..(k - 1)] ==
          \/ j = f
          \/ \E reg \in use[j] :
                LastWrite(f, j, reg, def) > 0 /\ d[LastWrite(f, j, reg, def)]
    IN d
LinkedByDefinitions(f, k, def, use) ==
    /\ LastWrite(f, k, insns[k].reg, def) > 0
    /\ Derived(f, k, def, use)[LastWrite(f, k, insns[k].reg, def)]

\* vmp_detector.cpp lines 267-283: the opcode is linked to the target exactly
\* if a chain of definitions leads from one to the other. Those are the ones
\* the detector takes in; and where nothing but plain instructions lies between
\* them, they are those the program makes. Past SUBS, ANDS, pairs of loads and
\* the like a link may be missed, or be found though its value is overwritten.
LinkIsDataFlow ==
    Looked => \A k \in Sites :
        \A flow \in {Flow(insns, k)} :
            flow.fetch > 0 /\ ~flow.direct =>
                LET way == flow.fetch..(k - 1)
                IN /\ flow.linked = LinkedByDefinitions(flow.fetch, k,
                           [i \in way |-> Defined(insns[i])], [i \in way |-> Traceable(insns[i])])
                   /\ (\A i \in way : Plain(insns[i])) =>
                        flow.linked = LinkedByDefinitions(flow.fetch, k,
                           [i \in way |-> Assigned(insns[i])], [i \in way |-> Read(insns[i])])

\* vmp_detector.cpp line 367: a nearer load of a flag does not shadow the real
\* fetch. A load that changes no register which others use turns no strong
\* site into a weaker one.
Changes(ins) ==
    {ins.reg} \cup ({Second(ins)} \ {NoReg}) \cup (IF ins.writeback THEN {ins.base} ELSE {})
Idle(j) ==
    /\ IsLoad(insns[j])
    /\ \A i \in DOMAIN insns \ {j} :
        Changes(insns[j]) \cap (Uses(insns[i]) \cup {insns[i].reg, insns[i].base}) = {}
DropAt(j) ==
    [i \in 1..(Len(insns) - 1) |->
        IF i < j THEN insns[i] ELSE [insns[i + 1] EXCEPT !.address = @ - 1]]
DecoysHideNothing ==
    Looked => \A k \in Sites : \A j \in 1..(k - 1) :
        Idle(j) /\ k <= Lookback + 1 /\ (\A i \in DOMAIN insns : ~IsDirectJump(insns[i])) =>
            (Said(DropAt(j), k - 1).strength = "strong" => Said(insns, k).strength = "strong")
=============================================================================
