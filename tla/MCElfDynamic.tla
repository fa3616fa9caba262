---------------------------- MODULE MCElfDynamic ----------------------------
EXTENDS ElfDynamic

\* A file of 560 bytes, mapped at 16: PT_DYNAMIC at 0, then from 360 on the GNU
\* hash table, SYSV hash at 400, symbols at 424, relocations at 496 (RELA) and
\* 520 (REL), the init array at 536 and strings at 544.
Base == 16
Load(from, size, exec) ==
    [type |-> "load", exec |-> exec, offset |-> from, va |-> Base + from, filesz |-> size, memsz |-> size]
Whole == Load(0, 560, TRUE)
Dynamic == [Load(0, 360, FALSE) EXCEPT !.type = "dynamic"]

WellFormed ==
    << <<"strtab", Base + 544>>, <<"strsz", 16>>, <<"needed", 1>>, <<"needed", 5>>,
       <<"symtab", Base + 424>>, <<"hash", Base + 400>>, <<"gnu", Base + 360>>,
       <<"rela", Base + 496>>, <<"relasz", 24>>, <<"rel", Base + 520>>, <<"relsz", 16>>,
       <<"jmprel", Base + 496>>, <<"pltrelsz", 24>>, <<"init", Base + 424>>, <<"fini", 0>>,
       <<"initarray", Base + 536>>, <<"initarraysz", 8>> >>
End == << <<"null", 0>> >>
Tags == {WellFormed[k][1] : k \in DOMAIN WellFormed} \cup {"relaent", "relent", "pltrel", "syment"}
Values == {0, 7, 8, 17, 24, 48, 440, 500, 548, 567, 639}
Without(t) == SelectSeq(WellFormed, LAMBDA e : e[1] # t)

\* One entry of a sound library is another number or missing; so is one entry
\* of a library without DT_HASH and without a readable DT_RELA.
Lists ==
    {<<e>> \o Without(e[1]) : e \in Tags \X Values}
    \cup {Without(t) : t \in Tags}
    \cup {<<e>> \o SelectSeq(Without(e[1]), LAMBDA f : f[1] \notin {"hash", "relasz"}) :
            e \in {"gnu", "symtab", "strsz"} \X Values}

Sysvs == {[buckets |-> 1, chains |-> 3], [buckets |-> 0, chains |-> 3]}
Gnu(symoffset, buckets, ends) == [symoffset |-> symoffset, bloom |-> 1, buckets |-> buckets, ends |-> ends]
Relocations ==
    [rela |-> << [symbol |-> 1, jump |-> FALSE, at |-> 100] >>,
     rel |-> << [symbol |-> 9, jump |-> FALSE, at |-> 100] >>,
     jmprel |-> << [symbol |-> 2, jump |-> TRUE, at |-> 108] >>]
Symbols ==
    << [name |-> 0, defined |-> FALSE], [name |-> 1, defined |-> FALSE],
       [name |-> 5, defined |-> TRUE], [name |-> 15, defined |-> TRUE] >>
Nuls == {544, 547, 552, 556}
OneList(list) == [k \in 1..3 |-> list \o End]

\* The ways a file may be mapped: whole; in two parts; in two parts that
\* overlap, the later one first; so high that sums wrap around; from an offset
\* whose sum wraps around; executable only where it has less memory than file.
Maps ==
    {<<Dynamic, Whole>>,
     <<Dynamic, Load(0, 460, TRUE), Load(460, 100, FALSE)>>,
     <<Dynamic, Load(448, 112, TRUE), Load(0, 500, FALSE)>>,
     <<Dynamic, [Whole EXCEPT !.va = 620], Whole>>,
     <<Dynamic, [Load(424, 72, TRUE) EXCEPT !.offset = 630], Load(0, 552, TRUE)>>,
     <<Dynamic, [Whole EXCEPT !.memsz = 500], [Whole EXCEPT !.exec = FALSE]>>}

Varied ==
    [size : {560, 550}, segments : Maps, lists : {OneList(list) : list \in Lists}, nuls : {Nuls},
     sysv : Sysvs, gnu : {Gnu(1, <<1, 0, 2>>, {1, 2})}, relocations : {Relocations}, raw : {Symbols}]

\* Symbols in the buckets of a GNU hash table, and chains that do not end.
Chains ==
    [size : {560}, segments : {<<Dynamic, Whole>>}, lists : {OneList(Without("hash"))}, nuls : {Nuls},
     sysv : Sysvs, relocations : {Relocations}, raw : {Symbols},
     gnu : {Gnu(symoffset, buckets, ends) :
              symoffset \in 0..2, buckets \in [1..2 -> 0..4], ends \in SUBSET (0..4)}]

\* Several PT_DYNAMIC: without an end, outside the file, and a second one.
Doubled ==
    [size : {560}, segments : {<<[Dynamic EXCEPT !.filesz = size], Dynamic, Whole>> : size \in {0, 32, 360, 561}},
     lists : {<<Without("symtab") \o tail, WellFormed \o End>> : tail \in {End, << >>}}, nuls : {Nuls},
     sysv : Sysvs, gnu : {Gnu(1, <<1>>, {2})}, relocations : {Relocations}, raw : {Symbols}]

SomeFamilies == <<Varied, Chains, Doubled>>
=============================================================================
