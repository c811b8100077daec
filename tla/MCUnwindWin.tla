---------------------------- MODULE MCUnwindWin ----------------------------
(* A process for UnwindWin: a program, the runtime, a system library that no *)
(* record is kept of, and two libraries that come and go at two places; and  *)
(* images for Section: every order of up to three sections whose names are   *)
(* close to each other, the full table from every starting point, and the    *)
(* full table with one section missing; alone, and behind another library.   *)
EXTENDS UnwindWin, TLC

Op(op, info) == 3 + 256 * (op + 16 * info)
Push == Op(PUSH_NON_VOL, 5)

Fn(n, kind, codes, size, off) ==
  [start |-> 3 * n - 2, end |-> 3 * n + 1, kind |-> kind, codes |-> codes,
   size |-> size, off |-> off]
Managed(n, size, off) == Fn(n, "managed", <<>>, size, off)

\* Prologues: saved registers, a small, a large and a very large allocation.
Saving == <<Op(SAVE_NON_VOL, 6), 2, Op(ALLOC_SMALL, 3), Push, Push>>
Large == <<Op(ALLOC_LARGE, 0), 20, Push>>
VeryLarge == <<Op(ALLOC_LARGE, 1), 8, 1, Op(SET_FP_REG, 0), Push>>

RtFunctions ==
  << Fn(1, "runtime", Saving, 48, 0), Fn(2, "Throw", Large, 168, 0),
     Fn(3, "N2C", <<Push>>, 40, 0), Fn(4, "C2N", <<Push>>, 40, 0),
     Fn(5, "Execute", <<Push>>, 72, 0), Fn(6, "Apply", <<Push>>, 72, 0),
     Fn(7, "Grow", <<Op(ALLOC_SMALL, 1), Push>>, 24, 0), Fn(8, "TPE", <<Op(ALLOC_SMALL, 0), Push>>, 16, 0) >>

NoExports == [exports |-> <<>>, names |-> <<>>]
File(native, functions, table) ==
  [native |-> native, size |-> 30, functions |-> functions,
   exports |-> table.exports, names |-> table.names]
Named(name, ordinal) == [name |-> name, ordinal |-> ordinal]

MCImage ==
  [ exe   |-> File(FALSE, <<Managed(1, 64, 24), Fn(2, "c", VeryLarge, 65552, 0),
                            Managed(3, 80, 16)>>, NoExports),
    rt    |-> File(FALSE, RtFunctions, NoExports),
    sys   |-> File(TRUE, <<>>, NoExports),
    plug  |-> File(FALSE, <<Managed(1, 96, 40), Managed(2, 56, 8)>>,
                   [exports |-> <<6, 1, 4, 1>>,
                    names |-> <<Named("a", 2), Named("b", 1), Named("c", 4)>>]),
    plug2 |-> File(FALSE, <<Managed(1, 88, 32)>>,
                   [exports |-> <<2, 5>>, names |-> <<Named("d", 2)>>]) ]

In(file, fn) == [file |-> file, fn |-> fn]
Rt(fn) == In("rt", fn)

MCStacks ==
  { <<Rt(1), Rt(2), In("exe", 1), In("exe", 3), Rt(5), Rt(1)>>,
    <<Rt(1), In("exe", 3), Rt(3), In("exe", 2), Rt(4), In("plug", 1), Rt(5)>>,
    <<Rt(1), Rt(7), In("exe", 1), Rt(6), Rt(1)>>,
    <<In("plug2", 1), Rt(5)>>,
    <<Rt(1), Rt(8), Rt(1), In("plug", 2)>> }

\* Two threads that throw; the images do not matter.
MCThrowing == { s \in MCStacks : s[2] \in {Rt(2), Rt(7)} }

MCFixed == <<"exe", "rt", "sys">>
MCFixedBase == [exe |-> 100, rt |-> 130, sys |-> 160]
MCBases == {100, 130, 160, 190, 220}
MCAddresses == {10, 131, 190, 192, 194, 197}
MCSymmetry == Permutations(Walkers)

Close == {".header", ".cjspdct", ".cjsp", ".cjsm", ".cjtt", ".cjti", ".text_rt", ".rdata"}
Orders(S, n) == {q \in [1..n -> S] : \A a, b \in 1..n : q[a] = q[b] => a = b}

AllNames(names) == [p \in DOMAIN names |-> names[p][1]]
Turned(q, n) == SubSeq(q, n, Len(q)) \o SubSeq(q, 1, n - 1)
Without(q, n) == SubSeq(q, 1, n - 1) \o SubSeq(q, n + 1, Len(q))
Full(names) == {Turned(AllNames(names), n) : n \in DOMAIN names}
               \union {Without(AllNames(names), n) : n \in DOMAIN names}

\* Sections of growing sizes, one behind the other with a gap of one.
Layout(q) == [n \in DOMAIN q |-> [name |-> q[n], va |-> (n * (n + 1)) \div 2, size |-> n]]

MCOwn == "own"
Having(q) == [name |-> MCOwn, base |-> 1000, sections |-> Layout(q)]
Other == [name |-> "other", base |-> 5000, sections |-> Layout(<<".cjsp", "__cjstrpool">>)]

\* The runtime of the process above: its code and one kind of metadata.
MCProcess ==
  << [name |-> MCOwn, base |-> 130,
      sections |-> << [name |-> ".text_rt", va |-> 1, size |-> 24],
                      [name |-> ".cjti", va |-> 26, size |-> 3] >>] >>

MCOnlyProcess == {MCProcess}

MCImageLists ==
  LET orders == UNION {Orders(Close, n) : n \in 0..3}
                \union Full(Sections!SectionNames) \union Full(Sections!SectionDataNames) IN
    {MCProcess} \union {<<Having(q)>> : q \in orders} \union {<<Other, Having(q)>> : q \in orders}
=============================================================================
