----------------------------- MODULE MCCartridge -----------------------------
(* Every tree of three levels with one program, and every small program with *)
(* one tree.                                                                 *)
EXTENDS Cartridge

MCNames == {1, 2}
MCNodes == {<<0, a>> : a \in MCNames} \cup {<<0, a, b>> : a, b \in MCNames}
MCPaths == MCNodes \cup {<<>>, <<0>>}

MCTreesOn(paths) ==
  { t \in [paths -> [dir : BOOLEAN, size : {0, 3}]] :
      \A p \in paths :
        /\ t[p].dir => t[p].size = 0
        /\ Len(p) > 1 => Front(p) \in paths /\ t[Front(p)].dir }
MCTrees == UNION {MCTreesOn(paths \cup {<<0>>}) : paths \in SUBSET MCNodes}
MCTree == [p \in {<<0>>, <<0, 1>>} |-> [dir |-> p = <<0>>, size |-> 0]]

\* RAM is 0 .. 11, ROM 16 .. 61.
MCSegment(load, paddr, vaddr, data, memsz) ==
  [load |-> load, paddr |-> paddr, vaddr |-> vaddr, data |-> data, memsz |-> memsz]
MCBoot == {<<>>, <<MCSegment(TRUE, 16, 16, <<"b1", "ff">>, 2), MCSegment(FALSE, 16, 16, <<"b1">>, 1)>>}
MCText == {MCSegment(TRUE, p, v, <<"t1", "t2">>, 2) : p \in {16, 18, 60}, v \in {16, 18, 4, 9, 10}}
MCData == {MCSegment(TRUE, p, v, <<"ff", "d2">>, n) : p \in {17, 20}, v \in {5, 6}, n \in {2, 3}}
MCBss == {MCSegment(l, 0, v, <<>>, n) : l \in BOOLEAN, v \in {6, 8, 9}, n \in {0, 1, 3}}
MCPrograms == {<<t>> : t \in MCText} \cup {<<t, d>> : t \in MCText, d \in MCData}
              \cup {<<d, b>> : d \in MCData, b \in MCBss} \cup {<<b, t, d>> : t \in MCText, d \in MCData, b \in MCBss}
MCApart(segments) ==
  \A i, j \in 1 .. Len(segments) :
    LET s == segments[i]
        t == segments[j]
    IN  i # j /\ s.load /\ t.load => s.vaddr + s.memsz <= t.vaddr \/ t.vaddr + t.memsz <= s.vaddr
MCInput(boot, main, stack, tree_) ==
  [boot |-> boot, bootEntry |-> 16, main |-> main, entry |-> 4, gps |-> {5}, stack |-> stack, tree |-> tree_]
MCSmall == <<MCSegment(TRUE, 16, 4, <<"t1">>, 1)>>
MCInputs ==
  {MCInput(<<>>, MCSmall, 1, t) : t \in MCTrees}
  \cup {MCInput(b, m, s, MCTree) : b \in MCBoot, m \in {x \in MCPrograms : MCApart(x)}, s \in {1, 2}}
  \cup {[MCInput(b, MCSmall, 1, MCTree) EXCEPT !.bootEntry = e, !.entry = a, !.gps = g] :
           b \in MCBoot, e \in {16, 17}, a \in {4, 12, 61}, g \in {{}, {4, 16}, {5, 62}}}
=============================================================================
