------------------------------ MODULE MCMachine ------------------------------
(* Short frames, ticks and queues; commands that take 1 to 5 cycles. *)
EXTENDS Machine, Nr3d, Nrad

Silence == [samples |-> <<>>, loop |-> -1]
NoSound == [ram |-> BlockSize, stores |-> <<>>, sound |-> Silence]
Program(ops, until) == [ops |-> ops, until |-> until, frame |-> 7, words |-> <<>>, shows |-> <<>>]
  @@ NoSound

\* A primitive of one triangle; a mesh of three, one of which is not triangles and
\* one has a triangle that does not fit.
Triangle(mode, colours, p) ==
  [ mode |-> mode, positions |-> <<p, p, p>>, colours |-> colours, material |-> "red",
    indices |-> <<2, 1, 0>> ]
MCMesh == << Triangle("Triangles", <<"red", "green", "red">>, "a"),
             Triangle("Lines", <<>>, "b"),
             [Triangle("Triangles", <<>>, "far") EXCEPT !.positions = @ \o <<"b", "b", "c">>,
                                               !.indices = @ \o <<3, 4, 5, 5, 4, 3>>] >>

\* What OpenGL should be given: the triangles of the mesh that fit, under one matrix.
Corner(prim, i) ==
  LET p == prim.positions[i + 1]
  IN  [ col |-> IF i < Len(prim.colours) THEN prim.colours[i + 1] ELSE prim.material,
        z |-> <<"z", p>>, yx |-> <<"yx", p>> ]
Fits(prim, k) == \A j \in 1 .. 3 : prim.positions[prim.indices[3 * k + j] + 1] # "far"
Shown(prim, k, mat) ==
  [mat |-> mat, vert |-> [v \in 0 .. 2 |-> Corner(prim, prim.indices[3 * k + v + 1])]]
Meant(mesh, mat) ==
  LET of(prim) ==
        IF prim.mode # "Triangles" THEN <<>>
        ELSE FlattenSeq([k \in 1 .. Len(prim.indices) \div 3 |->
               IF Fits(prim, k - 1) THEN <<Shown(prim, k - 1, mat)>> ELSE <<>>])
  IN  FlattenSeq([i \in 1 .. Len(mesh) |-> of(mesh[i])])

\* The program scales matrix 1 and draws the same model twice: under a matrix that the
\* model's own scale multiplies, and under one that it leaves alone.
Scale(mat, k) ==
  << <<"reset", mat>> >> \o FlattenSeq([p \in 1 .. 3 |-> << <<"set", mat, p>>, <<"word", k>> >>])
Draw(mesh, scale) ==
  Scale(1, 1) \o << <<"start">>, <<"select", 0>> >> \o DumpNr3d(FromMesh(mesh), scale)
  \o Scale(1, 2) \o DumpNr3d(FromMesh(mesh), 0) \o << <<"end">> >>

Drawing(mesh, scale, until, frame) ==
  [ ops |-> {"draw"}, until |-> until, frame |-> frame, words |-> Draw(mesh, scale),
    shows |-> Meant(mesh, [p \in 1 .. 3 |-> 1 + scale]) \o Meant(mesh, <<2, 2, 2>>) ]
  @@ NoSound

\* The program uploads a sound to the second block of the memory, and plays it.
Upload(words) == << <<"ptr", BlockSize>> >> \o [k \in 1 .. Len(words) \div 2 |-> <<"ram", words[2 * k - 1], words[2 * k]>>]
Play(samples, loop, config, then, until) ==
  LET blocks == DumpNrad(samples, loop)
      words == NradWords(blocks)
  IN  [ Program({"spu", "compute"}, until) EXCEPT
          !.ram = Len(words) + BlockSize,
          !.stores = Upload(words) \o << <<"block", 1>>, <<"step", 16383>>, <<"adsr", config>>, <<"on">> >> \o then,
          !.sound = [ samples |-> FlattenSeq([i \in DOMAIN blocks |-> blocks[i].decoded]),
                      loop |-> IF loop = -1 THEN -1 ELSE BlockLen * (loop \div BlockLen) ] ]

Ramp == [i \in 1 .. 14 |-> 900 * i]
Fading == [NoConfig EXCEPT !.releaseExp = TRUE, !.attackExp = TRUE]
\* A looping silence that fades from a level, with the smallest steps and others.
MCConfigs == { [NoConfig EXCEPT !.attackExp = TRUE, !.attackStep = 3, !.attackShift = k,
                                !.releaseExp = TRUE, !.releaseShift = k] : k \in {0, 12, 31} }
Fade(config, level) ==
  [ Program({"spu", "compute"}, 10) EXCEPT
      !.stores = << <<"adsr", config>>, <<"on">>, <<"release">>, <<"level", level>> >>,
      !.sound = [samples |-> [i \in 1 .. BlockLen |-> 0], loop |-> 0] ]

MCPrograms ==
  { Program({"compute", "csr", "trap", "wfi", "timer", "irq"}, 16),
    Program({"compute", "dma", "gpu"}, 9),
    Program({"compute", "dma"}, 12),
    Program({"compute", "input", "irq"}, 12),
    Program({"compute", "gpu", "timer"}, 11),
    Program({"csr", "trap", "wfi", "timer", "irq", "gpu", "dma", "input"}, 4),
    Drawing(MCMesh, 3, 250, 60),
    Play(Ramp, -1, NoConfig, << <<"on">> >>, 45),
    Play(Ramp, 0, Fading, << <<"release">>, <<"level", 9>> >>, 45) }
  \cup {Fade(config, level) : config \in MCConfigs, level \in {1, 2, 255, 24576, Max16}}
\* A triangle drawn with a matrix that is then reset and draws it again.
MCIdentityPrograms ==
  LET mesh == <<Triangle("Triangles", <<>>, "a")>>
      words == AllTriangles(FromMesh(mesh))
  IN  { [ ops |-> {"draw"}, until |-> 100, frame |-> 200,
          words |-> Scale(0, 1) \o << <<"start">>, <<"select", 0>> >> \o words \o << <<"reset", 0>> >> \o words \o << <<"end">> >>,
          shows |-> Meant(mesh, <<1, 1, 1>>) \o Meant(mesh, Identity) ] @@ NoSound }
MCStallPrograms == {[Program({"compute", "dma"}, 40) EXCEPT !.frame = 100]}

MCCheap == <<"nop">>
MCCostly == <<"multiply", 1, 1, 0>>
MCCommands == {MCCostly}
MCBuffers == { <<MCCheap>>, <<MCCostly, MCCheap, MCCostly, MCCheap, MCCostly>> }
MCCheapBuffers == { [i \in 1 .. 6 |-> MCCheap] }
=============================================================================
