-------------------------------- MODULE Nr3d --------------------------------
(* The models the build tool makes (model.rs): the primitives of a glTF mesh   *)
(* become one list of vertices and one of indices, and these the words of GPU  *)
(* commands that draw them.  A position stands for its scaled coordinates.     *)
EXTENDS Integers, SequencesExt

Restart == -1   \* None among the indices

Vertex(pos, col) == [pos |-> pos, col |-> col]

\* One primitive of from_gltf_mesh.  Its vertices have the material's colour
\* until those of the vertices, if any, replace it.
AddPrimitive(model, prim) ==
  LET offset == Len(model.vertices)
      coloured(i) == Vertex(prim.positions[i], IF i <= Len(prim.colours) THEN prim.colours[i]
                                               ELSE prim.material)
      indices(i) == IF i % 4 = 0 THEN Restart ELSE offset + prim.indices[i - i \div 4]
  IN  IF prim.mode # "Triangles" THEN model
      ELSE [ vertices |-> model.vertices \o [i \in 1 .. Len(prim.positions) |-> coloured(i)],
             indices |-> model.indices \o [i \in 1 .. Len(prim.indices) + Len(prim.indices) \div 3 |-> indices(i)] ]

FromMesh(mesh) == FoldLeft(AddPrimitive, [vertices |-> <<>>, indices |-> <<>>], mesh)

-----------------------------------------------------------------------------
(* dump_nr3d *)

\* A coordinate of the position does not fit in 16 bits.
IsClipped(v) == v.pos = "far"

Xyz(v) == << <<"word", <<"z", v.pos>> >>, <<"word", <<"yx", v.pos>> >> >>

TriangleWords(v0, v1, v2) ==
  LET gouraud == v0.col # v1.col \/ v0.col # v2.col
      colour(v) == IF gouraud THEN << <<"word", v.col>> >> ELSE <<>>
  IN  IF IsClipped(v0) \/ IsClipped(v1) \/ IsClipped(v2) THEN <<>>
      ELSE << <<"triangle", gouraud, v0.col>> >> \o Xyz(v0)
           \o colour(v1) \o Xyz(v1) \o colour(v2) \o Xyz(v2)

\* A triangle ends at place i: there is no restart in the last three places.
EndsTriangle(indices, i) == i >= 3 /\ \A j \in i - 2 .. i : indices[j] # Restart

AllTriangles(model) ==
  LET v(i) == model.vertices[model.indices[i] + 1]
      at(i) == IF EndsTriangle(model.indices, i) THEN TriangleWords(v(i - 2), v(i - 1), v(i)) ELSE <<>>
  IN  FlattenSeq([i \in 1 .. Len(model.indices) |-> at(i)])

\* The matrix that undoes the scale, 2^scale.  The number written is 65536 times
\* that, and none is if it is 1.  The origin is left where it is.
ScaleWords(scale) ==
  IF scale = -16 THEN <<>>
  ELSE FlattenSeq([p \in 1 .. 3 |-> << <<"set", 0, p>>, <<"word", scale>> >>])

DumpNr3d(model, scale) ==
  << <<"nop">>, <<"reset", 0>> >> \o ScaleWords(scale)
  \o << <<"multiply", 0, 1, 0>>, <<"nop">> >> \o AllTriangles(model)
=============================================================================
