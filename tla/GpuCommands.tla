----------------------------- MODULE GpuCommands -----------------------------
(* The commands of the emulated GPU (gpu.rs): a state machine fed word by      *)
(* word, eight matrices, and the triangles and matrices buffered for OpenGL.   *)
(* A word is a tuple that begins with its command, or "word" for data.  A      *)
(* matrix is diagonal and holds powers of two: it is the triple of exponents.  *)
EXTENDS Integers, Sequences

CONSTANTS
  Matrices,         \* the indices of the matrices
  MaxMatrices,      \* MAX_BUFFERED_MATRIX
  MaxTriangles,     \* triangles that overfill the vertex buffer
  TriangleCycles, MultiplyCycles, EndCycles

Identity == <<0, 0, 0>>
Times(a, b) == [p \in 1 .. 3 |-> a[p] + b[p]]

Idle == <<"Idle">>

\* Gpu::new; lut[i] is the place of matrix i in mats plus one, or 0, and shown
\* the triangles that draw_triangles was given, each with its matrix.
NewGpu(frame) ==
  [ fifo |-> <<>>, remaining |-> 0, frame |-> frame, state |-> Idle, drawing |-> FALSE, drawMat |-> 0,
    mat |-> [i \in Matrices |-> Identity], lut |-> [i \in Matrices |-> 0],
    vert |-> [v \in 0 .. 2 |-> [col |-> "black", z |-> 0, yx |-> 0]],
    mats |-> <<>>, tris |-> <<>>, shown |-> <<>> ]

Resolved(g) == [i \in 1 .. Len(g.tris) |-> [g.tris[i] EXCEPT !.mat = g.mats[@]]]

\* do_draw
Flush(g) ==
  IF g.tris = <<>> THEN g
  ELSE [g EXCEPT !.shown = @ \o Resolved(g), !.tris = <<>>, !.mats = <<>>,
                 !.lut = [i \in Matrices |-> 0]]

\* The matrix to draw with is given a place, which may first have to be made.
AddMatrix(g) == [g EXCEPT !.mats = Append(@, g.mat[g.drawMat]), !.lut[g.drawMat] = Len(g.mats) + 1]
PlaceMatrix(g) ==
  IF g.lut[g.drawMat] # 0 THEN g
  ELSE AddMatrix(IF Len(g.mats) >= MaxMatrices THEN Flush(g) ELSE g)

AddTriangle(g) ==
  [g EXCEPT !.tris = Append(@, [mat |-> g.lut[g.drawMat], vert |-> g.vert]),
            !.remaining = @ + TriangleCycles]
FlushIfFull(g) == IF Len(g.tris) >= MaxTriangles THEN Flush(g) ELSE g

\* draw_flat_triangle
DrawTriangle(g) == IF g.drawing THEN FlushIfFull(AddTriangle(PlaceMatrix(g))) ELSE g

\* Mutant: the product does not replace the matrix that triangles use.
MultiplyStale(g, out, a, b) ==
  [g EXCEPT !.mat[out] = Times(g.mat[a], g.mat[b]), !.remaining = @ + MultiplyCycles]

\* Matrix out becomes the product of a and b.
Multiply(g, out, a, b) ==
  [g EXCEPT !.mat[out] = Times(g.mat[a], g.mat[b]), !.lut[out] = 0,
            !.remaining = @ + MultiplyCycles]

\* The command panics, or what it does is not modelled.
Lost(g) == [g EXCEPT !.state = <<"Lost">>]

\* handle_new_command
HandleNewCommand(g, w) ==
  CASE w[1] = "nop" -> g
    [] w[1] = "start" -> [g EXCEPT !.drawing = TRUE]
    [] w[1] = "end" -> IF ~g.drawing THEN g
                       ELSE [Flush(g) EXCEPT !.drawing = FALSE, !.remaining = @ + EndCycles]
    [] w[1] = "select" -> [g EXCEPT !.drawMat = w[2]]
    [] w[1] = "reset" -> [g EXCEPT !.mat[w[2]] = Identity]
    [] w[1] = "set" -> [g EXCEPT !.state = <<"Component", w[2], w[3]>>]
    [] w[1] = "multiply" -> Multiply(g, w[2], w[3], w[4])
    [] w[1] = "triangle" ->
         [g EXCEPT !.vert = [v \in 0 .. 2 |-> [@[v] EXCEPT !.col = w[3]]],
                   !.state = <<"Z", 0, w[2]>>]
    [] OTHER -> Lost(g)

\* set_matrix_component
SetComponent(g, i, p, v) ==
  IF g.mat[i][p] = v THEN g ELSE [g EXCEPT !.mat[i][p] = v, !.lut[i] = 0]

\* A vertex is complete.
NextVertex(g, v, gouraud) ==
  IF v = 2 THEN [DrawTriangle(g) EXCEPT !.state = Idle]
  ELSE [g EXCEPT !.state = IF gouraud THEN <<"Rgb", v + 1, TRUE>> ELSE <<"Z", v + 1, FALSE>>]

\* Data where a command is due, or the reverse: what it does is not modelled.
Misplaced(g, w) == w[1] = "word" <=> g.state = Idle

\* handle_command
HandleCommand(g, w) ==
  LET s == g.state
  IN  CASE Misplaced(g, w) -> Lost(g)
        [] s = Idle -> HandleNewCommand(g, w)
        [] s[1] = "Component" -> [SetComponent(g, s[2], s[3], w[2]) EXCEPT !.state = Idle]
        [] s[1] = "Rgb" -> [g EXCEPT !.vert[s[2]].col = w[2], !.state = <<"Z", s[2], s[3]>>]
        [] s[1] = "Z" -> [g EXCEPT !.vert[s[2]].z = w[2], !.state = <<"YX", s[2], s[3]>>]
        [] s[1] = "YX" -> NextVertex([g EXCEPT !.vert[s[2]].yx = w[2]], s[2], s[3])
        [] OTHER -> Lost(g)
=============================================================================
