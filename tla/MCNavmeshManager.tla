-------------------------- MODULE MCNavmeshManager --------------------------
(***************************************************************************)
(* Three of the meshes the generator makes in the run of MCNavGenerator,   *)
(* 21 x 11 cells of 20 cm; the unit of length is 5 cm.                     *)
(***************************************************************************)
EXTENDS NavmeshManager

V(x, y, z) == [x |-> x, y |-> y, z |-> z]
Poly(verts, neis) == [verts |-> verts, neis |-> neis]
Map(verts, polys) ==
  [verts |-> verts, polys |-> polys, bmin |-> V(0, 0, 0), bmax |-> V(84, 42, 44)]

\* A hall with a gate and a pillar.
Gate ==
  Map(<<V(2, 2, 5), V(2, 2, 9), V(5, 2, 9), V(9, 2, 9), V(11, 2, 6), V(11, 2, 5),
        V(9, 2, 2), V(5, 2, 2), V(2, 2, 2), V(4, 2, 5), V(6, 2, 4), V(7, 2, 6),
        V(5, 2, 7), V(12, 2, 9), V(15, 2, 9), V(19, 2, 9), V(19, 2, 5), V(19, 2, 2),
        V(15, 2, 2), V(12, 2, 2)>>,
      <<Poly(<<8, 9, 1, 10, 11>>, <<0, 0, 5, 0, 4>>), Poly(<<12, 4, 5, 6, 7, 11>>, <<3, 0, 6, 0, 4, 0>>),
        Poly(<<3, 4, 12, 13>>, <<0, 2, 0, 5>>), Poly(<<7, 8, 11>>, <<0, 1, 2>>),
        Poly(<<13, 10, 1, 2, 3>>, <<0, 1, 0, 0, 3>>), Poly(<<6, 5, 14>>, <<2, 0, 7>>),
        Poly(<<17, 18, 19, 6, 14, 15>>, <<0, 0, 8, 6, 0, 9>>), Poly(<<19, 20, 6>>, <<0, 0, 7>>),
        Poly(<<15, 16, 17>>, <<0, 0, 7>>)>>)

\* A bridge over the floor, which nothing leads up to.
Bridge ==
  Map(<<V(11, 3, 6), V(11, 2, 5), V(9, 2, 2), V(5, 2, 2), V(2, 2, 2), V(2, 2, 5),
        V(2, 2, 9), V(5, 2, 9), V(9, 2, 9), V(16, 2, 5), V(17, 2, 9), V(19, 2, 9),
        V(19, 2, 5), V(19, 2, 2), V(15, 2, 2), V(12, 2, 2), V(17, 7, 6), V(17, 7, 9),
        V(19, 7, 9), V(19, 7, 5), V(19, 7, 2)>>,
      <<Poly(<<4, 5, 6>>, <<0, 0, 4>>), Poly(<<1, 2, 3>>, <<5, 0, 4>>),
        Poly(<<6, 7, 8>>, <<0, 0, 4>>), Poly(<<8, 9, 1, 3, 4, 6>>, <<0, 0, 2, 0, 1, 3>>),
        Poly(<<16, 2, 1, 10, 15>>, <<0, 2, 0, 7, 0>>), Poly(<<11, 12, 13, 10>>, <<0, 0, 7, 0>>),
        Poly(<<10, 13, 14, 15>>, <<6, 0, 0, 5>>), Poly(<<20, 21, 17>>, <<0, 0, 9>>),
        Poly(<<17, 18, 19, 20>>, <<0, 0, 0, 8>>)>>)

\* A corner cut off by a wall.
Ledge ==
  Map(<<V(2, 2, 8), V(5, 2, 9), V(9, 2, 9), V(11, 2, 6), V(12, 2, 9), V(15, 2, 9),
        V(19, 2, 9), V(19, 2, 6), V(15, 2, 5), V(15, 2, 2), V(12, 2, 2), V(10, 2, 5),
        V(9, 2, 2), V(6, 2, 2), V(6, 2, 7)>>,
      <<Poly(<<15, 1, 2, 3>>, <<0, 0, 0, 6>>), Poly(<<3, 4, 12>>, <<0, 3, 6>>),
        Poly(<<4, 9, 10, 11, 12>>, <<4, 0, 0, 0, 2>>), Poly(<<4, 5, 6, 9>>, <<0, 0, 5, 3>>),
        Poly(<<6, 7, 8, 9>>, <<0, 0, 0, 4>>), Poly(<<12, 13, 14, 15, 3>>, <<0, 0, 0, 1, 2>>)>>)

\* A mesh without ground: nothing is saved.
Bare == Map(<<>>, <<>>)
MeshesDef == {Gate, Bridge, Ledge, Bare}

PointsDef ==
  {[x |-> -z, y |-> x, z |-> 4] : x \in {10, 26, 42, 62, 78}, z \in {8, 20, 36}}
    \union {[x |-> -38, y |-> 16, z |-> 4], [x |-> -20, y |-> 340, z |-> 4]}
PolygonsDef == 1..9
SpaceDef == [x : Int, y : Int, z : Int]
ReachDef == V(20, 40, 20)
ShotReachDef == V(10, 20, 10)
MapReachDef == V(40, 80, 40)
=============================================================================
