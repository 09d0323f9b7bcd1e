------------------------------ MODULE TilePlan ------------------------------
(***************************************************************************)
(* The level-0 pyramid of an image: what tilePlan computes and             *)
(* renderTilePyramid writes (internal/preserve/tile.go), and what          *)
(* diagnosePyramid expects from the info.json beside it (internal/serve/   *)
(* doctor.go), which is a computation of its own.  A file is its key.      *)
(***************************************************************************)
EXTENDS Integers, FiniteSets

ceilDiv(a, b) == (a + b - 1) \div b

Least(a, b) == IF a <= b THEN a ELSE b

InOneTile(width, height, tileSize, s) ==
  ceilDiv(width, s) <= tileSize /\ ceilDiv(height, s) <= tileSize

\* s in the k-th round of the first loop, which doubles it up to the first
\* round in which the image fits in one tile, at the latest round n.
Doubling(n) ==
  LET s[k \in 0..n] == IF k = 0 THEN 1 ELSE 2 * s[k - 1] IN s

\* Rounds bounds the loop, which has no bound of its own.
Rounds(width, height) == width + height

ScaleFactors(width, height, tileSize) ==
  LET s == Doubling(Rounds(width, height)) IN
  {s[k] : k \in {i \in 0..Rounds(width, height) :
                   \A j \in 0..(i - 1) : ~InOneTile(width, height, tileSize, s[j])}}

Sizes(width, height, tileSize) ==
  {<<ceilDiv(width, s), ceilDiv(height, s)>> :
     s \in ScaleFactors(width, height, tileSize)}

Tile(width, height, full, s, x, y) ==
  LET w == Least(full, width - x)
      h == Least(full, height - y)
  IN [x |-> x, y |-> y, w |-> w, h |-> h, sw |-> ceilDiv(w, s), sh |-> ceilDiv(h, s)]

\* for i := 0; i < limit; i += step
Offsets(limit, step) == {step * i : i \in 0..(ceilDiv(limit, step) - 1)}

\* Mutant of Tiles: the number of tiles in a row is rounded down.
TilesRoundedDown(width, height, tileSize, s) ==
  LET full == tileSize * s IN
  {Tile(width, height, full, s, full * i, y) :
     i \in 0..(width \div full - 1), y \in Offsets(height, full)}

Tiles(width, height, tileSize, s) ==
  LET full == tileSize * s IN
  {Tile(width, height, full, s, x, y) :
     x \in Offsets(width, full), y \in Offsets(height, full)}

InfoJSON(width, height, tileSize) ==
  [width |-> width, height |-> height,
   sizes |-> Sizes(width, height, tileSize),
   tiles |-> [width |-> tileSize, height |-> tileSize,
              scaleFactors |-> ScaleFactors(width, height, tileSize)]]

Rendered(width, height, tileSize) ==
  [full |-> Sizes(width, height, tileSize),
   tiles |-> UNION {Tiles(width, height, tileSize, s) :
                      s \in ScaleFactors(width, height, tileSize)}]

MaxFiles == 10000000

\* diagnosePyramid reports a factor that asks for more files than that.
Reasonable(info, s) ==
  ceilDiv(info.width, info.tiles.width * s)
    <= MaxFiles \div ceilDiv(info.height, info.tiles.height * s)

Advertised(info, s) ==
  LET fullW == info.tiles.width * s
      fullH == info.tiles.height * s
  IN {[x |-> x, y |-> y,
       w |-> Least(fullW, info.width - x),
       h |-> Least(fullH, info.height - y),
       sw |-> ceilDiv(Least(fullW, info.width - x), s),
       sh |-> ceilDiv(Least(fullH, info.height - y), s)] :
         x \in {i \in 0..(info.width - 1) : i % fullW = 0},
         y \in {i \in 0..(info.height - 1) : i % fullH = 0}}

\* The files a sound info.json makes diagnosePyramid look for.
Expected(info) ==
  [full |-> info.sizes,
   tiles |-> UNION {Advertised(info, s) :
                      s \in {f \in info.tiles.scaleFactors : Reasonable(info, f)}}]

-----------------------------------------------------------------------------
(* What a viewer relies on.                                                *)

Covers(tile, px, py) ==
  px \in tile.x..(tile.x + tile.w - 1) /\ py \in tile.y..(tile.y + tile.h - 1)

\* At every scale each pixel is in one tile, which is not empty and no larger
\* than a tile when it is scaled; the last scale is a single tile.
Partition(width, height, tileSize) ==
  LET factors == ScaleFactors(width, height, tileSize) IN
  /\ \A s \in factors :
       LET tiles == Tiles(width, height, tileSize, s) IN
       /\ \A px \in 0..(width - 1), py \in 0..(height - 1) :
            Cardinality({t \in tiles : Covers(t, px, py)}) = 1
       /\ \A t \in tiles : t.sw \in 1..tileSize /\ t.sh \in 1..tileSize
  /\ \E s \in factors :
       /\ \A r \in factors : r <= s
       /\ Cardinality(Tiles(width, height, tileSize, s)) = 1
=============================================================================
