-------------------------- MODULE TileSubdivision --------------------------
(***************************************************************************)
(* How a worker cuts a frame into tiles (PathTracer::render).  The image   *)
(* is split into quadrants, and they into theirs, until a tile fits the    *)
(* limit of one GPU dispatch or is too small to be split; what is left is  *)
(* traced, one dispatch per tile.  The recursion's stack is `pending', the *)
(* call to make next first.                                                *)
(*                                                                         *)
(* Widths and offsets are uint32_t in the code; a quadrant never reaches   *)
(* beyond the image, so no sum wraps.                                      *)
(***************************************************************************)
EXTENDS Integers, Sequences, FiniteSets

CONSTANTS
    Images,       \* the <<width, height>> pairs a render may ask for
    MinTileSize,  \* MIN_TILE_SIZE, 64 in the code
    MaxTileSize,  \* maxTileSize, 512 in RenderServer::RenderJob
    NoTile        \* what minTileSize starts at: UINT32_MAX, above every side

ASSUME SizesAssumption ==
    /\ Images \subseteq (Nat \ {0}) \X (Nat \ {0})
    /\ MinTileSize \in Nat \ {0}
    /\ MaxTileSize \in Nat \ {0}
    /\ NoTile \in Nat
    /\ \A size \in Images : size[1] < NoTile /\ size[2] < NoTile

VARIABLES
    image,    \* m_width, m_height
    pending,  \* calls of renderTileRecursive still to make
    tiles,    \* the tiles traced so far
    stats     \* SubdivisionStats

tileVars == <<image, pending, tiles, stats>>

Larger(a, b)  == IF a > b THEN a ELSE b
Smaller(a, b) == IF a < b THEN a ELSE b

Rect == [x : Nat, y : Nat, w : Nat \ {0}, h : Nat \ {0}]
Region(x, y, w, h) == [x |-> x, y |-> y, w |-> w, h |-> h]
WholeImage == Region(0, 0, image[1], image[2])

NoStats == [min |-> NoTile, max |-> 0, total |-> 0, subdivisions |-> 0]

TilesInit ==
    /\ image \in Images
    /\ pending = << WholeImage >>
    /\ tiles = {}
    /\ stats = NoStats

NeedsSubdivision(r) == r.w > MaxTileSize \/ r.h > MaxTileSize

(* Mutant: one side of twice the minimum is enough.                        *)
CanSubdivideEither(r) == r.w >= 2 * MinTileSize \/ r.h >= 2 * MinTileSize

(* Mutant: the minimum is asked of the region, not of its quadrants.       *)
CanSubdivideSmall(r) == r.w >= MinTileSize /\ r.h >= MinTileSize

(* Mutant: a region needs four times the minimum to make four tiles.       *)
CanSubdivideFour(r) == r.w >= 4 * MinTileSize /\ r.h >= 4 * MinTileSize

CanSubdivide(r) == r.w >= 2 * MinTileSize /\ r.h >= 2 * MinTileSize
Splits(r) == NeedsSubdivision(r) /\ CanSubdivide(r)

(* Mutant: the right and lower quadrants get the rounded-down half, too.   *)
QuadrantsRoundedDown(r) ==
    LET halfW == r.w \div 2
        halfH == r.h \div 2
    IN << Region(r.x, r.y, halfW, halfH),
          Region(r.x + halfW, r.y, halfW, halfH),
          Region(r.x, r.y + halfH, halfW, halfH),
          Region(r.x + halfW, r.y + halfH, halfW, halfH) >>

Quadrants(r) ==
    LET halfW == r.w \div 2
        halfH == r.h \div 2
    IN << Region(r.x, r.y, halfW, halfH),
          Region(r.x + halfW, r.y, r.w - halfW, halfH),
          Region(r.x, r.y + halfH, halfW, r.h - halfH),
          Region(r.x + halfW, r.y + halfH, r.w - halfW, r.h - halfH) >>

(* renderTileRecursive on a region that has to and can be split.           *)
Subdivide ==
    /\ pending # << >>
    /\ Splits(Head(pending))
    /\ pending' = Quadrants(Head(pending)) \o Tail(pending)
    /\ stats' = [stats EXCEPT !.subdivisions = @ + 1]
    /\ UNCHANGED <<image, tiles>>

(* Mutant: the extremes are those of the shorter side.                     *)
CountedShort(r) ==
    LET side == Smaller(r.w, r.h)
    IN [stats EXCEPT !.total = @ + 1,
                     !.min = Smaller(@, side),
                     !.max = Larger(@, side)]

(* The statistics after a tile: its size is its longer side.               *)
Counted(r) ==
    LET side == Larger(r.w, r.h)
    IN [stats EXCEPT !.total = @ + 1,
                     !.min = Smaller(@, side),
                     !.max = Larger(@, side)]

(* renderTileRecursive on a region that is traced as it is.                *)
RenderTile ==
    /\ pending # << >>
    /\ ~ Splits(Head(pending))
    /\ tiles' = tiles \cup {Head(pending)}
    /\ pending' = Tail(pending)
    /\ stats' = Counted(Head(pending))
    /\ UNCHANGED image

TilesNext == Subdivide \/ RenderTile

TilesSpec == TilesInit /\ [][TilesNext]_tileVars

-----------------------------------------------------------------------------
(* Properties.                                                             *)

Regions == tiles \cup {pending[i] : i \in DOMAIN pending}

HasPixel(r, px, py) ==
    /\ r.x <= px /\ px < r.x + r.w
    /\ r.y <= py /\ py < r.y + r.h

Apart(a, b) ==
    \/ a.x + a.w <= b.x \/ b.x + b.w <= a.x
    \/ a.y + a.h <= b.y \/ b.y + b.h <= a.y

(* Every variable has the values the C++ types and the recursion allow.    *)
TilesTypeOK ==
    /\ image \in Images
    /\ pending \in Seq(Rect)
    /\ tiles \subseteq Rect
    /\ stats \in [min : Nat, max : Nat, total : Nat, subdivisions : Nat]

(* No pixel is traced twice: what has been traced and what is still to be  *)
(* traced never overlaps, and no region waits twice.                       *)
RegionsAreApart ==
    /\ \A a, b \in tiles : a # b => Apart(a, b)
    /\ \A a \in tiles, i \in DOMAIN pending : Apart(a, pending[i])
    /\ \A i, j \in DOMAIN pending : i # j => Apart(pending[i], pending[j])

(* No dispatch reaches beyond the image, whose size the shader does not    *)
(* check.                                                                  *)
RegionsAreInside ==
    \A r \in Regions : r.x + r.w <= image[1] /\ r.y + r.h <= image[2]

(* No pixel is left out.                                                   *)
NoPixelIsMissing ==
    \A px \in 0 .. image[1] - 1, py \in 0 .. image[2] - 1 :
        \E r \in Regions : HasPixel(r, px, py)

(* Cutting a frame into tiles neither leaves a pixel out, nor traces one   *)
(* twice, nor leaves the image, whatever its size: odd sides included.     *)
TilesCoverOnce == RegionsAreApart /\ RegionsAreInside /\ NoPixelIsMissing

(* A split never makes a tile narrower or lower than MIN_TILE_SIZE, the    *)
(* promise of the comment in renderTileRecursive.                          *)
NoTileBelowMinimum ==
    \A r \in Regions :
        r # WholeImage => r.w >= MinTileSize /\ r.h >= MinTileSize

(* A tile exceeds the limit only in an image one side of which is more     *)
(* than MaxTileSize / (2 * MinTileSize) times the other, 4 times with the  *)
(* code's numbers: then the short side stops the splitting.                *)
OversizeMeansThinImage ==
    \A r \in tiles : NeedsSubdivision(r) =>
        \/ image[1] * 2 * MinTileSize > image[2] * MaxTileSize
        \/ image[2] * 2 * MinTileSize > image[1] * MaxTileSize

(* The statistics render() prints describe the tiles: each split turns one *)
(* region into four, and the extremes are attained.                        *)
StatsDescribeTiles ==
    /\ stats.total = Cardinality(tiles)
    /\ stats.total + Len(pending) = 1 + 3 * stats.subdivisions
    /\ tiles # {} =>
        /\ \A r \in tiles : /\ stats.min <= Larger(r.w, r.h)
                            /\ Larger(r.w, r.h) <= stats.max
        /\ \E r \in tiles : stats.min = Larger(r.w, r.h)
        /\ \E r \in tiles : stats.max = Larger(r.w, r.h)
=============================================================================
