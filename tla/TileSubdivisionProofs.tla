----------------------- MODULE TileSubdivisionProofs -----------------------
(***************************************************************************)
(* For every image, every minimum and every maximum: the recursion over    *)
(* tiles covers the image once, makes no tile narrower or lower than the   *)
(* minimum, leaves a tile above the maximum in thin images only, and       *)
(* counts what it does.                                                    *)
(***************************************************************************)
EXTENDS TileSubdivision, FiniteSetTheorems, SequenceTheorems, TLAPS

(* Half of a side, rounded down, and what is left.                         *)
LEMMA HalfFacts ==
    ASSUME NEW n \in Nat
    PROVE  /\ n \div 2 \in Nat
           /\ 2 * (n \div 2) <= n
           /\ n <= 2 * (n \div 2) + 1
OBVIOUS

(* A region that can be split has four quadrants with sides of at least    *)
(* the minimum.                                                            *)
LEMMA QuadrantsAreRects ==
    ASSUME NEW r \in Rect, CanSubdivide(r)
    PROVE  /\ Quadrants(r) \in Seq(Rect)
           /\ Len(Quadrants(r)) = 4
           /\ DOMAIN Quadrants(r) = 1 .. 4
           /\ \A q \in 1 .. 4 : /\ Quadrants(r)[q] \in Rect
                                /\ Quadrants(r)[q].w >= MinTileSize
                                /\ Quadrants(r)[q].h >= MinTileSize
<1> DEFINE a == r.w \div 2
           b == r.h \div 2
<1>1. /\ r.x \in Nat /\ r.y \in Nat /\ r.w \in Nat /\ r.h \in Nat
      /\ r.w >= 2 * MinTileSize /\ r.h >= 2 * MinTileSize
      /\ MinTileSize \in Nat /\ MinTileSize >= 1
  BY SizesAssumption DEF Rect, CanSubdivide
<1>2. /\ a \in Nat /\ 2 * a <= r.w /\ r.w <= 2 * a + 1
      /\ b \in Nat /\ 2 * b <= r.h /\ r.h <= 2 * b + 1
  BY <1>1, HalfFacts
<1> HIDE DEF a, b
<1>3. /\ a >= MinTileSize /\ r.w - a >= MinTileSize
      /\ b >= MinTileSize /\ r.h - b >= MinTileSize
      /\ r.w - a \in Nat /\ r.h - b \in Nat
      /\ r.x + a \in Nat /\ r.y + b \in Nat
  BY <1>1, <1>2
<1>4. Quadrants(r) = << Region(r.x, r.y, a, b),
                        Region(r.x + a, r.y, r.w - a, b),
                        Region(r.x, r.y + b, a, r.h - b),
                        Region(r.x + a, r.y + b, r.w - a, r.h - b) >>
  BY DEF Quadrants, a, b
<1>5. /\ Region(r.x, r.y, a, b) \in Rect
      /\ Region(r.x + a, r.y, r.w - a, b) \in Rect
      /\ Region(r.x, r.y + b, a, r.h - b) \in Rect
      /\ Region(r.x + a, r.y + b, r.w - a, r.h - b) \in Rect
  BY <1>1, <1>2, <1>3 DEF Rect, Region
<1>6. \A q \in 1 .. 4 : /\ Quadrants(r)[q] \in Rect
                        /\ Quadrants(r)[q].w >= MinTileSize
                        /\ Quadrants(r)[q].h >= MinTileSize
  BY <1>3, <1>4, <1>5 DEF Region
<1> QED
  BY <1>4, <1>5, <1>6

(* The stack after a split: the quadrants, and then the rest.              *)
LEMMA SplitStack ==
    ASSUME NEW s \in Seq(Rect), s # << >>, NEW q \in Seq(Rect), Len(q) = 4
    PROVE  /\ q \o Tail(s) \in Seq(Rect)
           /\ DOMAIN (q \o Tail(s)) = 1 .. Len(s) + 3
           /\ \A i \in 1 .. 4 : (q \o Tail(s))[i] = q[i]
           /\ \A i \in 5 .. Len(s) + 3 : (q \o Tail(s))[i] = s[i - 3]
<1> DEFINE rest == Tail(s)
<1>1. /\ rest \in Seq(Rect) /\ Len(rest) = Len(s) - 1
      /\ Len(s) \in Nat /\ Len(s) >= 1
      /\ \A i \in 1 .. Len(s) - 1 : rest[i] = s[i + 1]
  OBVIOUS
<1> HIDE DEF rest
<1>2. /\ q \o rest \in Seq(Rect)
      /\ Len(q \o rest) = Len(q) + Len(rest)
      /\ \A i \in 1 .. Len(q) + Len(rest) :
            (q \o rest)[i] = IF i <= Len(q) THEN q[i] ELSE rest[i - Len(q)]
  BY <1>1, ConcatProperties, Zenon
<1> DEFINE whole == q \o rest
<1>3. /\ whole \in Seq(Rect) /\ Len(whole) = Len(s) + 3
      /\ \A i \in 1 .. Len(s) + 3 :
            whole[i] = IF i <= 4 THEN q[i] ELSE rest[i - 4]
  BY <1>1, <1>2
<1> HIDE DEF whole
<1>4. DOMAIN whole = 1 .. Len(s) + 3
  BY <1>3
<1>5. \A i \in 1 .. 4 : whole[i] = q[i]
  BY <1>1, <1>3
<1>6. ASSUME NEW i \in 5 .. Len(s) + 3 PROVE whole[i] = s[i - 3]
  <2>1. /\ i - 4 \in 1 .. Len(s) - 1 /\ (i - 4) + 1 = i - 3
        /\ i \in 1 .. Len(s) + 3 /\ ~ (i <= 4)
    BY <1>1
  <2>2. whole[i] = rest[i - 4]
    BY <1>3, <2>1
  <2>3. rest[i - 4] = s[(i - 4) + 1]
    BY <1>1, <2>1
  <2> QED
    BY <2>1, <2>2, <2>3
<1> QED
  BY <1>3, <1>4, <1>5, <1>6 DEF rest, whole

(* The stack after a tile.                                                 *)
LEMMA PopStack ==
    ASSUME NEW s \in Seq(Rect), s # << >>
    PROVE  /\ Tail(s) \in Seq(Rect)
           /\ DOMAIN Tail(s) = 1 .. Len(s) - 1
           /\ \A i \in 1 .. Len(s) - 1 : Tail(s)[i] = s[i + 1]
           /\ Head(s) = s[1] /\ Head(s) \in Rect
           /\ DOMAIN s = 1 .. Len(s) /\ Len(s) \in Nat /\ Len(s) >= 1
OBVIOUS

-----------------------------------------------------------------------------
LEMMA TilesInitTypeOK == TilesInit => TilesTypeOK
<1> SUFFICES ASSUME TilesInit PROVE TilesTypeOK
  OBVIOUS
<1>1. image[1] \in Nat \ {0} /\ image[2] \in Nat \ {0}
  BY SizesAssumption DEF TilesInit
<1>2. WholeImage \in Rect
  BY <1>1 DEF WholeImage, Region, Rect
<1> QED
  BY <1>2, SizesAssumption DEF TilesInit, TilesTypeOK, NoStats

LEMMA TilesNextTypeOK ==
    TilesTypeOK /\ [TilesNext]_tileVars => TilesTypeOK'
<1> SUFFICES ASSUME TilesTypeOK, [TilesNext]_tileVars PROVE TilesTypeOK'
  OBVIOUS
<1>1. CASE Subdivide
  <2>1. Head(pending) \in Rect /\ CanSubdivide(Head(pending))
    BY <1>1, PopStack DEF TilesTypeOK, Subdivide, Splits
  <2>2. pending' \in Seq(Rect)
    BY <1>1, <2>1, QuadrantsAreRects, SplitStack DEF TilesTypeOK, Subdivide
  <2> QED
    BY <1>1, <2>2 DEF TilesTypeOK, Subdivide
<1>2. CASE RenderTile
  <2>1. Head(pending) \in Rect /\ pending' \in Seq(Rect)
    BY <1>2, PopStack DEF TilesTypeOK, RenderTile
  <2>2. Larger(Head(pending).w, Head(pending).h) \in Nat
    BY <2>1 DEF Rect, Larger
  <2>3. stats' \in [min : Nat, max : Nat, total : Nat, subdivisions : Nat]
    <3> DEFINE side == Larger(Head(pending).w, Head(pending).h)
    <3>1. side \in Nat /\ stats.min \in Nat /\ stats.max \in Nat
          /\ stats.total \in Nat
      BY <2>2 DEF TilesTypeOK
    <3>2. stats' = [stats EXCEPT !.total = stats.total + 1,
                                 !.min = Smaller(stats.min, side),
                                 !.max = Larger(stats.max, side)]
      BY <1>2 DEF RenderTile, Counted
    <3> HIDE DEF side
    <3>3. /\ Smaller(stats.min, side) \in Nat /\ Larger(stats.max, side) \in Nat
          /\ stats.total + 1 \in Nat
      BY <3>1 DEF Smaller, Larger
    <3> QED
      BY <3>2, <3>3 DEF TilesTypeOK
  <2> QED
    BY <1>2, <2>1, <2>3 DEF TilesTypeOK, RenderTile
<1>3. CASE UNCHANGED tileVars
  BY <1>3 DEF TilesTypeOK, tileVars
<1> QED
  BY <1>1, <1>2, <1>3 DEF TilesNext

(* Type correctness of the recursion: no region ever has an empty side, so *)
(* no dispatch of renderTileRegion is empty, and no offset is negative.    *)
THEOREM TilesTypeCorrect == TilesSpec => []TilesTypeOK
<1>1. TilesInit => TilesTypeOK
  BY TilesInitTypeOK
<1>2. TilesTypeOK /\ [TilesNext]_tileVars => TilesTypeOK'
  BY TilesNextTypeOK
<1> QED
  BY <1>1, <1>2, PTL DEF TilesSpec

-----------------------------------------------------------------------------
(* The two steps, as changes of the regions there are.                     *)

LEMMA SubdivideFacts ==
    ASSUME TilesTypeOK, Subdivide
    PROVE  LET h == Head(pending)
           IN  /\ h \in Rect /\ CanSubdivide(h) /\ h = pending[1]
               /\ 1 \in DOMAIN pending
               /\ image' = image /\ tiles' = tiles
               /\ DOMAIN pending = 1 .. Len(pending) /\ Len(pending) \in Nat
               /\ Len(pending') = Len(pending) + 3
               /\ DOMAIN pending' = 1 .. Len(pending) + 3
               /\ \A i \in 1 .. 4 : pending'[i] = Quadrants(h)[i]
               /\ \A i \in 5 .. Len(pending) + 3 : pending'[i] = pending[i - 3]
<1> DEFINE h == Head(pending)
<1>1. /\ pending \in Seq(Rect) /\ pending # << >>
      /\ h \in Rect /\ CanSubdivide(h) /\ h = pending[1]
      /\ DOMAIN pending = 1 .. Len(pending) /\ Len(pending) \in Nat
      /\ Len(pending) >= 1
  BY PopStack DEF TilesTypeOK, Subdivide, Splits
<1>2. pending' = Quadrants(h) \o Tail(pending)
  BY DEF Subdivide
<1>3. Quadrants(h) \in Seq(Rect) /\ Len(Quadrants(h)) = 4
  BY <1>1, QuadrantsAreRects
<1> HIDE DEF h
<1>4. /\ pending' \in Seq(Rect)
      /\ DOMAIN pending' = 1 .. Len(pending) + 3
      /\ \A i \in 1 .. 4 : pending'[i] = Quadrants(h)[i]
      /\ \A i \in 5 .. Len(pending) + 3 : pending'[i] = pending[i - 3]
  BY <1>1, <1>2, <1>3, SplitStack
<1>5. Len(pending') = Len(pending) + 3
  BY <1>1, <1>4
<1> QED
  BY <1>1, <1>4, <1>5 DEF Subdivide, h

LEMMA RenderTileFacts ==
    ASSUME TilesTypeOK, RenderTile
    PROVE  LET h == Head(pending)
           IN  /\ h \in Rect /\ h = pending[1] /\ 1 \in DOMAIN pending
               /\ image' = image /\ tiles' = tiles \cup {h}
               /\ DOMAIN pending = 1 .. Len(pending) /\ Len(pending) \in Nat
               /\ Len(pending') = Len(pending) - 1
               /\ DOMAIN pending' = 1 .. Len(pending) - 1
               /\ \A i \in 1 .. Len(pending) - 1 : pending'[i] = pending[i + 1]
<1>1. pending \in Seq(Rect) /\ pending # << >> /\ pending' = Tail(pending)
  BY DEF TilesTypeOK, RenderTile
<1>2. Len(Tail(pending)) = Len(pending) - 1
  BY <1>1
<1> QED
  BY <1>1, <1>2, PopStack DEF RenderTile

(* What holds of every region and of every quadrant of one that is split   *)
(* holds of every region after a step.                                     *)
LEMMA RegionsAfterSubdivide ==
    ASSUME TilesTypeOK, Subdivide, NEW r \in Regions'
    PROVE  r \in Regions \/ \E q \in 1 .. 4 : r = Quadrants(Head(pending))[q]
<1>1. CASE r \in tiles'
  BY <1>1, SubdivideFacts DEF Regions
<1>2. ASSUME NEW i \in DOMAIN pending', r = pending'[i]
      PROVE  r \in Regions \/ \E q \in 1 .. 4 : r = Quadrants(Head(pending))[q]
  <2>1. CASE i \in 1 .. 4
    BY <1>2, <2>1, SubdivideFacts
  <2>2. CASE i \notin 1 .. 4
    <3>1. i \in 5 .. Len(pending) + 3 /\ i - 3 \in DOMAIN pending
      BY <2>2, SubdivideFacts
    <3>2. r = pending[i - 3]
      BY <1>2, <3>1, SubdivideFacts
    <3> QED
      BY <3>1, <3>2 DEF Regions
  <2> QED
    BY <2>1, <2>2
<1> QED
  BY <1>1, <1>2 DEF Regions

LEMMA RegionsAfterRenderTile ==
    ASSUME TilesTypeOK, RenderTile
    PROVE  Regions' = Regions
<1>1. ASSUME NEW r \in Regions' PROVE r \in Regions
  <2>1. CASE r \in tiles'
    BY <2>1, RenderTileFacts DEF Regions
  <2>2. ASSUME NEW i \in DOMAIN pending', r = pending'[i] PROVE r \in Regions
    <3>1. i + 1 \in DOMAIN pending /\ r = pending[i + 1]
      BY <2>2, RenderTileFacts
    <3> QED
      BY <3>1 DEF Regions
  <2> QED
    BY <2>1, <2>2 DEF Regions
<1>2. ASSUME NEW r \in Regions PROVE r \in Regions'
  <2>1. CASE r \in tiles
    BY <2>1, RenderTileFacts DEF Regions
  <2>2. ASSUME NEW i \in DOMAIN pending, r = pending[i] PROVE r \in Regions'
    <3>1. CASE i = 1
      BY <2>2, <3>1, RenderTileFacts DEF Regions
    <3>2. CASE i # 1
      <4>1. i - 1 \in DOMAIN pending' /\ (i - 1) + 1 = i
        BY <3>2, RenderTileFacts
      <4>2. pending'[i - 1] = pending[i]
        BY <4>1, RenderTileFacts
      <4> QED
        BY <2>2, <4>1, <4>2 DEF Regions
    <3> QED
      BY <3>1, <3>2
  <2> QED
    BY <2>1, <2>2 DEF Regions
<1> QED
  BY <1>1, <1>2

LEMMA FirstRegion ==
    ASSUME TilesInit
    PROVE  tiles = {} /\ DOMAIN pending = {1} /\ pending[1] = WholeImage
           /\ Regions = {WholeImage} /\ Len(pending) = 1
BY DEF TilesInit, Regions

-----------------------------------------------------------------------------
(* No tile below the minimum.                                              *)

LEMMA MinimumInit == TilesInit => NoTileBelowMinimum
BY FirstRegion DEF NoTileBelowMinimum

LEMMA MinimumNext ==
    TilesTypeOK /\ NoTileBelowMinimum /\ [TilesNext]_tileVars
        => NoTileBelowMinimum'
<1> SUFFICES ASSUME TilesTypeOK, NoTileBelowMinimum, [TilesNext]_tileVars,
                    NEW r \in Regions', r # WholeImage'
             PROVE  r.w >= MinTileSize /\ r.h >= MinTileSize
  BY DEF NoTileBelowMinimum
<1>1. CASE Subdivide
  <2>1. WholeImage' = WholeImage
    BY <1>1, SubdivideFacts DEF WholeImage
  <2>2. CASE r \in Regions
    BY <2>1, <2>2 DEF NoTileBelowMinimum
  <2>3. CASE \E q \in 1 .. 4 : r = Quadrants(Head(pending))[q]
    BY <1>1, <2>3, SubdivideFacts, QuadrantsAreRects
  <2> QED
    BY <1>1, <2>2, <2>3, RegionsAfterSubdivide
<1>2. CASE RenderTile
  <2>1. WholeImage' = WholeImage
    BY <1>2, RenderTileFacts DEF WholeImage
  <2> QED
    BY <1>2, <2>1, RegionsAfterRenderTile DEF NoTileBelowMinimum
<1>3. CASE UNCHANGED tileVars
  BY <1>3 DEF tileVars, NoTileBelowMinimum, Regions, WholeImage
<1> QED
  BY <1>1, <1>2, <1>3 DEF TilesNext

(* A tile of a split image is never narrower or lower than MIN_TILE_SIZE,  *)
(* whatever the sizes: the promise of the comment in renderTileRecursive.  *)
THEOREM TilesAreNeverSmall == TilesSpec => []NoTileBelowMinimum
<1>1. TilesInit => TilesTypeOK /\ NoTileBelowMinimum
  BY TilesInitTypeOK, MinimumInit
<1>2. /\ TilesTypeOK /\ NoTileBelowMinimum
      /\ [TilesNext]_tileVars
      => (TilesTypeOK /\ NoTileBelowMinimum)'
  BY TilesNextTypeOK, MinimumNext
<1> QED
  BY <1>1, <1>2, PTL DEF TilesSpec

-----------------------------------------------------------------------------
(* The geometry of one split.                                              *)

Inside(a, r) ==
    /\ r.x <= a.x /\ a.x + a.w <= r.x + r.w
    /\ r.y <= a.y /\ a.y + a.h <= r.y + r.h

LEMMA QuadrantGeometry ==
    ASSUME NEW r \in Rect, CanSubdivide(r)
    PROVE  /\ \A q \in 1 .. 4 : Inside(Quadrants(r)[q], r)
           /\ \A p, q \in 1 .. 4 :
                p # q => Apart(Quadrants(r)[p], Quadrants(r)[q])
           /\ \A px, py \in Int : HasPixel(r, px, py) =>
                \E q \in 1 .. 4 : HasPixel(Quadrants(r)[q], px, py)
<1> DEFINE a == r.w \div 2
           b == r.h \div 2
<1>1. /\ r.x \in Nat /\ r.y \in Nat /\ r.w \in Nat /\ r.h \in Nat
      /\ a \in Nat /\ a <= r.w /\ b \in Nat /\ b <= r.h
  BY HalfFacts DEF Rect
<1>2. Quadrants(r) = << Region(r.x, r.y, a, b),
                        Region(r.x + a, r.y, r.w - a, b),
                        Region(r.x, r.y + b, a, r.h - b),
                        Region(r.x + a, r.y + b, r.w - a, r.h - b) >>
  BY DEF Quadrants
<1> HIDE DEF a, b
<1> DEFINE Q == Quadrants(r)
<1>3. /\ Q[1].x = r.x     /\ Q[1].y = r.y     /\ Q[1].w = a       /\ Q[1].h = b
      /\ Q[2].x = r.x + a /\ Q[2].y = r.y     /\ Q[2].w = r.w - a /\ Q[2].h = b
      /\ Q[3].x = r.x     /\ Q[3].y = r.y + b /\ Q[3].w = a
      /\ Q[3].h = r.h - b
      /\ Q[4].x = r.x + a /\ Q[4].y = r.y + b /\ Q[4].w = r.w - a
      /\ Q[4].h = r.h - b
  BY <1>2 DEF Region
<1> HIDE DEF Q
<1>4. \A q \in 1 .. 4 : q = 1 \/ q = 2 \/ q = 3 \/ q = 4
  OBVIOUS
<1>5. Inside(Q[1], r) /\ Inside(Q[2], r) /\ Inside(Q[3], r) /\ Inside(Q[4], r)
  BY <1>1, <1>3 DEF Inside
<1>6. /\ Apart(Q[1], Q[2]) /\ Apart(Q[2], Q[1]) /\ Apart(Q[1], Q[3])
      /\ Apart(Q[3], Q[1]) /\ Apart(Q[1], Q[4]) /\ Apart(Q[4], Q[1])
      /\ Apart(Q[2], Q[3]) /\ Apart(Q[3], Q[2]) /\ Apart(Q[2], Q[4])
      /\ Apart(Q[4], Q[2]) /\ Apart(Q[3], Q[4]) /\ Apart(Q[4], Q[3])
  BY <1>1, <1>3 DEF Apart
<1>7. ASSUME NEW px \in Int, NEW py \in Int, HasPixel(r, px, py)
      PROVE  \E q \in 1 .. 4 : HasPixel(Q[q], px, py)
  <2>1. CASE px < r.x + a /\ py < r.y + b
    <3>1. HasPixel(Q[1], px, py)
      BY <1>1, <1>3, <1>7, <2>1 DEF HasPixel
    <3> QED  BY <3>1
  <2>2. CASE px >= r.x + a /\ py < r.y + b
    <3>1. HasPixel(Q[2], px, py)
      BY <1>1, <1>3, <1>7, <2>2 DEF HasPixel
    <3> QED  BY <3>1
  <2>3. CASE px < r.x + a /\ py >= r.y + b
    <3>1. HasPixel(Q[3], px, py)
      BY <1>1, <1>3, <1>7, <2>3 DEF HasPixel
    <3> QED  BY <3>1
  <2>4. CASE px >= r.x + a /\ py >= r.y + b
    <3>1. HasPixel(Q[4], px, py)
      BY <1>1, <1>3, <1>7, <2>4 DEF HasPixel
    <3> QED  BY <3>1
  <2> QED
    BY <1>1, <2>1, <2>2, <2>3, <2>4
<1>8. \A q \in 1 .. 4 : Inside(Q[q], r)
  BY <1>4, <1>5
<1>9. \A p, q \in 1 .. 4 : p # q => Apart(Q[p], Q[q])
  BY <1>4, <1>6
<1> QED
  BY <1>7, <1>8, <1>9 DEF Q

LEMMA ApartIsSymmetric ==
    ASSUME NEW a, NEW b, Apart(a, b)
    PROVE  Apart(b, a)
BY DEF Apart

(* What is apart from a region is apart from all that lies in it.          *)
LEMMA ApartFromParts ==
    ASSUME NEW a \in Rect, NEW r \in Rect, NEW q \in Rect,
           Apart(a, r), Inside(q, r)
    PROVE  Apart(a, q) /\ Apart(q, a)
BY DEF Rect, Apart, Inside

-----------------------------------------------------------------------------
(* Regions never overlap.                                                  *)

LEMMA ApartAfterSubdivide ==
    ASSUME TilesTypeOK, RegionsAreApart, Subdivide
    PROVE  RegionsAreApart'
<1> DEFINE h == Head(pending)
           Q == Quadrants(h)
<1>1. h \in Rect /\ CanSubdivide(h) /\ h = pending[1] /\ 1 \in DOMAIN pending
  BY SubdivideFacts
<1>2. \A q \in 1 .. 4 : Q[q] \in Rect /\ Inside(Q[q], h)
  BY <1>1, QuadrantsAreRects, QuadrantGeometry
<1>3. \A i \in 1 .. 4 : i \in DOMAIN pending' /\ pending'[i] = Q[i]
  BY SubdivideFacts
<1>4. \A i \in DOMAIN pending' \ (1 .. 4) :
        /\ i - 3 \in DOMAIN pending /\ i - 3 # 1
        /\ pending'[i] = pending[i - 3]
  BY SubdivideFacts
<1>5. /\ tiles' = tiles /\ tiles \subseteq Rect
      /\ \A i \in DOMAIN pending : pending[i] \in Rect
  BY SubdivideFacts DEF TilesTypeOK
<1>6. DOMAIN pending' \subseteq Int
  BY SubdivideFacts
<1> HIDE DEF h, Q
<1>7. \A a, c \in tiles' : a # c => Apart(a, c)
  BY <1>5 DEF RegionsAreApart
<1>8. ASSUME NEW a \in tiles', NEW i \in DOMAIN pending'
      PROVE  Apart(a, pending'[i])
  <2>1. CASE i \in 1 .. 4
    <3>1. Apart(a, h)
      BY <1>1, <1>5 DEF RegionsAreApart
    <3> QED
      BY <1>1, <1>2, <1>3, <1>5, <2>1, <3>1, ApartFromParts
  <2>2. CASE i \notin 1 .. 4
    BY <1>4, <1>5, <2>2 DEF RegionsAreApart
  <2> QED
    BY <2>1, <2>2
<1>9. ASSUME NEW i \in 1 .. 4, NEW j \in DOMAIN pending' \ (1 .. 4)
      PROVE  Apart(pending'[i], pending'[j]) /\ Apart(pending'[j], pending'[i])
  <2>1. Apart(pending[j - 3], h)
    BY <1>1, <1>4 DEF RegionsAreApart
  <2> QED
    BY <1>1, <1>2, <1>3, <1>4, <1>5, <2>1, ApartFromParts
<1>10. ASSUME NEW i \in DOMAIN pending', NEW j \in DOMAIN pending', i # j
       PROVE  Apart(pending'[i], pending'[j])
  <2>1. CASE i \in 1 .. 4 /\ j \in 1 .. 4
    <3>1. Apart(Q[i], Q[j])
      BY <1>1, <1>10, <2>1, QuadrantGeometry DEF Q
    <3> QED
      BY <1>3, <2>1, <3>1
  <2>2. CASE i \in 1 .. 4 /\ j \notin 1 .. 4
    BY <1>9, <2>2
  <2>3. CASE i \notin 1 .. 4 /\ j \in 1 .. 4
    BY <1>9, <2>3
  <2>4. CASE i \notin 1 .. 4 /\ j \notin 1 .. 4
    <3>1. i - 3 # j - 3
      BY <1>6, <1>10
    <3> QED
      BY <1>4, <2>4, <3>1 DEF RegionsAreApart
  <2> QED
    BY <2>1, <2>2, <2>3, <2>4
<1> QED
  BY <1>7, <1>8, <1>10 DEF RegionsAreApart

LEMMA ApartAfterRenderTile ==
    ASSUME TilesTypeOK, RegionsAreApart, RenderTile
    PROVE  RegionsAreApart'
<1> DEFINE h == Head(pending)
<1>1. h = pending[1] /\ 1 \in DOMAIN pending /\ tiles' = tiles \cup {h}
  BY RenderTileFacts
<1>2. \A i \in DOMAIN pending' :
        /\ i + 1 \in DOMAIN pending /\ i + 1 # 1 /\ i \in Int
        /\ pending'[i] = pending[i + 1]
  BY RenderTileFacts
<1> HIDE DEF h
<1>3. ASSUME NEW a \in tiles', NEW c \in tiles', a # c PROVE Apart(a, c)
  <2>1. CASE a \in tiles /\ c \in tiles
    BY <1>3, <2>1 DEF RegionsAreApart
  <2>2. CASE a = h /\ c \in tiles
    BY <1>1, <2>2, ApartIsSymmetric DEF RegionsAreApart
  <2>3. CASE a \in tiles /\ c = h
    BY <1>1, <2>3 DEF RegionsAreApart
  <2> QED
    BY <1>1, <1>3, <2>1, <2>2, <2>3
<1>4. ASSUME NEW a \in tiles', NEW i \in DOMAIN pending'
      PROVE  Apart(a, pending'[i])
  BY <1>1, <1>2 DEF RegionsAreApart
<1>5. ASSUME NEW i \in DOMAIN pending', NEW j \in DOMAIN pending', i # j
      PROVE  Apart(pending'[i], pending'[j])
  <2>1. i + 1 # j + 1
    BY <1>2, <1>5
  <2> QED
    BY <1>2, <2>1 DEF RegionsAreApart
<1> QED
  BY <1>3, <1>4, <1>5 DEF RegionsAreApart

-----------------------------------------------------------------------------
(* Regions stay in the image.                                              *)

LEMMA InsideAfterSubdivide ==
    ASSUME TilesTypeOK, RegionsAreInside, Subdivide
    PROVE  RegionsAreInside'
<1> DEFINE h == Head(pending)
<1>1. /\ h \in Rect /\ CanSubdivide(h) /\ h \in Regions /\ image' = image
      /\ image[1] \in Nat /\ image[2] \in Nat
  BY SubdivideFacts, SizesAssumption DEF Regions, TilesTypeOK
<1>2. h.x + h.w <= image[1] /\ h.y + h.h <= image[2]
  BY <1>1 DEF RegionsAreInside
<1> HIDE DEF h
<1>3. ASSUME NEW r \in Regions'
      PROVE  r.x + r.w <= image'[1] /\ r.y + r.h <= image'[2]
  <2>1. CASE r \in Regions
    BY <1>1, <2>1 DEF RegionsAreInside
  <2>2. ASSUME NEW q \in 1 .. 4, r = Quadrants(h)[q]
        PROVE  r.x + r.w <= image'[1] /\ r.y + r.h <= image'[2]
    <3>1. r \in Rect /\ Inside(r, h)
      BY <1>1, <2>2, QuadrantsAreRects, QuadrantGeometry
    <3> QED
      BY <1>1, <1>2, <3>1 DEF Inside, Rect
  <2> QED
    BY <2>1, <2>2, RegionsAfterSubdivide DEF h
<1> QED
  BY <1>3 DEF RegionsAreInside

-----------------------------------------------------------------------------
(* No pixel gets lost.                                                     *)

LEMMA PixelsInit == TilesInit => NoPixelIsMissing
<1> SUFFICES ASSUME TilesInit,
                    NEW px \in 0 .. image[1] - 1, NEW py \in 0 .. image[2] - 1
             PROVE  \E r \in Regions : HasPixel(r, px, py)
  BY DEF NoPixelIsMissing
<1>1. image[1] \in Nat /\ image[2] \in Nat
  BY SizesAssumption DEF TilesInit
<1>2. HasPixel(WholeImage, px, py)
  BY <1>1 DEF HasPixel, WholeImage, Region
<1> QED
  BY <1>2, FirstRegion

LEMMA PixelsAfterSubdivide ==
    ASSUME TilesTypeOK, NoPixelIsMissing, Subdivide
    PROVE  NoPixelIsMissing'
<1> DEFINE h == Head(pending)
<1>1. /\ h \in Rect /\ CanSubdivide(h) /\ h = pending[1]
      /\ image' = image /\ tiles' = tiles
      /\ image[1] \in Nat /\ image[2] \in Nat
  BY SubdivideFacts, SizesAssumption DEF TilesTypeOK
<1>2. \A q \in 1 .. 4 : Quadrants(h)[q] \in Regions'
  BY SubdivideFacts DEF Regions
<1>3. ASSUME NEW r \in Regions, r # h PROVE r \in Regions'
  <2>1. CASE r \in tiles
    BY <1>1, <2>1 DEF Regions
  <2>2. ASSUME NEW i \in DOMAIN pending, r = pending[i] PROVE r \in Regions'
    <3>1. i # 1
      BY <1>1, <1>3, <2>2
    <3>2. i + 3 \in 5 .. Len(pending) + 3 /\ (i + 3) - 3 = i
      BY <3>1, SubdivideFacts
    <3>3. i + 3 \in DOMAIN pending' /\ pending'[i + 3] = pending[i]
      BY <3>2, SubdivideFacts
    <3> QED
      BY <2>2, <3>3 DEF Regions
  <2> QED
    BY <2>1, <2>2 DEF Regions
<1> HIDE DEF h
<1>4. ASSUME NEW px \in 0 .. image[1] - 1, NEW py \in 0 .. image[2] - 1
      PROVE  \E r \in Regions' : HasPixel(r, px, py)
  <2>1. PICK r \in Regions : HasPixel(r, px, py)
    BY DEF NoPixelIsMissing
  <2>2. CASE r = h
    <3>1. px \in Int /\ py \in Int
      BY <1>1
    <3>2. PICK q \in 1 .. 4 : HasPixel(Quadrants(h)[q], px, py)
      BY <1>1, <2>1, <2>2, <3>1, QuadrantGeometry
    <3> QED
      BY <1>2, <3>2
  <2>3. CASE r # h
    BY <1>3, <2>1, <2>3
  <2> QED
    BY <2>2, <2>3
<1> QED
  BY <1>1, <1>4 DEF NoPixelIsMissing

LEMMA CoverAfterRenderTile ==
    ASSUME TilesTypeOK, RegionsAreInside, NoPixelIsMissing, RenderTile
    PROVE  RegionsAreInside' /\ NoPixelIsMissing'
<1>1. Regions' = Regions /\ image' = image
  BY RegionsAfterRenderTile, RenderTileFacts
<1> QED
  BY <1>1 DEF RegionsAreInside, NoPixelIsMissing

LEMMA CoverInit == TilesInit => TilesCoverOnce
<1> SUFFICES ASSUME TilesInit PROVE TilesCoverOnce
  OBVIOUS
<1>1. image[1] \in Nat /\ image[2] \in Nat
  BY SizesAssumption DEF TilesInit
<1>2. RegionsAreApart
  BY FirstRegion DEF RegionsAreApart
<1>3. RegionsAreInside
  BY <1>1, FirstRegion DEF RegionsAreInside, WholeImage, Region
<1> QED
  BY <1>2, <1>3, PixelsInit DEF TilesCoverOnce

LEMMA CoverNext ==
    TilesTypeOK /\ TilesCoverOnce /\ [TilesNext]_tileVars => TilesCoverOnce'
<1> SUFFICES ASSUME TilesTypeOK, TilesCoverOnce, [TilesNext]_tileVars
             PROVE  TilesCoverOnce'
  OBVIOUS
<1>1. CASE Subdivide
  BY <1>1, ApartAfterSubdivide, InsideAfterSubdivide, PixelsAfterSubdivide
     DEF TilesCoverOnce
<1>2. CASE RenderTile
  BY <1>2, ApartAfterRenderTile, CoverAfterRenderTile DEF TilesCoverOnce
<1>3. CASE UNCHANGED tileVars
  BY <1>3 DEF tileVars, TilesCoverOnce, RegionsAreApart, RegionsAreInside,
              NoPixelIsMissing, Regions
<1> QED
  BY <1>1, <1>2, <1>3 DEF TilesNext

(* Whatever the size of the image and the limits: no pixel is traced       *)
(* twice, none is left out, and no dispatch reaches beyond the image.      *)
THEOREM TilesCoverTheImageOnce == TilesSpec => []TilesCoverOnce
<1>1. TilesInit => TilesTypeOK /\ TilesCoverOnce
  BY TilesInitTypeOK, CoverInit
<1>2. /\ TilesTypeOK /\ TilesCoverOnce
      /\ [TilesNext]_tileVars
      => (TilesTypeOK /\ TilesCoverOnce)'
  BY TilesNextTypeOK, CoverNext
<1> QED
  BY <1>1, <1>2, PTL DEF TilesSpec

-----------------------------------------------------------------------------
(* Oversize tiles.  After k splits a side is the image's over 2^k, rounded *)
(* up or down at each; ScaledBy says that without the power: its factor    *)
(* doubles with each split.                                                *)

ScaledBy(r, K) ==
    /\ (r.w - 1) * K < image[1] /\ image[1] < (r.w + 1) * K
    /\ (r.h - 1) * K < image[2] /\ image[2] < (r.h + 1) * K

ScaleInv ==
    /\ \A r \in Regions : \E K \in Nat \ {0} : ScaledBy(r, K)
    /\ \A r \in tiles : ~ Splits(r)

LEMMA TimesIsMonotone ==
    ASSUME NEW a \in Int, NEW b \in Int, NEW k \in Nat, a <= b
    PROVE  a * k <= b * k
OBVIOUS

(* Halving one side, seen from the image's.                                *)
LEMMA HalfOfScaled ==
    ASSUME NEW n \in Nat, NEW side \in Nat, NEW K \in Nat \ {0}, NEW m \in Nat,
           (n - 1) * K < side, side < (n + 1) * K,
           2 * m <= n + 1, n <= 2 * m + 1
    PROVE  (m - 1) * (2 * K) < side /\ side < (m + 1) * (2 * K)
<1>1. (2 * (m - 1)) * K <= (n - 1) * K
  <2>1. 2 * (m - 1) \in Int /\ n - 1 \in Int /\ 2 * (m - 1) <= n - 1
    OBVIOUS
  <2> QED
    BY <2>1, TimesIsMonotone
<1>2. (n + 1) * K <= (2 * (m + 1)) * K
  <2>1. 2 * (m + 1) \in Int /\ n + 1 \in Int /\ n + 1 <= 2 * (m + 1)
    OBVIOUS
  <2> QED
    BY <2>1, TimesIsMonotone
<1>3. /\ (m - 1) * (2 * K) = (2 * (m - 1)) * K
      /\ (m + 1) * (2 * K) = (2 * (m + 1)) * K
  OBVIOUS
<1>4. /\ (n - 1) * K \in Int /\ (n + 1) * K \in Int
      /\ (2 * (m - 1)) * K \in Int /\ (2 * (m + 1)) * K \in Int
  OBVIOUS
<1> QED
  BY <1>1, <1>2, <1>3, <1>4

LEMMA QuadrantSides ==
    ASSUME NEW r \in Rect, CanSubdivide(r), NEW q \in 1 .. 4
    PROVE  LET c == Quadrants(r)[q]
           IN  /\ c.w \in Nat /\ 2 * c.w <= r.w + 1 /\ r.w <= 2 * c.w + 1
               /\ c.h \in Nat /\ 2 * c.h <= r.h + 1 /\ r.h <= 2 * c.h + 1
<1> DEFINE a == r.w \div 2
           b == r.h \div 2
<1>1. /\ r.w \in Nat /\ a \in Nat /\ 2 * a <= r.w /\ r.w <= 2 * a + 1
      /\ r.h \in Nat /\ b \in Nat /\ 2 * b <= r.h /\ r.h <= 2 * b + 1
  BY HalfFacts DEF Rect
<1>2. Quadrants(r) = << Region(r.x, r.y, a, b),
                        Region(r.x + a, r.y, r.w - a, b),
                        Region(r.x, r.y + b, a, r.h - b),
                        Region(r.x + a, r.y + b, r.w - a, r.h - b) >>
  BY DEF Quadrants
<1> HIDE DEF a, b
<1>3. /\ Quadrants(r)[q].w = a \/ Quadrants(r)[q].w = r.w - a
      /\ Quadrants(r)[q].h = b \/ Quadrants(r)[q].h = r.h - b
  BY <1>2 DEF Region
<1> QED
  BY <1>1, <1>3

LEMMA ScaleInit == TilesInit => ScaleInv
<1> SUFFICES ASSUME TilesInit PROVE ScaleInv
  OBVIOUS
<1>1. image[1] \in Nat /\ image[2] \in Nat
  BY SizesAssumption DEF TilesInit
<1>2. ScaledBy(WholeImage, 1)
  BY <1>1 DEF ScaledBy, WholeImage, Region
<1> QED
  BY <1>2, FirstRegion DEF ScaleInv

LEMMA ScaleNext ==
    TilesTypeOK /\ ScaleInv /\ [TilesNext]_tileVars => ScaleInv'
<1> SUFFICES ASSUME TilesTypeOK, ScaleInv, [TilesNext]_tileVars PROVE ScaleInv'
  OBVIOUS
<1>1. CASE Subdivide
  <2> DEFINE h == Head(pending)
  <2>1. /\ h \in Rect /\ CanSubdivide(h) /\ h \in Regions
        /\ image' = image /\ tiles' = tiles
        /\ image[1] \in Nat /\ image[2] \in Nat
    BY <1>1, SubdivideFacts, SizesAssumption DEF Regions, TilesTypeOK
  <2>2. PICK K \in Nat \ {0} : ScaledBy(h, K)
    BY <2>1 DEF ScaleInv
  <2> HIDE DEF h
  <2>3. ASSUME NEW q \in 1 .. 4 PROVE ScaledBy(Quadrants(h)[q], 2 * K)
    <3> DEFINE c == Quadrants(h)[q]
    <3>1. /\ c.w \in Nat /\ 2 * c.w <= h.w + 1 /\ h.w <= 2 * c.w + 1
          /\ c.h \in Nat /\ 2 * c.h <= h.h + 1 /\ h.h <= 2 * c.h + 1
          /\ h.w \in Nat /\ h.h \in Nat
      BY <2>1, QuadrantSides DEF Rect
    <3>2. /\ (h.w - 1) * K < image[1] /\ image[1] < (h.w + 1) * K
          /\ (h.h - 1) * K < image[2] /\ image[2] < (h.h + 1) * K
      BY <2>2 DEF ScaledBy
    <3> HIDE DEF c
    <3>3. (c.w - 1) * (2 * K) < image[1] /\ image[1] < (c.w + 1) * (2 * K)
      BY <2>1, <3>1, <3>2, HalfOfScaled
    <3>4. (c.h - 1) * (2 * K) < image[2] /\ image[2] < (c.h + 1) * (2 * K)
      BY <2>1, <3>1, <3>2, HalfOfScaled
    <3> QED
      BY <3>3, <3>4 DEF ScaledBy, c
  <2>4. ASSUME NEW r \in Regions' PROVE \E k \in Nat \ {0} : ScaledBy(r, k)'
    <3>1. CASE r \in Regions
      BY <2>1, <3>1 DEF ScaleInv, ScaledBy
    <3>2. ASSUME NEW q \in 1 .. 4, r = Quadrants(h)[q]
          PROVE  \E k \in Nat \ {0} : ScaledBy(r, k)'
      <4>1. 2 * K \in Nat \ {0}
        OBVIOUS
      <4>2. ScaledBy(r, 2 * K)'
        BY <2>1, <2>3, <3>2 DEF ScaledBy
      <4> QED
        BY <4>1, <4>2
    <3> QED
      BY <1>1, <3>1, <3>2, RegionsAfterSubdivide DEF h
  <2>5. \A r \in tiles' : ~ Splits(r)'
    BY <2>1 DEF ScaleInv
  <2> QED
    BY <2>4, <2>5 DEF ScaleInv
<1>2. CASE RenderTile
  <2>1. Regions' = Regions /\ image' = image /\ tiles' = tiles \cup {Head(pending)}
    BY <1>2, RegionsAfterRenderTile, RenderTileFacts
  <2>2. \A r \in tiles' : ~ Splits(r)
    BY <1>2, <2>1 DEF ScaleInv, RenderTile
  <2> QED
    BY <2>1, <2>2 DEF ScaleInv, ScaledBy
<1>3. CASE UNCHANGED tileVars
  BY <1>3 DEF tileVars, ScaleInv, ScaledBy, Regions
<1> QED
  BY <1>1, <1>2, <1>3 DEF TilesNext

(* One side is above the maximum and the other below twice the minimum.    *)
LEMMA ThinSides ==
    ASSUME NEW W \in Nat, NEW H \in Nat, NEW w \in Nat, NEW h \in Nat,
           NEW K \in Nat \ {0},
           (w - 1) * K < W, H < (h + 1) * K,
           w > MaxTileSize, h < 2 * MinTileSize
    PROVE  W * 2 * MinTileSize > H * MaxTileSize
<1> DEFINE M == MaxTileSize
           T == 2 * MinTileSize
<1>1. M \in Nat /\ T \in Nat /\ T > 0 /\ M > 0 /\ K \in Nat
  BY SizesAssumption
<1> HIDE DEF M, T
<1>2. M <= w - 1 /\ h + 1 <= T
  BY <1>1, SizesAssumption DEF M, T
<1>3. M * K <= (w - 1) * K /\ (h + 1) * K <= T * K
  BY <1>1, <1>2, TimesIsMonotone
<1>4. /\ M * K \in Nat /\ T * K \in Nat /\ (w - 1) * K \in Int
      /\ (h + 1) * K \in Int
  BY <1>1
<1>5. M * K + 1 <= W /\ H <= T * K
  BY <1>3, <1>4
<1>6. (M * K + 1) * T <= W * T /\ H * M <= (T * K) * M
  BY <1>1, <1>4, <1>5, TimesIsMonotone
<1>7. (M * K + 1) * T = (T * K) * M + T
  BY <1>1
<1>8. (T * K) * M \in Nat /\ W * T \in Nat /\ H * M \in Nat
  BY <1>1, <1>4
<1>9. W * T > H * M
  BY <1>1, <1>6, <1>7, <1>8
<1> QED
  BY <1>9, SizesAssumption DEF M, T

LEMMA ScaleMeansThin ==
    TilesTypeOK /\ ScaleInv => OversizeMeansThinImage
<1> SUFFICES ASSUME TilesTypeOK, ScaleInv, NEW r \in tiles, NeedsSubdivision(r)
             PROVE  \/ image[1] * 2 * MinTileSize > image[2] * MaxTileSize
                    \/ image[2] * 2 * MinTileSize > image[1] * MaxTileSize
  BY DEF OversizeMeansThinImage
<1>1. /\ r.w \in Nat /\ r.h \in Nat /\ image[1] \in Nat /\ image[2] \in Nat
  BY SizesAssumption DEF TilesTypeOK, Rect
<1>2. PICK K \in Nat \ {0} : ScaledBy(r, K)
  BY DEF ScaleInv, Regions
<1>3. ~ CanSubdivide(r)
  BY DEF ScaleInv, Splits
<1>4. CASE r.w > MaxTileSize /\ r.h < 2 * MinTileSize
  BY <1>1, <1>2, <1>4, ThinSides DEF ScaledBy
<1>5. CASE r.h > MaxTileSize /\ r.w < 2 * MinTileSize
  BY <1>1, <1>2, <1>5, ThinSides DEF ScaledBy
<1> QED
  BY <1>1, <1>3, <1>4, <1>5, SizesAssumption DEF NeedsSubdivision, CanSubdivide

(* For every image and all limits: a tile exceeds the maximum only where *)
(* the image is so thin that the splitting stopped at its short side.      *)
THEOREM OversizeNeedsThinImage == TilesSpec => []OversizeMeansThinImage
<1>1. TilesInit => TilesTypeOK /\ ScaleInv
  BY TilesInitTypeOK, ScaleInit
<1>2. TilesTypeOK /\ ScaleInv /\ [TilesNext]_tileVars => (TilesTypeOK /\ ScaleInv)'
  BY TilesNextTypeOK, ScaleNext
<1>3. TilesTypeOK /\ ScaleInv => OversizeMeansThinImage
  BY ScaleMeansThin
<1> QED
  BY <1>1, <1>2, <1>3, PTL DEF TilesSpec

-----------------------------------------------------------------------------
(* The statistics.  Before the first tile the extremes are those that any  *)
(* tile replaces; a traced tile is never one of the earlier ones, because  *)
(* it would overlap itself.                                                *)

StatsInv ==
    /\ IsFiniteSet(tiles)
    /\ StatsDescribeTiles
    /\ tiles = {} => stats.min = NoTile /\ stats.max = 0

LEMMA StatsInit == TilesInit => StatsInv
<1> SUFFICES ASSUME TilesInit PROVE StatsInv
  OBVIOUS
<1>1. /\ tiles = {} /\ stats.min = NoTile /\ stats.max = 0
      /\ stats.total = 0 /\ stats.subdivisions = 0 /\ Len(pending) = 1
  BY DEF TilesInit, NoStats
<1>2. IsFiniteSet(tiles) /\ Cardinality(tiles) = 0
  BY <1>1, FS_EmptySet
<1> QED
  BY <1>1, <1>2 DEF StatsInv, StatsDescribeTiles

(* The tile traced next is a new one, and its side is below NoTile.        *)
LEMMA NextTile ==
    ASSUME TilesTypeOK, TilesCoverOnce, RenderTile
    PROVE  LET h == Head(pending)
               side == Larger(h.w, h.h)
           IN  h \notin tiles /\ side \in Nat /\ 0 < side /\ side < NoTile
<1> DEFINE h == Head(pending)
<1>1. /\ h \in Rect /\ h = pending[1] /\ 1 \in DOMAIN pending
  BY RenderTileFacts
<1>2. /\ h.x \in Nat /\ h.y \in Nat /\ h.w \in Nat \ {0} /\ h.h \in Nat \ {0}
  BY <1>1 DEF Rect
<1>3. ~ Apart(h, h)
  BY <1>2 DEF Apart
<1>4. \A t \in tiles : Apart(t, h)
  BY <1>1 DEF TilesCoverOnce, RegionsAreApart
<1>5. h \notin tiles
  BY <1>3, <1>4
<1>6. h.x + h.w <= image[1] /\ h.y + h.h <= image[2]
  BY <1>1 DEF TilesCoverOnce, RegionsAreInside, Regions
<1>7. /\ image[1] \in Nat /\ image[2] \in Nat /\ NoTile \in Nat
      /\ image[1] < NoTile /\ image[2] < NoTile
  BY SizesAssumption DEF TilesTypeOK
<1> HIDE DEF h
<1>8. h.w < NoTile /\ h.h < NoTile
  BY <1>2, <1>6, <1>7
<1>9. /\ Larger(h.w, h.h) \in Nat
      /\ 0 < Larger(h.w, h.h) /\ Larger(h.w, h.h) < NoTile
  BY <1>2, <1>7, <1>8 DEF Larger
<1> QED
  BY <1>5, <1>9 DEF h

LEMMA StatsNext ==
    TilesTypeOK /\ TilesCoverOnce /\ StatsInv /\ [TilesNext]_tileVars => StatsInv'
<1> SUFFICES ASSUME TilesTypeOK, TilesCoverOnce, StatsInv, [TilesNext]_tileVars
             PROVE  StatsInv'
  OBVIOUS
<1>1. CASE Subdivide
  <2>1. /\ tiles' = tiles /\ Len(pending) \in Nat
        /\ Len(pending') = Len(pending) + 3
    BY <1>1, SubdivideFacts
  <2>2. /\ stats'.min = stats.min /\ stats'.max = stats.max
        /\ stats'.total = stats.total
        /\ stats'.subdivisions = stats.subdivisions + 1
        /\ stats.total \in Nat /\ stats.subdivisions \in Nat
    BY <1>1 DEF Subdivide, TilesTypeOK
  <2>3. stats'.total + Len(pending') = 1 + 3 * stats'.subdivisions
    BY <2>1, <2>2 DEF StatsInv, StatsDescribeTiles
  <2> QED
    BY <2>1, <2>2, <2>3 DEF StatsInv, StatsDescribeTiles
<1>2. CASE RenderTile
  <2> DEFINE h == Head(pending)
             side == Larger(h.w, h.h)
  <2>1. /\ h \notin tiles /\ side \in Nat /\ 0 < side /\ side < NoTile
    BY <1>2, NextTile
  <2>2. tiles' = tiles \cup {h}
    BY <1>2 DEF RenderTile
  <2>3. /\ stats.total \in Nat /\ stats.subdivisions \in Nat
        /\ stats.min \in Nat /\ stats.max \in Nat
        /\ Len(pending) \in Nat /\ Len(pending') = Len(pending) - 1
    BY <1>2, RenderTileFacts DEF TilesTypeOK
  <2>4. /\ stats'.min = Smaller(stats.min, side)
        /\ stats'.max = Larger(stats.max, side)
        /\ stats'.total = stats.total + 1
        /\ stats'.subdivisions = stats.subdivisions
    BY <1>2 DEF RenderTile, Counted, TilesTypeOK
  <2> HIDE DEF h
  <2>5. IsFiniteSet(tiles') /\ Cardinality(tiles') = Cardinality(tiles) + 1
    BY <2>1, <2>2, FS_AddElement DEF StatsInv
  <2>6. stats'.total = Cardinality(tiles')
    BY <2>3, <2>4, <2>5 DEF StatsInv, StatsDescribeTiles
  <2>7. stats'.total + Len(pending') = 1 + 3 * stats'.subdivisions
    BY <2>3, <2>4 DEF StatsInv, StatsDescribeTiles
  <2>8. \A r \in tiles : Larger(r.w, r.h) \in Nat
    BY DEF TilesTypeOK, Rect, Larger
  <2> HIDE DEF side
  <2>9. CASE tiles = {}
    <3>1. stats.min = NoTile /\ stats.max = 0 /\ tiles' = {h}
      BY <2>2, <2>9 DEF StatsInv
    <3>2. stats'.min = side /\ stats'.max = side
      BY <2>1, <2>3, <2>4, <3>1 DEF Smaller, Larger
    <3>3. \A r \in tiles' : Larger(r.w, r.h) = side
      BY <3>1 DEF side
    <3> QED
      BY <2>1, <2>5, <2>6, <2>7, <3>1, <3>2, <3>3 DEF StatsInv, StatsDescribeTiles
  <2>10. CASE tiles # {}
    <3>1. \A r \in tiles : /\ stats.min <= Larger(r.w, r.h)
                           /\ Larger(r.w, r.h) <= stats.max
      BY <2>10 DEF StatsInv, StatsDescribeTiles
    <3>2. PICK low \in tiles : stats.min = Larger(low.w, low.h)
      BY <2>10 DEF StatsInv, StatsDescribeTiles
    <3>3. PICK high \in tiles : stats.max = Larger(high.w, high.h)
      BY <2>10 DEF StatsInv, StatsDescribeTiles
    <3>4. /\ stats'.min <= stats.min /\ stats'.min <= side
          /\ stats'.min = stats.min \/ stats'.min = side
      BY <2>1, <2>3, <2>4 DEF Smaller
    <3>5. /\ stats.max <= stats'.max /\ side <= stats'.max
          /\ stats'.max = stats.max \/ stats'.max = side
      BY <2>1, <2>3, <2>4 DEF Larger
    <3>6. stats'.min \in Nat /\ stats'.max \in Nat
      BY <2>1, <2>3, <3>4, <3>5
    <3>7. ASSUME NEW r \in tiles'
          PROVE  stats'.min <= Larger(r.w, r.h) /\ Larger(r.w, r.h) <= stats'.max
      <4>1. CASE r = h
        BY <3>4, <3>5, <4>1 DEF side
      <4>2. CASE r \in tiles
        <5>1. /\ Larger(r.w, r.h) \in Nat /\ stats.min <= Larger(r.w, r.h)
              /\ Larger(r.w, r.h) <= stats.max
          BY <2>8, <3>1, <4>2
        <5> QED
          BY <2>3, <3>4, <3>5, <3>6, <5>1
      <4> QED
        BY <2>2, <4>1, <4>2
    <3>8. h \in tiles' /\ low \in tiles' /\ high \in tiles' /\ side = Larger(h.w, h.h)
      BY <2>2 DEF side
    <3>9. \E r \in tiles' : stats'.min = Larger(r.w, r.h)
      BY <3>2, <3>4, <3>8
    <3>10. \E r \in tiles' : stats'.max = Larger(r.w, r.h)
      BY <3>3, <3>5, <3>8
    <3> QED
      BY <2>5, <2>6, <2>7, <3>7, <3>8, <3>9, <3>10 DEF StatsInv, StatsDescribeTiles
  <2> QED
    BY <2>9, <2>10
<1>3. CASE UNCHANGED tileVars
  BY <1>3 DEF tileVars, StatsInv, StatsDescribeTiles
<1> QED
  BY <1>1, <1>2, <1>3 DEF TilesNext

(* For every image and all limits: the numbers render() prints are those *)
(* of the tiles it traced, each split having made four calls of one.       *)
THEOREM StatisticsAreRight == TilesSpec => []StatsDescribeTiles
<1>1. TilesInit => TilesTypeOK /\ TilesCoverOnce /\ StatsInv
  BY TilesInitTypeOK, CoverInit, StatsInit
<1>2. /\ TilesTypeOK /\ TilesCoverOnce /\ StatsInv
      /\ [TilesNext]_tileVars
      => (TilesTypeOK /\ TilesCoverOnce /\ StatsInv)'
  BY TilesNextTypeOK, CoverNext, StatsNext
<1>3. StatsInv => StatsDescribeTiles
  BY DEF StatsInv
<1> QED
  BY <1>1, <1>2, <1>3, PTL DEF TilesSpec
=============================================================================
