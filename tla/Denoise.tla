------------------------------ MODULE Denoise ------------------------------
(***************************************************************************)
(* The denoiser of a child: which texture holds what while the passes of   *)
(* denoiseFrame render from texture to texture (cg_interface.c).           *)
(*                                                                         *)
(* A pass draws a rectangle in the corner of a texture: the whole picture, *)
(* or a half, a quarter or an eighth of it in each direction.  A texture   *)
(* is therefore four shells, shell k being the texels inside the corner of *)
(* 1/k and outside that of 1/2k.  What a shell holds is the set of frames  *)
(* its values were computed from: pixels are left out, and a vector that   *)
(* says which pixel to take does not count as a source of the picture.     *)
(*                                                                         *)
(* It is said of the rows of the picture.  Above and below them each       *)
(* texture has 32 rows of margin, at the scale of the corner drawn, which  *)
(* nothing is ever loaded into: what lies there is undefined at first and  *)
(* made of older pictures later.  A pass that samples beside its own texel *)
(* brings some of it in, and that is a source by itself, Margin.           *)
(*                                                                         *)
(* Most passes draw into a spare texture and then exchange the names, so   *)
(* tex gives the texture that a name stands for at the moment.             *)
(***************************************************************************)
EXTENDS Integers, FiniteSets

CONSTANTS
  Sizes,          \* widths and heights of pictures, as pairs
  Contrasts,      \* TRUE: luma_contrast or chroma_contrast is not 1.0
  Roundings,      \* what a card may add to a sum before it drops the two
                  \* lowest bits: 0 rounds down, 1 or 2 to the nearest, 3 up
  MaxFrame,       \* bound: frames given to this child
  BadSets(_, _)   \* bound: sets of bad blocks of a picture of x by y blocks

ASSUME DenoiseAssumption ==
  /\ Sizes \subseteq (Nat \ {0}) \X (Nat \ {0})
  /\ Contrasts \subseteq BOOLEAN
  /\ Roundings \subseteq 0 .. 3
  /\ MaxFrame \in Nat

VARIABLES
  size, contrast,             \* what the child is set up for
  frameNum, new_scene,        \* counters of denoiseFrame
  scene,                      \* history: first frame of the running average
  tex,                        \* the texture each name stands for
  content,                    \* what each texture holds
  pc,                         \* the next pass
  search, candidate, n, level,\* where the motion search stands
  image, bad, bad_vector,     \* counting bad blocks (bad is history, and so
                              \* is image once it has been read back)
  out                         \* history: what the last output was made of

setup == <<size, contrast>>
film  == <<frameNum, new_scene, scene, out>>
loops == <<search, candidate, n, level>>
check == <<image, bad, bad_vector>>
vars  == <<setup, film, tex, content, pc, loops, check>>

Names ==
  {"frame", "y", "u", "v", "ref", "avg", "avg2", "tmp", "tmp2", "diff",
   "sub2ref", "sub2avg", "sub4ref", "sub4avg",
   "vector", "vector2", "vector3", "vector4", "bad", "bad2"}

Levels    == {1, 2, 4, 8}
Undefined == 0                \* memory that nothing has been drawn to
Margin    == -1               \* rows above and below the picture
Origins   == Nat \cup {Margin}
Contents  == [Names -> [Levels -> SUBSET Origins]]
-----------------------------------------------------------------------------
\* Reading and drawing.  A source is a texture and the corner read of it, or
\* the rows beyond the picture.
Beyond == "beyond"
Edge   == <<Beyond, 1>>

Sampled(c, t, l) ==
  IF t = Beyond THEN {Margin}
                ELSE UNION {c[t][k] : k \in {j \in Levels : j >= l}}

Drawn(c, t, l, frames) ==
  [c EXCEPT ![t] = [k \in Levels |-> IF k >= l THEN frames ELSE c[t][k]]]

\* A pass that samples the texture it draws to gives anything.
Render(c, t, l, sources) ==
  Drawn(c, t, l, IF \E s \in sources : s[1] = t
                 THEN {Undefined}
                 ELSE UNION {Sampled(c, s[1], s[2]) : s \in sources})

\* Most passes with parameters do nothing then.
Guarded(c, t, l, sources) ==
  IF \E s \in sources : s[1] = t THEN c ELSE Render(c, t, l, sources)

copy_frame(c, dest, src)        == Guarded(c, tex[dest], 1, {<<tex[src], 1>>})
decimate_frame(c, dest, src, l) == Guarded(c, tex[dest], 2 * l, {<<tex[src], l>>, Edge})
diff_frame(c, dest, a, b)       == Guarded(c, tex[dest], 1, {<<tex[a], 1>>, <<tex[b], 1>>})
thresh_diff(c, dest, src)       == Guarded(c, tex[dest], 1, {<<tex[src], 1>>})
decimate_add(c, dest, src, l)   == Guarded(c, tex[dest], 2 * l, {<<tex[src], l>>, Edge})
vector_low_contrast(c, dest, src) == Guarded(c, tex[dest], 8, {<<tex[src], 8>>})

\* Mutant: the name given up is not passed on.
Taken(t, a, b) == [t EXCEPT ![a] = t[b]]

Swapped(t, a, b) == [t EXCEPT ![a] = t[b], ![b] = t[a]]
-----------------------------------------------------------------------------
\* cg_enable: each level of decimation rounds up.
Half(x)    == (x + 1) \div 2
Blocks(x)  == Half(Half(Half(x)))

width      == size[1]
height     == size[2]
padHeight  == height + 64
vecWidth   == Blocks(width)
vecHeight  == Blocks(padHeight)

scene_thresh == 50
radius       == 8
Side         == 8             \* dx and dy of the sums of differences

TypeOK ==
  /\ size \in Sizes /\ contrast \in Contrasts
  /\ frameNum \in 0 .. MaxFrame /\ scene \in 0 .. frameNum
  /\ new_scene \in BOOLEAN
  /\ tex \in [Names -> Names] /\ content \in Contents
  /\ pc \in {"load", "copy", "contrast", "decimate", "mark", "clear", "sum", "halve",
             "badcheck", "count", "range", "move", "scene",
             "average", "correct", "pass2", "sharpen", "copyback", "unload"}
  /\ search \in {"mb44", "mb22", "mb11", "still", "mb00"}
  /\ candidate \in 1 .. 25 /\ n \in 0 .. Side * Side /\ level \in Levels
  /\ bad_vector \in Nat
  /\ out \in SUBSET Origins

Blank == [x |-> 0, y |-> 0, i |-> 0, factor |-> 1, at |-> <<>>]

\* cg_init, cg_enable and createTextures.
Init ==
  /\ size \in Sizes /\ contrast \in Contrasts
  /\ frameNum = 0 /\ new_scene = TRUE /\ scene = 0
  /\ tex = [a \in Names |-> a]
  /\ content = [t \in Names |-> [k \in Levels |-> {Undefined}]]
  /\ pc = "load"
  /\ search = "mb44" /\ candidate = 1 /\ n = 0 /\ level = 1
  /\ image = Blank /\ bad = {} /\ bad_vector = 0
  /\ out = {}
-----------------------------------------------------------------------------
\* The planes are uploaded into the rows of the picture and drawn into the frame.
\* Half of an odd height leaves the last row without chroma of its own.
loadFrame ==
  /\ pc = "load" /\ frameNum < MaxFrame
  /\ LET f  == {frameNum + 1}
         g  == IF height % 2 = 0 THEN f ELSE f \cup {Margin}
         c1 == Drawn(Drawn(Drawn(content, tex["y"], 1, f), tex["u"], 1, g), tex["v"], 1, g)
     IN  content' = Render(c1, tex["frame"], 1,
                           {<<tex["y"], 1>>, <<tex["u"], 1>>, <<tex["v"], 1>>})
  /\ pc' = "copy"
  /\ UNCHANGED <<setup, film, tex, loops, check>>

\* Mutant: a new scene starts the first average only.
CopyIntoAvgOnly ==
  /\ pc = "copy"
  /\ frameNum' = frameNum + 1 /\ bad_vector' = 0
  /\ new_scene' = FALSE
  /\ scene' = IF new_scene THEN frameNum' ELSE scene
  /\ LET c1 == copy_frame(content, "ref", "frame")
     IN  content' = IF new_scene THEN copy_frame(c1, "avg", "frame") ELSE c1
  /\ pc' = "contrast"
  /\ UNCHANGED <<setup, out, tex, loops, image, bad>>

\* denoiseFrame begins: the frame becomes ref, and the averages too if a scene
\* begins with it.
CopyInput ==
  /\ pc = "copy"
  /\ frameNum' = frameNum + 1 /\ bad_vector' = 0
  /\ new_scene' = FALSE
  /\ scene' = IF new_scene THEN frameNum' ELSE scene
  /\ LET c1 == copy_frame(content, "ref", "frame")
     IN  content' = IF new_scene
                    THEN copy_frame(copy_frame(c1, "avg", "frame"), "avg2", "frame")
                    ELSE c1
  /\ pc' = "contrast"
  /\ UNCHANGED <<setup, out, tex, loops, image, bad>>

contrast_frame ==
  /\ pc = "contrast"
  /\ \/ ~contrast /\ UNCHANGED <<tex, content>>
     \/ /\ contrast
        /\ content' = Render(content, tex["tmp"], 1, {<<tex["ref"], 1>>})
        /\ tex' = Swapped(tex, "tmp", "ref")
  /\ pc' = "decimate"
  /\ UNCHANGED <<setup, film, loops, check>>

Decimate ==
  /\ pc = "decimate"
  /\ LET c1 == decimate_frame(content, "sub2ref", "ref", 1)
         c2 == decimate_frame(c1, "sub2avg", "avg", 1)
         c3 == decimate_frame(c2, "sub4ref", "sub2ref", 2)
     IN  content' = decimate_frame(c3, "sub4avg", "sub2avg", 2)
  /\ pc' = "mark"
  /\ UNCHANGED <<setup, film, tex, loops, check>>

mark_low_contrast_blocks ==
  /\ pc = "mark"
  /\ LET c1 == diff_frame(content, "diff", "ref", "avg")
         c2 == thresh_diff(c1, "tmp", "diff")
         c3 == decimate_add(c2, "diff", "tmp", 1)
         c4 == decimate_add(c3, "tmp", "diff", 2)
         c5 == decimate_add(c4, "diff", "tmp", 4)
     IN  content' = vector_low_contrast(c5, "vector", "diff")
  /\ pc' = "clear" /\ search' = "mb44" /\ candidate' = 1
  /\ UNCHANGED <<setup, film, tex, n, level, check>>
-----------------------------------------------------------------------------
(* The motion search: mb_search_44, _22, _11, its check against no motion   *)
(* ("still") and _00.  For each candidate a buffer is cleared, the         *)
(* differences are summed over 8 by 8 positions, the sums are decimated to *)
(* one per block, and the better vector of each block is kept.             *)

LevelOf(s) == CASE s = "mb44" -> 4 [] s = "mb22" -> 2 [] OTHER -> 1
RefOf(s)   == CASE s = "mb44" -> "sub4ref" [] s = "mb22" -> "sub2ref" [] OTHER -> "ref"
AvgOf(s)   == CASE s = "mb44" -> "sub4avg" [] s = "mb22" -> "sub2avg" [] OTHER -> "avg"

Square(r)     == (2 * r + 1) * (2 * r + 1)
Candidates(s) == CASE s = "mb44"  -> Square(radius \div 4)
                   [] s = "still" -> 1
                   [] s = "mb00"  -> Square(1)
                   [] OTHER       -> Square(2)

After(s) == CASE s = "mb44" -> "mb22" [] s = "mb22" -> "mb11" [] s = "mb11" -> "still"
              [] OTHER -> "mb00"

IsSAD(s) == s \in {"mb44", "still"}

\* SAD clears vector2, SAD_pass2 and SAD_halfpel clear vector3.
zero ==
  /\ pc = "clear"
  /\ content' = Render(content, tex[IF IsSAD(search) THEN "vector2" ELSE "vector3"],
                       LevelOf(search), {})
  /\ pc' = "sum" /\ n' = 0
  /\ UNCHANGED <<setup, film, tex, search, candidate, level, check>>

\* One turn of the loops of SAD, SAD_pass2 and SAD_halfpel: vector2 and vector3
\* are exchanged and vector2 drawn from the other.  The guard of the pass leaves
\* out the accumulator.
Iterate ==
  /\ pc = "sum" /\ n < Side * Side
  /\ LET t       == Swapped(tex, "vector2", "vector3")
         l       == LevelOf(search)
         inputs  == {<<t[RefOf(search)], l>>, <<t[AvgOf(search)], l>>}
                    \cup (IF IsSAD(search) THEN {} ELSE {<<t["vector"], 8>>})
     IN  /\ tex' = t
         /\ content' = IF \E s \in inputs : s[1] = t["vector2"]
                       THEN content
                       ELSE Render(content, t["vector2"], l,
                                   inputs \cup {<<t["vector3"], l>>, Edge})
  /\ n' = n + 1
  /\ UNCHANGED <<setup, film, pc, search, candidate, level, check>>

Summed ==
  /\ pc = "sum" /\ n = Side * Side
  /\ pc' = "halve" /\ level' = LevelOf(search)
  /\ UNCHANGED <<setup, film, tex, content, search, candidate, n, check>>

\* One turn of the loop of vector_update.
Halve ==
  /\ pc = "halve" /\ level < 8
  /\ LET t == Swapped(tex, "vector2", "vector3")
     IN  /\ tex' = t
         /\ content' = Guarded(content, t["vector2"], 2 * level,
                               {<<t["vector3"], level>>, Edge})
  /\ level' = 2 * level
  /\ UNCHANGED <<setup, film, pc, search, candidate, n, check>>

\* Mutant: the loops run to xx <= rad + 1.
NextCandidateOneMore ==
  IF candidate <= Candidates(search)
  THEN pc' = "clear" /\ candidate' = candidate + 1 /\ search' = search
  ELSE /\ pc' = IF search = "mb00" THEN "badcheck" ELSE "clear"
       /\ candidate' = 1 /\ search' = After(search)

\* The candidate loops of the searches.
NextCandidate ==
  IF candidate < Candidates(search)
  THEN pc' = "clear" /\ candidate' = candidate + 1 /\ search' = search
  ELSE /\ pc' = IF search = "mb00" THEN "badcheck" ELSE "clear"
       /\ candidate' = 1 /\ search' = After(search)

\* Mutant: vectorTexID gets the texture drawn and vector3TexID keeps it.
VectorUpdateKeeps ==
  /\ pc = "halve" /\ level = 8
  /\ content' = Render(content, tex["vector3"], 8, {<<tex["vector"], 8>>, <<tex["vector2"], 8>>})
  /\ tex' = Taken(tex, "vector", "vector3")
  /\ NextCandidate
  /\ UNCHANGED <<setup, film, n, level, check>>

\* The rest of vector_update.
vector_update ==
  /\ pc = "halve" /\ level = 8
  /\ content' = Render(content, tex["vector3"], 8, {<<tex["vector"], 8>>, <<tex["vector2"], 8>>})
  /\ tex' = Swapped(tex, "vector", "vector3")
  /\ NextCandidate
  /\ UNCHANGED <<setup, film, n, level, check>>
-----------------------------------------------------------------------------
(* vector_badcheck: the blocks whose best sum is over block_bad_thresh are  *)
(* drawn as ones, and the picture of ones is decimated to one number.  Its *)
(* texels have 16 bits: a texel v stands for v / 65535.                    *)

Cells(x, y) == (0 .. x - 1) \X (0 .. y - 1)

ASSUME BadSetsAssumption ==
  \A s \in Sizes : LET x == Blocks(s[1])  y == Blocks(s[2] + 64)
                   IN  BadSets(x, y) \subseteq SUBSET Cells(x, y)

\* The two texels of w that texel i of the decimated picture samples in each
\* direction: nearest to its centre less or plus half a texel.
Sample(i, a, w) == ((2 * a - 1) * Half(w) + w * (2 * i + 1)) \div (2 * Half(w))

One == 65535

\* decimate_add: the average of four texels, as the card rounds it.
Decimated(im, r) ==
  [x  |-> Half(im.x), y |-> Half(im.y), i |-> im.i + 1, factor |-> 4 * im.factor,
   at |-> [c \in Cells(Half(im.x), Half(im.y)) |->
             LET v(a, b) == im.at[<<Sample(c[1], a, im.x), Sample(c[2], b, im.y)>>]
             IN  (v(0, 0) + v(0, 1) + v(1, 0) + v(1, 1) + r) \div 4]]

vector_badcheck ==
  /\ pc = "badcheck"
  /\ content' = Render(content, tex["bad"], 8, {<<tex["vector"], 8>>})
  /\ \E b \in BadSets(vecWidth, vecHeight) :
       /\ bad' = b
       /\ image' = [x  |-> vecWidth, y |-> vecHeight, i |-> 0, factor |-> 1,
                    at |-> [c \in Cells(vecWidth, vecHeight) |-> IF c \in b THEN One ELSE 0]]
  /\ pc' = "count"
  /\ UNCHANGED <<setup, film, tex, loops, bad_vector>>

\* Mutant: the loop stops at two texels.
HasMoreThanTwo(im) == im.x > 2 /\ im.y > 2

HasMore(im) == im.x > 1 /\ im.y > 1

BadDecimate ==
  /\ pc = "count" /\ HasMore(image)
  /\ content' = Guarded(content, tex["bad2"], 8, {<<tex["bad"], 8>>, Edge})
  /\ tex' = Swapped(tex, "bad", "bad2")
  /\ \E r \in Roundings : image' = Decimated(image, r)
  /\ UNCHANGED <<setup, film, pc, loops, bad, bad_vector>>

\* (int)bad_count, where the texel v in the corner reads as v / One in a float of
\* 24 bits: what lies just below an integer may be rounded up to it.
Truncated(v, factor) ==
  LET q == (v * factor) \div One
      r == (v * factor) % One
  IN  IF r > 0 /\ One - r <= factor \div 256 THEN {q, q + 1} ELSE {q}

BadRead ==
  /\ pc = "count" /\ ~HasMore(image)
  /\ \E b \in Truncated(image.at[<<0, 0>>], image.factor) : bad_vector' = bad_vector + b
  /\ pc' = "range"
  /\ UNCHANGED <<setup, film, tex, content, loops, image, bad>>

vector_range ==
  /\ pc = "range"
  /\ content' = Render(content, tex["vector3"], 8, {<<tex["vector"], 8>>})
  /\ tex' = Swapped(tex, "vector", "vector3")
  /\ pc' = "move"
  /\ UNCHANGED <<setup, film, loops, check>>
-----------------------------------------------------------------------------
\* A pass over pictures: tmp is drawn and presented as dest.
Present(dest, sources) ==
  /\ content' = Render(content, tex["tmp"], 1, sources)
  /\ tex' = Swapped(tex, "tmp", dest)

Full(name) == <<tex[name], 1>>

\* vector_range keeps the corner of a block that moves in the picture, or just
\* below it, and not the rest of the block.
move_frame ==
  /\ pc = "move"
  /\ Present("avg", {Full("avg"), Edge})
  /\ pc' = "scene"
  /\ UNCHANGED <<setup, film, loops, check>>

\* Too many bad blocks: the next frame starts a scene.
SceneChange ==
  /\ pc = "scene"
  /\ new_scene' = (new_scene \/ bad_vector > (width * height * scene_thresh) \div 6400)
  /\ bad_vector' = 0 /\ bad' = {} /\ image' = Blank
  /\ pc' = "average"
  /\ UNCHANGED <<setup, frameNum, scene, out, tex, content, loops>>

average_frame ==
  /\ pc = "average"
  /\ Present("avg", {Full("ref"), Full("avg")})
  /\ pc' = "correct"
  /\ UNCHANGED <<setup, film, loops, check>>

correct_frame2 ==
  /\ pc = "correct"
  /\ Present("avg", {Full("ref"), Full("avg")})
  /\ pc' = "pass2"
  /\ UNCHANGED <<setup, film, loops, check>>

denoise_frame_pass2 ==
  /\ pc = "pass2"
  /\ Present("avg2", {Full("avg"), Full("avg2")})
  /\ pc' = "sharpen"
  /\ UNCHANGED <<setup, film, loops, check>>

\* Each pixel takes from the row below it.
sharpen_frame ==
  /\ pc = "sharpen"
  /\ Present("avg2", {Full("avg2"), Edge})
  /\ pc' = "copyback"
  /\ UNCHANGED <<setup, film, loops, check>>

CopyOutput ==
  /\ pc = "copyback"
  /\ content' = copy_frame(content, "frame", "avg2")
  /\ pc' = "unload"
  /\ UNCHANGED <<setup, film, tex, loops, check>>

\* The planes are drawn from the frame and read back.
unloadFrame ==
  /\ pc = "unload"
  /\ LET f  == {<<tex["frame"], 1>>}
         c1 == Render(content, tex["y"], 1, f)
         c2 == Render(c1, tex["u"], 1, f)
         c3 == Render(c2, tex["v"], 1, f)
     IN  /\ content' = c3
         /\ out' = Sampled(c3, tex["y"], 1) \cup Sampled(c3, tex["u"], 1)
                   \cup Sampled(c3, tex["v"], 1)
  /\ pc' = "load"
  /\ UNCHANGED <<setup, frameNum, new_scene, scene, tex, loops, check>>
-----------------------------------------------------------------------------
MotionSearch == zero \/ Iterate \/ Summed \/ Halve \/ vector_update
BadBlocks    == vector_badcheck \/ BadDecimate \/ BadRead
Filter       == move_frame \/ SceneChange \/ average_frame \/ correct_frame2
                \/ denoise_frame_pass2 \/ sharpen_frame

Next ==
  \/ loadFrame \/ CopyInput \/ contrast_frame \/ Decimate \/ mark_low_contrast_blocks
  \/ MotionSearch \/ BadBlocks \/ vector_range
  \/ Filter \/ CopyOutput \/ unloadFrame

Spec == Init /\ [][Next]_vars
-----------------------------------------------------------------------------
\* However often the passes have exchanged names, no two stand for one texture:
\* no pass draws to a texture it samples, and none is left that is not in use.
NamesDistinct == \A a, b \in Names : tex[a] = tex[b] => a = b

\* What leaves the card is made of the frames of the scene up to this one, of
\* all of them and of no other frame, nor of memory never drawn to, but for what
\* the passes that look beside their own texel take from beyond the picture.
OutputBlendsScene ==
  pc = "load" /\ frameNum > 0 => out \ {Margin} = scene .. frameNum

\* "Copy input frame to avg", "Copy input frame to avg2" where "New Scene
\* detected" is logged: from then on the output is made of the scene's frames
\* and of nothing else.
OutputIsOnlyTheScene ==
  pc = "load" /\ frameNum > 0 => out = scene .. frameNum

\* Rounding a texel at each of i halvings, and the number read, loses at most
\* this many blocks.
Lost(i, factor) == (3 * i * factor + 4 * (One - 1)) \div (4 * One)

\* "Decimate the bad_vector data down to a single number": every bad block but
\* for those that rounding loses is in the number read back, and a picture
\* without any gives none.  (Where a size is odd the middle texels are sampled
\* twice, so it may be larger.)
BadBlocksAreCounted ==
  pc \in {"range", "move", "scene"} =>
    /\ Cardinality(bad) <= bad_vector + Lost(image.i, image.factor)
    /\ bad = {} => bad_vector = 0

\* The same comment taken at its word: no bad block is lost.
NoBadBlockIsLost ==
  pc \in {"range", "move", "scene"} => Cardinality(bad) <= bad_vector

\* "Clear out vector3TexID": the motion vectors that move the average were
\* computed from the frames of this scene and what surrounds them.
VectorsOfThisScene ==
  pc = "move" => Sampled(content, tex["vector"], 8) \ {Margin} \subseteq scene .. frameNum
=============================================================================
