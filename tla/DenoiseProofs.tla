--------------------------- MODULE DenoiseProofs ---------------------------
(* Theorems about Denoise, for any picture size, contrast and number of     *)
(* frames.                                                                 *)
EXTENDS Denoise, ProofLemmas

\* The picture rows of all shells were computed from the frames S, and maybe from
\* what lies beyond them.
Of(f, S) == \A k \in Levels : f[k] \ {Margin} = S

\* A source is a texture, or what lies beyond the picture, and a level.
Sources == SUBSET ((Names \cup {Beyond}) \X Nat)

Injective(t) == \A a, b \in Names : t[a] = t[b] => a = b
-----------------------------------------------------------------------------
\* Exchanging two names leaves no texture with two names or with none.
LEMMA SwapKeepsNames ==
  ASSUME NEW t \in [Names -> Names], Injective(t), NEW a \in Names, NEW b \in Names
  PROVE  /\ Swapped(t, a, b) \in [Names -> Names]
         /\ Injective(Swapped(t, a, b))
         /\ Swapped(t, a, b)[a] = t[b] /\ Swapped(t, a, b)[b] = t[a]
         /\ \A x \in Names \ {a, b} : Swapped(t, a, b)[x] = t[x]
BY DEF Swapped, Injective

LEMMA OriginFacts ==
  /\ Beyond \notin Names /\ Margin \in Origins /\ Nat \subseteq Origins
  /\ \A S \in SUBSET Nat : S \ {Margin} = S
BY DEF Beyond, Names, Margin, Origins

\* A drawing changes the texture drawn to and no other.
LEMMA DrawnType ==
  ASSUME NEW c \in Contents, NEW t \in Names, NEW l \in Nat, NEW S \in SUBSET Origins
  PROVE  /\ Drawn(c, t, l, S) \in Contents
         /\ \A u \in Names \ {t} : Drawn(c, t, l, S)[u] = c[u]
<1>1. [k \in Levels |-> IF k >= l THEN S ELSE c[t][k]] \in [Levels -> SUBSET Origins]
  BY DEF Contents
<1>2. QED
  BY <1>1 DEF Drawn, Contents

\* A drawing over all of a texture.
LEMMA DrawnOf ==
  ASSUME NEW c \in Contents, NEW t \in Names, NEW S \in SUBSET Origins,
         NEW F, S \ {Margin} = F
  PROVE  Of(Drawn(c, t, 1, S)[t], F)
<1>1. \A k \in Levels : k >= 1
  BY DEF Levels
<1>2. Drawn(c, t, 1, S)[t] = [k \in Levels |-> IF k >= 1 THEN S ELSE c[t][k]]
  BY DEF Drawn, Contents
<1>3. \A k \in Levels : Drawn(c, t, 1, S)[t][k] = S
  BY <1>1, <1>2
<1>4. QED
  BY <1>3 DEF Of

LEMMA DrawnWhole ==
  ASSUME NEW c \in Contents, NEW t \in Names, NEW S \in SUBSET Origins,
         NEW F, S \ {Margin} = F, NEW d, d = Drawn(c, t, 1, S)
  PROVE  d \in Contents /\ Of(d[t], F) /\ \A u \in Names \ {t} : d[u] = c[u]
<1>1. 1 \in Nat
  OBVIOUS
<1>2. d \in Contents /\ \A u \in Names \ {t} : d[u] = c[u]
  BY <1>1, DrawnType
<1>3. Of(d[t], F)
  BY DrawnOf
<1>4. QED
  BY <1>2, <1>3

LEMMA SampledType ==
  ASSUME NEW c \in Contents, NEW t \in Names \cup {Beyond}, NEW l \in Nat
  PROVE  Sampled(c, t, l) \in SUBSET Origins
BY OriginFacts DEF Sampled, Contents

\* What is read of a texture that is all of one kind.
LEMMA SampledOf ==
  ASSUME NEW c \in Contents, NEW t \in Names, NEW S, Of(c[t], S)
  PROVE  Sampled(c, t, 1) \ {Margin} = S
<1>1. 1 \in Levels /\ \A k \in Levels : k >= 1
  BY DEF Levels
<1>2. Sampled(c, t, 1) = UNION {c[t][k] : k \in {j \in Levels : j >= 1}}
  BY OriginFacts DEF Sampled
<1>3. \A x : x \in Sampled(c, t, 1) <=> \E k \in Levels : x \in c[t][k]
  BY <1>1, <1>2
<1>4. QED
  BY <1>1, <1>3 DEF Of

\* A pass, guarded or not, changes the texture drawn to and no other.
LEMMA RenderType ==
  ASSUME NEW c \in Contents, NEW t \in Names, NEW l \in Nat, NEW s \in Sources
  PROVE  /\ Render(c, t, l, s) \in Contents
         /\ \A u \in Names \ {t} : Render(c, t, l, s)[u] = c[u]
         /\ Guarded(c, t, l, s) \in Contents
         /\ \A u \in Names \ {t} : Guarded(c, t, l, s)[u] = c[u]
<1> DEFINE S == IF \E x \in s : x[1] = t
                THEN {Undefined}
                ELSE UNION {Sampled(c, x[1], x[2]) : x \in s}
<1>1. \A x \in s : Sampled(c, x[1], x[2]) \in SUBSET Origins
  BY SampledType DEF Sources
<1>2. S \in SUBSET Origins
  BY <1>1 DEF Undefined, Origins
<1> HIDE DEF S
<1>3. Render(c, t, l, s) = Drawn(c, t, l, S)
  BY DEF Render, S
<1>4. QED
  BY <1>2, <1>3, DrawnType DEF Guarded

\* A pass over pictures with the frames F, whatever it takes from beyond them.
LEMMA RenderOf ==
  ASSUME NEW c \in Contents, NEW t \in Names, NEW s \in Sources, NEW F,
         \A x \in s : x[1] # t,
         (UNION {Sampled(c, x[1], x[2]) : x \in s}) \ {Margin} = F
  PROVE  /\ Of(Render(c, t, 1, s)[t], F)
         /\ Guarded(c, t, 1, s) = Render(c, t, 1, s)
<1> DEFINE S == UNION {Sampled(c, x[1], x[2]) : x \in s}
<1>1. \A x \in s : Sampled(c, x[1], x[2]) \in SUBSET Origins
  BY SampledType DEF Sources
<1>2. S \in SUBSET Origins /\ S \ {Margin} = F
  BY <1>1
<1>3. Render(c, t, 1, s) = Drawn(c, t, 1, S) /\ Guarded(c, t, 1, s) = Render(c, t, 1, s)
  BY DEF Render, Guarded
<1> HIDE DEF S
<1>4. QED
  BY <1>2, <1>3, DrawnOf

\* A pass over one picture, and one over two.
LEMMA RenderOne ==
  ASSUME NEW c \in Contents, NEW t \in Names, NEW a \in Names, a # t,
         NEW A, Of(c[a], A), NEW s \in {{<<a, 1>>}, {<<a, 1>>, Edge}}
  PROVE  /\ s \in Sources
         /\ Of(Render(c, t, 1, s)[t], A)
         /\ Of(Guarded(c, t, 1, s)[t], A)
<1>1. s \in Sources /\ \A x \in s : x[1] # t
  BY OriginFacts DEF Sources, Edge
<1>2. Sampled(c, a, 1) \ {Margin} = A
  BY SampledOf
<1>3. Sampled(c, Beyond, 1) = {Margin}
  BY DEF Sampled
<1>a. UNION {Sampled(c, x[1], x[2]) : x \in {<<a, 1>>}} = Sampled(c, a, 1)
  OBVIOUS
<1>b. UNION {Sampled(c, x[1], x[2]) : x \in {<<a, 1>>, Edge}} = Sampled(c, a, 1) \cup {Margin}
  <2>1. UNION {Sampled(c, x[1], x[2]) : x \in {<<a, 1>>, <<Beyond, 1>>}}
          = Sampled(c, a, 1) \cup Sampled(c, Beyond, 1)
    OBVIOUS
  <2> QED
    BY <1>3, <2>1 DEF Edge
<1>c. (UNION {Sampled(c, x[1], x[2]) : x \in s}) \ {Margin} = A
  <2>1. CASE s = {<<a, 1>>}
    BY <1>2, <1>a, <2>1
  <2>2. CASE s = {<<a, 1>>, Edge}
    BY <1>2, <1>b, <2>2
  <2> QED
    BY <2>1, <2>2
<1>4. QED
  BY <1>1, <1>c, RenderOf

LEMMA RenderTwo ==
  ASSUME NEW c \in Contents, NEW t \in Names, NEW a \in Names, NEW b \in Names, a # t, b # t,
         NEW A, NEW B, Of(c[a], A), Of(c[b], B)
  PROVE  Of(Render(c, t, 1, {<<a, 1>>, <<b, 1>>})[t], A \cup B)
<1> DEFINE s == {<<a, 1>>, <<b, 1>>}
<1>1. s \in Sources /\ \A x \in s : x[1] # t
  BY DEF Sources
<1>2. Sampled(c, a, 1) \ {Margin} = A /\ Sampled(c, b, 1) \ {Margin} = B
  BY SampledOf
<1>3. (UNION {Sampled(c, x[1], x[2]) : x \in s}) \ {Margin} = A \cup B
  BY <1>2
<1>4. QED
  BY <1>1, <1>3, RenderOf
-----------------------------------------------------------------------------
(* The inductive invariant.                                                *)

\* The names are distinct, and the card holds frames.
CardInv ==
  /\ tex \in [Names -> Names] /\ Injective(tex)
  /\ content \in Contents
  /\ level \in Levels

Holds(a, S) == Of(content[tex[a]], S)

\* The frames the averages hold before this one is blended in.
Past == IF scene = frameNum THEN {frameNum} ELSE scene .. frameNum - 1

\* The places from which the averages are those of the frame before.
Searching ==
  {"contrast", "decimate", "mark", "clear", "sum", "halve", "badcheck", "count",
   "range", "move", "scene", "average"}

\* What the pictures hold at each place.
PictureInv ==
  /\ frameNum \in Nat /\ scene \in 0 .. frameNum
  /\ pc \in Searching \cup {"load", "copy", "correct", "pass2", "sharpen", "copyback", "unload"}
  /\ pc = "copy" => Holds("frame", {frameNum + 1})
  /\ pc \in {"load", "copy"} /\ ~new_scene =>
       Holds("avg", scene .. frameNum) /\ Holds("avg2", scene .. frameNum)
  /\ pc \in Searching => Holds("avg", Past)
  /\ pc \in Searching \cup {"correct"} => Holds("ref", {frameNum})
  /\ pc \in Searching \cup {"correct", "pass2"} => Holds("avg2", Past)
  /\ pc \in {"correct", "pass2", "sharpen", "copyback", "unload"} =>
       Holds("avg", scene .. frameNum)
  /\ pc \in {"sharpen", "copyback", "unload"} => Holds("avg2", scene .. frameNum)
  /\ pc = "unload" => Holds("frame", scene .. frameNum)
  /\ OutputBlendsScene

Inv == CardInv /\ PictureInv

\* The textures that the passes of the search are not to touch.
Shown == {"frame", "ref", "avg", "avg2"}

Kept == \A x \in Shown : content'[tex'[x]] = content[tex[x]]

\* The textures of the search.
Work == {"tmp", "diff", "sub2ref", "sub2avg", "sub4ref", "sub4avg",
         "vector", "vector2", "vector3", "bad", "bad2"}
-----------------------------------------------------------------------------
LEMMA LevelType ==
  \A s : LevelOf(s) \in Levels /\ RefOf(s) \in Names /\ AvgOf(s) \in Names
BY DEF LevelOf, RefOf, AvgOf, Levels, Names

LEMMA LevelsAreNat == Levels \subseteq Nat /\ 1 \in Levels /\ 8 \in Levels
BY DEF Levels

LEMMA NamesOf == Shown \subseteq Names /\ Work \subseteq Names /\ Shown \cap Work = {}
BY DEF Shown, Work, Names

\* The contents c are the card's but for the working textures.
Same(c) == c \in Contents /\ \A x \in Shown : c[tex[x]] = content[tex[x]]

\* A pass that draws to a working texture keeps the pictures.
LEMMA PassKeeps ==
  ASSUME CardInv, NEW c, Same(c), NEW w \in Work, NEW l \in Nat, NEW s \in Sources
  PROVE  Same(Render(c, tex[w], l, s)) /\ Same(Guarded(c, tex[w], l, s))
<1>1. tex[w] \in Names /\ \A x \in Shown : tex[x] \in Names \ {tex[w]}
  BY NamesOf DEF CardInv, Injective
<1>2. QED
  BY <1>1, RenderType DEF Same

\* The same for a pass with one source.
LEMMA CopyKeeps ==
  ASSUME CardInv, NEW c, Same(c), NEW w \in Work, NEW a \in Names, NEW l \in Nat, NEW m \in Nat,
         NEW s \in {{<<tex[a], m>>}, {<<tex[a], m>>, Edge}}
  PROVE  Same(Render(c, tex[w], l, s)) /\ Same(Guarded(c, tex[w], l, s))
<1>1. s \in Sources
  BY DEF CardInv, Sources, Edge
<1>2. QED
  BY <1>1, PassKeeps

\* An exchange of two working names keeps the pictures' names.
LEMMA SwapKeeps ==
  ASSUME CardInv, NEW a \in Work, NEW b \in Work
  PROVE  /\ Swapped(tex, a, b) \in [Names -> Names]
         /\ Injective(Swapped(tex, a, b))
         /\ \A x \in Shown : Swapped(tex, a, b)[x] = tex[x]
         /\ Swapped(tex, a, b)[a] = tex[b] /\ Swapped(tex, a, b)[b] = tex[a]
<1>1. a \in Names /\ b \in Names /\ Shown \subseteq Names \ {a, b}
  BY NamesOf
<1>2. QED
  BY <1>1, SwapKeepsNames DEF CardInv

\* So does a pass over working textures followed by an exchange of their names.
LEMMA StepKeeps ==
  ASSUME CardInv, Same(content'), level' \in Levels,
         tex' = tex \/ \E a, b \in Work : tex' = Swapped(tex, a, b)
  PROVE  CardInv' /\ Kept
<1>1. tex' \in [Names -> Names] /\ Injective(tex') /\ \A x \in Shown : tex'[x] = tex[x]
  BY SwapKeeps DEF CardInv
<1>2. Injective(tex)' <=> Injective(tex')
  BY DEF Injective
<1>3. QED
  BY <1>1, <1>2 DEF CardInv, Same, Kept

\* What a pass of the search does to the pictures: nothing.
SearchStep ==
  \/ Decimate \/ mark_low_contrast_blocks \/ MotionSearch \/ BadBlocks \/ vector_range

LEMMA SearchKeeps ==
  ASSUME CardInv, SearchStep
  PROVE  CardInv' /\ Kept
<1> USE NamesOf
<1>0. Same(content) /\ 2 * 1 \in Nat /\ 2 * 2 \in Nat /\ 2 * 4 \in Nat
  BY DEF CardInv, Same
<1>1. CASE Decimate
  <2> DEFINE c1 == decimate_frame(content, "sub2ref", "ref", 1)
             c2 == decimate_frame(c1, "sub2avg", "avg", 1)
             c3 == decimate_frame(c2, "sub4ref", "sub2ref", 2)
             c4 == decimate_frame(c3, "sub4avg", "sub2avg", 2)
  <2>0. {"ref", "avg", "sub2ref", "sub2avg"} \subseteq Names
        /\ {"sub2ref", "sub2avg", "sub4ref", "sub4avg"} \subseteq Work
    BY DEF Names, Work
  <2>1. Same(c1)
    BY <1>0, <2>0, CopyKeeps DEF decimate_frame
  <2> HIDE DEF c1
  <2>2. Same(c2)
    BY <1>0, <2>0, <2>1, CopyKeeps DEF decimate_frame
  <2> HIDE DEF c2
  <2>3. Same(c3)
    BY <1>0, <2>0, <2>2, CopyKeeps DEF decimate_frame
  <2> HIDE DEF c3
  <2>4. Same(c4)
    BY <1>0, <2>0, <2>3, CopyKeeps DEF decimate_frame
  <2>5. content' = c4 /\ tex' = tex /\ level' = level
    BY <1>1 DEF Decimate, c1, c2, c3, loops
  <2>6. QED
    BY <2>4, <2>5 DEF CardInv, Same, Kept, Injective
<1>2. CASE mark_low_contrast_blocks
  <2> DEFINE c1 == diff_frame(content, "diff", "ref", "avg")
             c2 == thresh_diff(c1, "tmp", "diff")
             c3 == decimate_add(c2, "diff", "tmp", 1)
             c4 == decimate_add(c3, "tmp", "diff", 2)
             c5 == decimate_add(c4, "diff", "tmp", 4)
             c6 == vector_low_contrast(c5, "vector", "diff")
  <2>0. {"ref", "avg", "diff", "tmp", "vector"} \subseteq Names
        /\ {"diff", "tmp", "vector"} \subseteq Work
    BY DEF Names, Work
  <2>1. {<<tex["ref"], 1>>, <<tex["avg"], 1>>} \in Sources
    BY <2>0 DEF CardInv, Sources
  <2>2. Same(c1)
    BY <1>0, <2>0, <2>1, PassKeeps DEF diff_frame
  <2> HIDE DEF c1
  <2>3. Same(c2)
    BY <1>0, <2>0, <2>2, CopyKeeps DEF thresh_diff
  <2> HIDE DEF c2
  <2>4. Same(c3)
    BY <1>0, <2>0, <2>3, CopyKeeps DEF decimate_add
  <2> HIDE DEF c3
  <2>5. Same(c4)
    BY <1>0, <2>0, <2>4, CopyKeeps DEF decimate_add
  <2> HIDE DEF c4
  <2>6. Same(c5)
    BY <1>0, <2>0, <2>5, CopyKeeps DEF decimate_add
  <2> HIDE DEF c5
  <2>7. Same(c6)
    BY <1>0, <2>0, <2>6, CopyKeeps DEF vector_low_contrast
  <2>8. content' = c6 /\ tex' = tex /\ level' = level
    BY <1>2 DEF mark_low_contrast_blocks, c1, c2, c3, c4, c5
  <2>9. QED
    BY <2>7, <2>8 DEF CardInv, Same, Kept, Injective
<1>3. CASE zero
  <2> DEFINE w == IF IsSAD(search) THEN "vector2" ELSE "vector3"
  <2>1. w \in Work
    BY DEF Work
  <2>2. content' = Render(content, tex[w], LevelOf(search), {}) /\ tex' = tex /\ level' = level
    BY <1>3 DEF zero
  <2>3. {} \in Sources /\ LevelOf(search) \in Nat
    BY LevelType, LevelsAreNat DEF Sources
  <2> HIDE DEF w
  <2>4. QED
    BY <1>0, <2>1, <2>2, <2>3, PassKeeps, StepKeeps DEF CardInv
<1>4. CASE Iterate
  <2> DEFINE t == Swapped(tex, "vector2", "vector3")
             l == LevelOf(search)
             inputs == {<<t[RefOf(search)], l>>, <<t[AvgOf(search)], l>>}
                       \cup (IF IsSAD(search) THEN {} ELSE {<<t["vector"], 8>>})
             s == inputs \cup {<<t["vector3"], l>>, Edge}
  <2>1. "vector2" \in Work /\ "vector3" \in Work /\ "vector" \in Work
    BY DEF Work
  <2>2. /\ t \in [Names -> Names] /\ Injective(t)
        /\ t["vector2"] = tex["vector3"]
        /\ \A x \in Shown : t[x] = tex[x]
    BY <2>1, SwapKeeps
  <2>3. l \in Nat /\ RefOf(search) \in Names /\ AvgOf(search) \in Names
    BY LevelType, LevelsAreNat
  <2>4. /\ tex' = t /\ level' = level
        /\ content' = content \/ content' = Render(content, t["vector2"], l, s)
    BY <1>4 DEF Iterate
  <2> HIDE DEF t, l
  <2>5. inputs \in Sources /\ s \in Sources
    BY <2>1, <2>2, <2>3 DEF Sources, Edge
  <2> HIDE DEF inputs, s
  <2>6. Same(Render(content, t["vector2"], l, s))
    BY <1>0, <2>1, <2>2, <2>3, <2>5, PassKeeps
  <2>7. QED
    BY <1>0, <2>1, <2>4, <2>6, StepKeeps DEF CardInv, t
<1>5. CASE Summed
  BY <1>5, LevelType DEF Summed, CardInv, Kept, Injective, loops
<1>6. CASE Halve
  <2> DEFINE t == Swapped(tex, "vector2", "vector3")
  <2>1. "vector2" \in Work /\ "vector3" \in Work
    BY DEF Work
  <2>2. /\ t \in [Names -> Names] /\ Injective(t)
        /\ t["vector2"] = tex["vector3"]
        /\ \A x \in Shown : t[x] = tex[x]
    BY <2>1, SwapKeeps
  <2>3. /\ tex' = t /\ level' = 2 * level /\ level < 8
        /\ content' = Guarded(content, t["vector2"], 2 * level, {<<t["vector3"], level>>, Edge})
    BY <1>6 DEF Halve
  <2>4. level \in Nat /\ 2 * level \in Levels
    BY <2>3 DEF CardInv, Levels
  <2> HIDE DEF t
  <2>5. {<<t["vector3"], level>>, Edge} \in Sources
    BY <2>1, <2>2, <2>4 DEF Sources, Edge
  <2>6. Same(content')
    BY <1>0, <2>1, <2>2, <2>3, <2>4, <2>5, PassKeeps
  <2>7. QED
    BY <2>1, <2>3, <2>4, <2>6, StepKeeps DEF t
<1>7. CASE vector_update
  <2>1. {"vector", "vector2", "vector3"} \subseteq Work
    BY DEF Work
  <2>2. {<<tex["vector"], 8>>, <<tex["vector2"], 8>>} \in Sources
    BY <2>1 DEF Sources, CardInv
  <2>3. /\ tex' = Swapped(tex, "vector", "vector3") /\ level' = level
        /\ content' = Render(content, tex["vector3"], 8,
                             {<<tex["vector"], 8>>, <<tex["vector2"], 8>>})
    BY <1>7 DEF vector_update
  <2>4. Same(content')
    BY <1>0, <2>1, <2>2, <2>3, PassKeeps
  <2>5. QED
    BY <2>1, <2>3, <2>4, StepKeeps DEF CardInv
<1>8. CASE vector_badcheck
  <2>1. "bad" \in Work /\ "vector" \in Work
    BY DEF Work
  <2>2. content' = Render(content, tex["bad"], 8, {<<tex["vector"], 8>>})
        /\ tex' = tex /\ level' = level
    BY <1>8 DEF vector_badcheck, loops
  <2>3. QED
    BY <1>0, <2>1, <2>2, CopyKeeps, StepKeeps, LevelsAreNat DEF CardInv
<1>9. CASE BadDecimate
  <2>1. "bad" \in Work /\ "bad2" \in Work
    BY DEF Work
  <2>2. content' = Guarded(content, tex["bad2"], 8, {<<tex["bad"], 8>>, Edge})
        /\ tex' = Swapped(tex, "bad", "bad2") /\ level' = level
    BY <1>9 DEF BadDecimate, loops
  <2>3. Same(content')
    BY <1>0, <2>1, <2>2, CopyKeeps
  <2>4. QED
    BY <2>1, <2>2, <2>3, StepKeeps DEF CardInv
<1>10. CASE BadRead
  BY <1>10 DEF BadRead, CardInv, Kept, Injective, loops
<1>11. CASE vector_range
  <2>1. "vector" \in Work /\ "vector3" \in Work
    BY DEF Work
  <2>2. content' = Render(content, tex["vector3"], 8, {<<tex["vector"], 8>>})
        /\ tex' = Swapped(tex, "vector", "vector3") /\ level' = level
    BY <1>11 DEF vector_range, loops
  <2>3. Same(content')
    BY <1>0, <2>1, <2>2, CopyKeeps
  <2>4. QED
    BY <2>1, <2>2, <2>3, StepKeeps DEF CardInv
<1>12. QED
  BY <1>1, <1>2, <1>3, <1>4, <1>5, <1>6, <1>7, <1>8, <1>9, <1>10, <1>11
  DEF SearchStep, MotionSearch, BadBlocks

\* A pass over pictures: the result is in tmp's texture, now called dest.
LEMMA PresentKeeps ==
  ASSUME CardInv, NEW dest \in Shown, NEW s \in Sources, Present(dest, s), level' = level
  PROVE  /\ CardInv'
         /\ \A x \in Shown \ {dest} : content'[tex'[x]] = content[tex[x]]
         /\ tex'[dest] = tex["tmp"]
         /\ content' = Render(content, tex["tmp"], 1, s)
<1>1. "tmp" \in Names /\ "tmp" \notin Shown /\ "tmp" \in Work
  BY DEF Names, Shown, Work
<1>3. tex' = Swapped(tex, "tmp", dest) /\ content' = Render(content, tex["tmp"], 1, s)
  BY DEF Present
<1>0. Same(content) /\ 1 \in Nat
  BY DEF CardInv, Same
<1>4. Same(content')
  BY <1>0, <1>1, <1>3, PassKeeps
<1>a. dest \in Names /\ Shown \ {dest} \subseteq Names \ {"tmp", dest}
  BY <1>1, NamesOf
<1>5. /\ tex' \in [Names -> Names] /\ Injective(tex')
      /\ tex'[dest] = tex["tmp"]
      /\ \A x \in Shown \ {dest} : tex'[x] = tex[x]
  BY <1>1, <1>3, <1>a, SwapKeepsNames DEF CardInv
<1>6. Injective(tex)' <=> Injective(tex')
  BY DEF Injective
<1>7. QED
  BY <1>3, <1>4, <1>5, <1>6 DEF CardInv, Same

\* Pictures presented from one or two others.
LEMMA PresentOne ==
  ASSUME CardInv, NEW dest \in Shown, NEW a \in Shown, NEW A,
         NEW s \in {{Full(a)}, {Full(a), Edge}},
         Present(dest, s), level' = level, Holds(a, A)
  PROVE  /\ CardInv' /\ Holds(dest, A)'
         /\ \A x \in Shown \ {dest} : content'[tex'[x]] = content[tex[x]]
<1>1. "tmp" \in Names /\ a \in Names /\ a # "tmp"
  BY DEF Names, Shown
<1>2. tex["tmp"] \in Names /\ tex[a] \in Names /\ tex[a] # tex["tmp"] /\ content \in Contents
  BY <1>1 DEF CardInv, Injective
<1>3. s \in {{<<tex[a], 1>>}, {<<tex[a], 1>>, Edge}}
  BY DEF Full
<1>a. Of(content[tex[a]], A)
  BY DEF Holds
<1>4. s \in Sources /\ Of(Render(content, tex["tmp"], 1, s)[tex["tmp"]], A)
  <2>1. PICK t, u : t = tex["tmp"] /\ u = tex[a]
    OBVIOUS
  <2>2. t \in Names /\ u \in Names /\ u # t /\ Of(content[u], A)
    BY <1>2, <1>a, <2>1
  <2>3. s \in {{<<u, 1>>}, {<<u, 1>>, Edge}}
    BY <1>3, <2>1
  <2>4. s \in Sources /\ Of(Render(content, t, 1, s)[t], A)
    <3>1. CASE s = {<<u, 1>>}
      BY <1>2, <2>2, <3>1, RenderOne
    <3>2. CASE s = {<<u, 1>>, Edge}
      BY <1>2, <2>2, <3>2, RenderOne
    <3>3. QED
      BY <2>3, <3>1, <3>2
  <2>5. QED
    BY <2>1, <2>4
<1>5. /\ CardInv' /\ tex'[dest] = tex["tmp"]
      /\ \A x \in Shown \ {dest} : content'[tex'[x]] = content[tex[x]]
      /\ content' = Render(content, tex["tmp"], 1, s)
  BY <1>4, PresentKeeps
<1>6. QED
  BY <1>4, <1>5 DEF Holds

LEMMA PresentTwo ==
  ASSUME CardInv, NEW dest \in Shown, NEW a \in Shown, NEW b \in Shown,
         NEW A, NEW B,
         Present(dest, {Full(a), Full(b)}), level' = level, Holds(a, A), Holds(b, B)
  PROVE  /\ CardInv' /\ Holds(dest, A \cup B)'
         /\ \A x \in Shown \ {dest} : content'[tex'[x]] = content[tex[x]]
<1>1. "tmp" \in Names /\ a \in Names /\ a # "tmp" /\ b \in Names /\ b # "tmp"
  BY DEF Names, Shown
<1>2. /\ tex["tmp"] \in Names /\ tex[a] \in Names /\ tex[a] # tex["tmp"]
      /\ tex[b] \in Names /\ tex[b] # tex["tmp"] /\ content \in Contents
  BY <1>1 DEF CardInv, Injective
<1> DEFINE s == {<<tex[a], 1>>, <<tex[b], 1>>}
<1>3. Present(dest, s) /\ s \in Sources
  BY <1>2 DEF Full, Sources
<1>4. Of(Render(content, tex["tmp"], 1, s)[tex["tmp"]], A \cup B)
  BY <1>2, RenderTwo DEF Holds
<1> HIDE DEF s
<1>5. /\ CardInv' /\ tex'[dest] = tex["tmp"]
      /\ \A x \in Shown \ {dest} : content'[tex'[x]] = content[tex[x]]
      /\ content' = Render(content, tex["tmp"], 1, s)
  BY <1>3, PresentKeeps
<1>6. QED
  BY <1>4, <1>5 DEF Holds
-----------------------------------------------------------------------------
\* A copy of one picture to another.
LEMMA CopyHolds ==
  ASSUME CardInv, NEW c \in Contents, NEW dest \in Names, NEW src \in Names, dest # src,
         NEW S \in SUBSET Nat, Of(c[tex[src]], S)
  PROVE  /\ copy_frame(c, dest, src) \in Contents
         /\ Of(copy_frame(c, dest, src)[tex[dest]], S)
         /\ \A x \in Names \ {dest} : copy_frame(c, dest, src)[tex[x]] = c[tex[x]]
<1>1. /\ tex[dest] \in Names /\ tex[src] \in Names /\ tex[src] # tex[dest]
      /\ \A x \in Names \ {dest} : tex[x] \in Names \ {tex[dest]}
  BY DEF CardInv, Injective
<1> DEFINE s == {<<tex[src], 1>>}
<1>2. s \in Sources /\ 1 \in Nat
  BY <1>1 DEF Sources
<1>3. copy_frame(c, dest, src) = Guarded(c, tex[dest], 1, {<<tex[src], 1>>})
  BY DEF copy_frame
<1>4. Of(copy_frame(c, dest, src)[tex[dest]], S)
  BY <1>1, <1>3, RenderOne
<1>5. /\ Guarded(c, tex[dest], 1, s) \in Contents
      /\ \A u \in Names \ {tex[dest]} : Guarded(c, tex[dest], 1, s)[u] = c[u]
  <2> HIDE DEF s
  <2> QED
    BY <1>1, <1>2, RenderType
<1>6. QED
  BY <1>1, <1>3, <1>4, <1>5
-----------------------------------------------------------------------------
\* The frames of the scene so far.
LEMMA PastFrames ==
  ASSUME frameNum \in Nat, scene \in 0 .. frameNum
  PROVE  /\ {frameNum} \in SUBSET Nat /\ Past \in SUBSET Nat
         /\ scene .. frameNum \in SUBSET Nat
         /\ {frameNum} \cup Past = scene .. frameNum
         /\ {frameNum} \cup (scene .. frameNum) = scene .. frameNum
         /\ (scene .. frameNum) \cup Past = scene .. frameNum
BY DEF Past

\* The pictures stay as they are while the motion search runs.
LEMMA SearchPictures ==
  ASSUME Inv, SearchStep
  PROVE  Inv'
<1>1. CardInv' /\ Kept
  BY SearchKeeps DEF Inv
<1>2. /\ pc \in Searching /\ pc' \in Searching
      /\ frameNum' = frameNum /\ scene' = scene
  BY DEF SearchStep, Decimate, mark_low_contrast_blocks, MotionSearch, zero, Iterate, Summed,
         Halve, vector_update, NextCandidate, BadBlocks, vector_badcheck, BadDecimate,
         BadRead, vector_range, film, Searching
<1>3. pc' \notin {"load", "copy", "correct", "pass2", "sharpen", "copyback", "unload"}
  BY <1>2 DEF Searching
<1>4. Holds("avg", Past) /\ Holds("avg2", Past) /\ Holds("ref", {frameNum})
  BY <1>2 DEF Inv, PictureInv
<1>5. Holds("avg", Past)' /\ Holds("avg2", Past)' /\ Holds("ref", {frameNum})'
  BY <1>1, <1>2, <1>4 DEF Kept, Shown, Holds, Past
<1>6. QED
  BY <1>1, <1>2, <1>3, <1>5 DEF Inv, PictureInv, OutputBlendsScene

\* The passes that blend the frame into the averages.
LEMMA FilterPictures ==
  ASSUME Inv, Filter
  PROVE  Inv'
<1> DEFINE All == scene .. frameNum
<1>0. /\ CardInv /\ frameNum \in Nat /\ scene \in 0 .. frameNum
      /\ {"avg", "avg2", "ref"} \subseteq Shown
  BY DEF Inv, PictureInv, Shown
<1>1. /\ {frameNum} \in SUBSET Nat /\ Past \in SUBSET Nat /\ All \in SUBSET Nat
      /\ {frameNum} \cup Past = All /\ {frameNum} \cup All = All /\ All \cup Past = All
  BY <1>0, PastFrames
<1>2. CASE move_frame
  <2>1. /\ Present("avg", {Full("avg"), Edge}) /\ level' = level /\ pc = "move" /\ pc' = "scene"
        /\ frameNum' = frameNum /\ scene' = scene
    BY <1>2 DEF move_frame, film, loops
  <2>2. Holds("avg", Past) /\ Holds("avg2", Past) /\ Holds("ref", {frameNum})
    BY <2>1 DEF Inv, PictureInv, Searching
  <2>3. /\ CardInv' /\ Of(content'[tex'["avg"]], Past)
        /\ \A x \in Shown \ {"avg"} : content'[tex'[x]] = content[tex[x]]
    BY <1>0, <1>1, <2>1, <2>2, PresentOne DEF Holds
  <2>4. Holds("avg", Past)' /\ Holds("avg2", Past)' /\ Holds("ref", {frameNum})'
    BY <2>1, <2>2, <2>3 DEF Holds, Shown, Past
  <2>5. QED
    BY <1>0, <2>1, <2>3, <2>4 DEF Inv, PictureInv, OutputBlendsScene, Searching
<1>3. CASE SceneChange
  <2>1. /\ pc = "scene" /\ pc' = "average" /\ tex' = tex /\ content' = content
        /\ level' = level /\ frameNum' = frameNum /\ scene' = scene
    BY <1>3 DEF SceneChange, loops
  <2>2. Holds("avg", Past) /\ Holds("avg2", Past) /\ Holds("ref", {frameNum})
    BY <2>1 DEF Inv, PictureInv, Searching
  <2>3. Holds("avg", Past)' /\ Holds("avg2", Past)' /\ Holds("ref", {frameNum})'
    BY <2>1, <2>2 DEF Holds, Past
  <2>4. CardInv'
    BY <1>0, <2>1 DEF CardInv, Injective
  <2>5. QED
    BY <1>0, <2>1, <2>3, <2>4 DEF Inv, PictureInv, OutputBlendsScene, Searching
<1>4. CASE average_frame
  <2>1. /\ Present("avg", {Full("ref"), Full("avg")}) /\ level' = level /\ pc = "average"
        /\ pc' = "correct" /\ frameNum' = frameNum /\ scene' = scene
    BY <1>4 DEF average_frame, film, loops
  <2>2. Holds("avg", Past) /\ Holds("avg2", Past) /\ Holds("ref", {frameNum})
    BY <2>1 DEF Inv, PictureInv, Searching
  <2>3. /\ CardInv' /\ Of(content'[tex'["avg"]], {frameNum} \cup Past)
        /\ \A x \in Shown \ {"avg"} : content'[tex'[x]] = content[tex[x]]
    BY <1>0, <1>1, <2>1, <2>2, PresentTwo DEF Holds
  <2>4. Holds("avg", All)' /\ Holds("avg2", Past)' /\ Holds("ref", {frameNum})'
    BY <1>1, <2>1, <2>2, <2>3 DEF Holds, Shown, Past
  <2>5. QED
    BY <1>0, <2>1, <2>3, <2>4 DEF Inv, PictureInv, OutputBlendsScene, Searching
<1>5. CASE correct_frame2
  <2>1. /\ Present("avg", {Full("ref"), Full("avg")}) /\ level' = level /\ pc = "correct"
        /\ pc' = "pass2" /\ frameNum' = frameNum /\ scene' = scene
    BY <1>5 DEF correct_frame2, film, loops
  <2>2. Holds("avg", All) /\ Holds("avg2", Past) /\ Holds("ref", {frameNum})
    BY <2>1 DEF Inv, PictureInv
  <2>3. /\ CardInv' /\ Of(content'[tex'["avg"]], {frameNum} \cup All)
        /\ \A x \in Shown \ {"avg"} : content'[tex'[x]] = content[tex[x]]
    BY <1>0, <1>1, <2>1, <2>2, PresentTwo DEF Holds
  <2>4. Holds("avg", All)' /\ Holds("avg2", Past)'
    BY <1>1, <2>1, <2>2, <2>3 DEF Holds, Shown, Past
  <2>5. QED
    BY <1>0, <2>1, <2>3, <2>4 DEF Inv, PictureInv, OutputBlendsScene, Searching
<1>6. CASE denoise_frame_pass2
  <2>1. /\ Present("avg2", {Full("avg"), Full("avg2")}) /\ level' = level /\ pc = "pass2"
        /\ pc' = "sharpen" /\ frameNum' = frameNum /\ scene' = scene
    BY <1>6 DEF denoise_frame_pass2, film, loops
  <2>2. Holds("avg", All) /\ Holds("avg2", Past)
    BY <2>1 DEF Inv, PictureInv
  <2>3. /\ CardInv' /\ Of(content'[tex'["avg2"]], All \cup Past)
        /\ \A x \in Shown \ {"avg2"} : content'[tex'[x]] = content[tex[x]]
    BY <1>0, <1>1, <2>1, <2>2, PresentTwo DEF Holds
  <2>4. Holds("avg", All)' /\ Holds("avg2", All)'
    BY <1>1, <2>1, <2>2, <2>3 DEF Holds, Shown
  <2>5. QED
    BY <1>0, <2>1, <2>3, <2>4 DEF Inv, PictureInv, OutputBlendsScene, Searching
<1>7. CASE sharpen_frame
  <2>1. /\ Present("avg2", {Full("avg2"), Edge}) /\ level' = level /\ pc = "sharpen"
        /\ pc' = "copyback" /\ frameNum' = frameNum /\ scene' = scene
    BY <1>7 DEF sharpen_frame, film, loops
  <2>2. Holds("avg", All) /\ Holds("avg2", All)
    BY <2>1 DEF Inv, PictureInv
  <2>3. /\ CardInv' /\ Of(content'[tex'["avg2"]], All)
        /\ \A x \in Shown \ {"avg2"} : content'[tex'[x]] = content[tex[x]]
    BY <1>0, <1>1, <2>1, <2>2, PresentOne DEF Holds
  <2>4. Holds("avg", All)' /\ Holds("avg2", All)'
    BY <1>1, <2>1, <2>2, <2>3 DEF Holds, Shown
  <2>5. QED
    BY <1>0, <2>1, <2>3, <2>4 DEF Inv, PictureInv, OutputBlendsScene, Searching
<1>8. QED
  BY <1>2, <1>3, <1>4, <1>5, <1>6, <1>7 DEF Filter

\* The planes uploaded, and the frame drawn from them.
LEMMA LoadPictures ==
  ASSUME Inv, loadFrame
  PROVE  Inv'
<1> DEFINE f  == {frameNum + 1}
           g  == IF height % 2 = 0 THEN f ELSE f \cup {Margin}
           c1 == Drawn(content, tex["y"], 1, f)
           c2 == Drawn(c1, tex["u"], 1, g)
           c3 == Drawn(c2, tex["v"], 1, g)
           s  == {<<tex["y"], 1>>, <<tex["u"], 1>>, <<tex["v"], 1>>}
           ty == tex["y"]
           tu == tex["u"]
           tv == tex["v"]
           tf == tex["frame"]
<1>0. /\ CardInv /\ content \in Contents /\ 1 \in Nat
      /\ frameNum \in Nat /\ scene \in 0 .. frameNum
  BY DEF Inv, CardInv, PictureInv
<1>f. /\ f \in SUBSET Origins /\ g \in SUBSET Origins
      /\ f \ {Margin} = f /\ g \ {Margin} = f
  BY <1>0, OriginFacts DEF Margin
<1>1. {"y", "u", "v", "frame", "avg", "avg2"} \subseteq Names
  BY DEF Names
<1>2. /\ ty \in Names /\ tu \in Names /\ tv \in Names /\ tf \in Names
      /\ ty # tu /\ ty # tv /\ tu # tv /\ tf # ty /\ tf # tu /\ tf # tv
      /\ tex["avg"] \in Names \ {ty, tu, tv, tf} /\ tex["avg2"] \in Names \ {ty, tu, tv, tf}
  BY <1>0, <1>1 DEF CardInv, Injective
<1>3. /\ content' = Render(c3, tf, 1, s) /\ tex' = tex /\ level' = level
      /\ pc = "load" /\ pc' = "copy" /\ frameNum' = frameNum /\ scene' = scene
      /\ new_scene' = new_scene
  BY DEF loadFrame, film, loops
<1> HIDE DEF f, g
<1>4. c1 \in Contents /\ Of(c1[ty], f) /\ \A u \in Names \ {ty} : c1[u] = content[u]
  <2>1. c1 = Drawn(content, ty, 1, f)
    OBVIOUS
  <2> HIDE DEF c1, ty
  <2>2. content \in Contents /\ ty \in Names /\ f \in SUBSET Origins /\ f \ {Margin} = f
    BY <1>0, <1>f, <1>2
  <2>3. QED
    BY <2>1, <2>2, DrawnWhole
<1> HIDE DEF c1
<1>5. c2 \in Contents /\ Of(c2[tu], f) /\ \A u \in Names \ {tu} : c2[u] = c1[u]
  <2>1. c2 = Drawn(c1, tu, 1, g)
    OBVIOUS
  <2> HIDE DEF c2, tu
  <2>2. c1 \in Contents /\ tu \in Names /\ g \in SUBSET Origins /\ g \ {Margin} = f
    BY <1>0, <1>f, <1>2, <1>4
  <2>3. QED
    BY <2>1, <2>2, DrawnWhole
<1> HIDE DEF c2
<1>6. c3 \in Contents /\ Of(c3[tv], f) /\ \A u \in Names \ {tv} : c3[u] = c2[u]
  <2>1. c3 = Drawn(c2, tv, 1, g)
    OBVIOUS
  <2> HIDE DEF c3, tv
  <2>2. c2 \in Contents /\ tv \in Names /\ g \in SUBSET Origins /\ g \ {Margin} = f
    BY <1>0, <1>f, <1>2, <1>5
  <2>3. QED
    BY <2>1, <2>2, DrawnWhole
<1> HIDE DEF c3
<1> HIDE DEF ty, tu, tv, tf
<1>7. Of(c3[ty], f) /\ Of(c3[tu], f)
  BY <1>2, <1>4, <1>5, <1>6
<1>8. /\ Sampled(c3, ty, 1) \ {Margin} = f /\ Sampled(c3, tu, 1) \ {Margin} = f
      /\ Sampled(c3, tv, 1) \ {Margin} = f
  BY <1>0, <1>2, <1>6, <1>7, SampledOf
<1>9. s = {<<ty, 1>>, <<tu, 1>>, <<tv, 1>>}
  BY DEF ty, tu, tv
<1> HIDE DEF s
<1>10. s \in Sources /\ \A x \in s : x[1] # tf
  BY <1>2, <1>9 DEF Sources
<1>11. (UNION {Sampled(c3, x[1], x[2]) : x \in s}) \ {Margin} = f
  BY <1>8, <1>9
<1>12. Of(Render(c3, tf, 1, s)[tf], f)
  BY <1>2, <1>6, <1>10, <1>11, RenderOf
<1>13. /\ content' \in Contents /\ Of(content'[tf], f)
       /\ \A u \in Names \ {tf} : content'[u] = c3[u]
  <2>1. /\ c3 \in Contents /\ tf \in Names /\ 1 \in Nat /\ s \in Sources
        /\ content' = Render(c3, tf, 1, s)
    BY <1>0, <1>2, <1>3, <1>6, <1>10
  <2>2. content' \in Contents /\ \A u \in Names \ {tf} : content'[u] = c3[u]
    BY <2>1, RenderType
  <2>3. QED
    BY <1>12, <2>1, <2>2
<1>14. content'[tex["avg"]] = content[tex["avg"]] /\ content'[tex["avg2"]] = content[tex["avg2"]]
  BY <1>2, <1>4, <1>5, <1>6, <1>13
<1>15. CardInv'
  BY <1>0, <1>3, <1>13 DEF CardInv, Injective
<1>16. Holds("frame", {frameNum + 1})'
  BY <1>3, <1>13 DEF Holds, f, tf
<1>17. ~new_scene => Holds("avg", scene .. frameNum) /\ Holds("avg2", scene .. frameNum)
  BY <1>3 DEF Inv, PictureInv
<1>18. ~new_scene' => Holds("avg", scene .. frameNum)' /\ Holds("avg2", scene .. frameNum)'
  BY <1>3, <1>14, <1>17 DEF Holds
<1>19. QED
  BY <1>0, <1>3, <1>15, <1>16, <1>18 DEF Inv, PictureInv, OutputBlendsScene, Searching

\* The frame copied to ref, and to the averages where a scene begins.
LEMMA CopyPictures ==
  ASSUME Inv, CopyInput
  PROVE  Inv'
<1> DEFINE f  == {frameNum + 1}
           c1 == copy_frame(content, "ref", "frame")
           c2 == copy_frame(c1, "avg", "frame")
           c3 == copy_frame(c2, "avg2", "frame")
<1>0. /\ CardInv /\ content \in Contents /\ f \in SUBSET Nat
      /\ frameNum \in Nat /\ scene \in 0 .. frameNum
  BY DEF Inv, CardInv, PictureInv
<1>1. {"ref", "frame", "avg", "avg2"} \subseteq Names
  BY DEF Names
<1>2. /\ content' = IF new_scene THEN c3 ELSE c1
      /\ tex' = tex /\ level' = level /\ pc = "copy" /\ pc' = "contrast"
      /\ frameNum' = frameNum + 1
      /\ scene' = IF new_scene THEN frameNum + 1 ELSE scene
  BY DEF CopyInput, loops
<1>3. Of(content[tex["frame"]], f)
  BY <1>2 DEF Inv, PictureInv, Holds
<1> HIDE DEF f
<1>4. /\ c1 \in Contents /\ Of(c1[tex["ref"]], f)
      /\ \A x \in Names \ {"ref"} : c1[tex[x]] = content[tex[x]]
  BY <1>0, <1>1, <1>3, CopyHolds
<1> HIDE DEF c1
<1>5. /\ c2 \in Contents /\ Of(c2[tex["avg"]], f)
      /\ \A x \in Names \ {"avg"} : c2[tex[x]] = c1[tex[x]]
  <2>1. Of(c1[tex["frame"]], f)
    BY <1>1, <1>3, <1>4
  <2>2. QED
    BY <1>0, <1>1, <1>4, <2>1, CopyHolds
<1> HIDE DEF c2
<1>6. /\ c3 \in Contents /\ Of(c3[tex["avg2"]], f)
      /\ \A x \in Names \ {"avg2"} : c3[tex[x]] = c2[tex[x]]
  <2>1. Of(c2[tex["frame"]], f)
    BY <1>1, <1>3, <1>4, <1>5
  <2>2. QED
    BY <1>0, <1>1, <1>5, <2>1, CopyHolds
<1> HIDE DEF c3
<1>7. CardInv'
  BY <1>0, <1>2, <1>4, <1>6 DEF CardInv, Injective
<1>8. Holds("ref", {frameNum})'
  BY <1>1, <1>2, <1>4, <1>5, <1>6 DEF Holds, f
<1>9. CASE new_scene
  <2>1. Past' = f
    BY <1>0, <1>2, <1>9 DEF Past, f
  <2>2. Holds("avg", Past)' /\ Holds("avg2", Past)'
    BY <1>1, <1>2, <1>5, <1>6, <1>9, <2>1 DEF Holds
  <2>3. QED
    BY <1>0, <1>2, <1>7, <1>8, <1>9, <2>2 DEF Inv, PictureInv, OutputBlendsScene, Searching
<1>10. CASE ~new_scene
  <2>1. Past' = scene .. frameNum
    BY <1>0, <1>2, <1>10 DEF Past
  <2>2. Holds("avg", scene .. frameNum) /\ Holds("avg2", scene .. frameNum)
    BY <1>2, <1>10 DEF Inv, PictureInv
  <2>3. Holds("avg", Past)' /\ Holds("avg2", Past)'
    BY <1>1, <1>2, <1>4, <1>10, <2>1, <2>2 DEF Holds
  <2>4. QED
    BY <1>0, <1>2, <1>7, <1>8, <1>10, <2>3 DEF Inv, PictureInv, OutputBlendsScene, Searching
<1>11. QED
  BY <1>9, <1>10

LEMMA ContrastPictures ==
  ASSUME Inv, contrast_frame
  PROVE  Inv'
<1>0. /\ CardInv /\ frameNum \in Nat /\ scene \in 0 .. frameNum /\ "ref" \in Shown
      /\ {frameNum} \in SUBSET Nat
  BY DEF Inv, PictureInv, Shown
<1>1. /\ pc = "contrast" /\ pc' = "decimate" /\ level' = level
      /\ frameNum' = frameNum /\ scene' = scene
  BY DEF contrast_frame, film, loops
<1>2. Holds("avg", Past) /\ Holds("avg2", Past) /\ Holds("ref", {frameNum})
  BY <1>1 DEF Inv, PictureInv, Searching
<1>3. CardInv' /\ Holds("avg", Past)' /\ Holds("avg2", Past)' /\ Holds("ref", {frameNum})'
  <2>1. CASE tex' = tex /\ content' = content
    BY <1>0, <1>1, <1>2, <2>1 DEF CardInv, Injective, Holds, Past
  <2>2. CASE /\ content' = Render(content, tex["tmp"], 1, {<<tex["ref"], 1>>})
             /\ tex' = Swapped(tex, "tmp", "ref")
    <3>2. Present("ref", {Full("ref")})
      BY <2>2 DEF Present, Full
    <3>3. /\ CardInv' /\ Of(content'[tex'["ref"]], {frameNum})
          /\ \A x \in Shown \ {"ref"} : content'[tex'[x]] = content[tex[x]]
      BY <1>0, <1>1, <1>2, <3>2, PresentOne DEF Holds
    <3>4. QED
      BY <1>1, <1>2, <3>3 DEF Holds, Shown, Past
  <2>3. QED
    BY <2>1, <2>2 DEF contrast_frame
<1>4. QED
  BY <1>0, <1>1, <1>3 DEF Inv, PictureInv, OutputBlendsScene, Searching

\* The second average copied to the frame.
LEMMA OutputPictures ==
  ASSUME Inv, CopyOutput
  PROVE  Inv'
<1> DEFINE All == scene .. frameNum
<1>0. /\ CardInv /\ content \in Contents /\ All \in SUBSET Nat
      /\ frameNum \in Nat /\ scene \in 0 .. frameNum
  BY DEF Inv, CardInv, PictureInv
<1>1. {"frame", "avg", "avg2"} \subseteq Names
  BY DEF Names
<1>2. /\ content' = copy_frame(content, "frame", "avg2") /\ tex' = tex /\ level' = level
      /\ pc = "copyback" /\ pc' = "unload" /\ frameNum' = frameNum /\ scene' = scene
  BY DEF CopyOutput, film, loops
<1>3. Of(content[tex["avg"]], All) /\ Of(content[tex["avg2"]], All)
  BY <1>2 DEF Inv, PictureInv, Holds
<1>4. /\ content' \in Contents /\ Of(content'[tex["frame"]], All)
      /\ \A x \in Names \ {"frame"} : content'[tex[x]] = content[tex[x]]
  BY <1>0, <1>1, <1>2, <1>3, CopyHolds
<1>5. Holds("frame", All)' /\ Holds("avg", All)' /\ Holds("avg2", All)'
  BY <1>1, <1>2, <1>3, <1>4 DEF Holds
<1>6. CardInv'
  BY <1>0, <1>2, <1>4 DEF CardInv, Injective
<1>7. QED
  BY <1>0, <1>2, <1>5, <1>6 DEF Inv, PictureInv, OutputBlendsScene, Searching

LEMMA DrawnFrom ==
  ASSUME NEW c \in Contents, NEW t \in Names, NEW a \in Names, a # t,
         NEW A \in SUBSET Nat, Of(c[a], A)
  PROVE  /\ Render(c, t, 1, {<<a, 1>>}) \in Contents
         /\ Of(Render(c, t, 1, {<<a, 1>>})[t], A)
         /\ \A u \in Names \ {t} : Render(c, t, 1, {<<a, 1>>})[u] = c[u]
<1> DEFINE s == {<<a, 1>>}
<1>1. s \in Sources /\ 1 \in Nat
  BY DEF Sources
<1>2. Of(Render(c, t, 1, s)[t], A)
  BY RenderOne
<1> HIDE DEF s
<1>3. Render(c, t, 1, s) \in Contents /\ \A u \in Names \ {t} : Render(c, t, 1, s)[u] = c[u]
  BY <1>1, RenderType
<1>4. QED
  BY <1>2, <1>3 DEF s

\* The planes drawn from the frame and read back.
LEMMA UnloadPictures ==
  ASSUME Inv, unloadFrame
  PROVE  Inv'
<1> DEFINE All == scene .. frameNum
           ty == tex["y"]
           tu == tex["u"]
           tv == tex["v"]
           tf == tex["frame"]
           f  == {<<tf, 1>>}
           c1 == Render(content, ty, 1, f)
           c2 == Render(c1, tu, 1, f)
           c3 == Render(c2, tv, 1, f)
<1>0. /\ CardInv /\ content \in Contents /\ All \in SUBSET Nat /\ 1 \in Nat
      /\ frameNum \in Nat /\ scene \in 0 .. frameNum
  BY DEF Inv, CardInv, PictureInv
<1>1. {"y", "u", "v", "frame", "avg", "avg2"} \subseteq Names
  BY DEF Names
<1>2. /\ ty \in Names /\ tu \in Names /\ tv \in Names /\ tf \in Names
      /\ ty # tu /\ ty # tv /\ tu # tv /\ tf # ty /\ tf # tu /\ tf # tv
      /\ tex["avg"] \in Names \ {ty, tu, tv} /\ tex["avg2"] \in Names \ {ty, tu, tv}
  BY <1>0, <1>1 DEF CardInv, Injective
<1>3. /\ content' = c3 /\ tex' = tex /\ level' = level
      /\ out' = Sampled(c3, ty, 1) \cup Sampled(c3, tu, 1) \cup Sampled(c3, tv, 1)
      /\ pc = "unload" /\ pc' = "load" /\ frameNum' = frameNum /\ scene' = scene
  BY DEF unloadFrame, loops
<1>4. Of(content[tf], All)
      /\ Of(content[tex["avg"]], All) /\ Of(content[tex["avg2"]], All)
  BY <1>3 DEF Inv, PictureInv, Holds
<1> HIDE DEF All, ty, tu, tv, tf
<1>6. /\ c1 \in Contents /\ Of(c1[ty], All) /\ \A u \in Names \ {ty} : c1[u] = content[u]
  BY <1>0, <1>2, <1>4, DrawnFrom
<1> HIDE DEF c1
<1>7. /\ c2 \in Contents /\ Of(c2[tu], All) /\ \A u \in Names \ {tu} : c2[u] = c1[u]
  <2>1. Of(c1[tf], All)
    BY <1>2, <1>4, <1>6
  <2>2. QED
    BY <1>0, <1>2, <1>6, <2>1, DrawnFrom
<1> HIDE DEF c2
<1>8. /\ c3 \in Contents /\ Of(c3[tv], All) /\ \A u \in Names \ {tv} : c3[u] = c2[u]
  <2>1. Of(c2[tf], All)
    BY <1>2, <1>4, <1>6, <1>7
  <2>2. QED
    BY <1>0, <1>2, <1>7, <2>1, DrawnFrom
<1> HIDE DEF c3
<1>9. Of(c3[ty], All) /\ Of(c3[tu], All)
      /\ Of(c3[tex["avg"]], All) /\ Of(c3[tex["avg2"]], All)
  BY <1>2, <1>4, <1>6, <1>7, <1>8
<1>10. out' \ {Margin} = All
  BY <1>0, <1>2, <1>3, <1>8, <1>9, SampledOf
<1>11. CardInv'
  BY <1>0, <1>3, <1>8 DEF CardInv, Injective
<1>12. Holds("avg", scene .. frameNum)' /\ Holds("avg2", scene .. frameNum)'
  BY <1>3, <1>9 DEF Holds, All
<1>13. out' \ {Margin} = (scene .. frameNum)'
  BY <1>3, <1>10 DEF All
<1>14. QED
  BY <1>0, <1>3, <1>11, <1>12, <1>13 DEF Inv, PictureInv, OutputBlendsScene, Searching
-----------------------------------------------------------------------------
LEMMA InitPictures == Init => Inv
<1> SUFFICES ASSUME Init PROVE Inv
  OBVIOUS
<1>1. content \in Contents /\ level \in Levels
  BY OriginFacts DEF Init, Contents, Levels, Undefined
<1>2. tex \in [Names -> Names] /\ Injective(tex)
  BY DEF Init, Injective
<1>3. QED
  BY <1>1, <1>2 DEF Init, Inv, CardInv, PictureInv, OutputBlendsScene, Searching

LEMMA NextPictures == Inv /\ [Next]_vars => Inv'
<1> SUFFICES ASSUME Inv, [Next]_vars PROVE Inv'
  OBVIOUS
<1>1. CASE UNCHANGED vars
  BY <1>1 DEF vars, film, loops, Inv, CardInv, Injective, PictureInv, Holds, Past,
              OutputBlendsScene
<1>2. CASE Next
  BY <1>2, LoadPictures, CopyPictures, ContrastPictures, SearchPictures, FilterPictures,
     OutputPictures, UnloadPictures DEF Next, SearchStep
<1>3. QED
  BY <1>1, <1>2

\* No two names ever stand for one texture: the passes that swap texture IDs
\* (vector_update, SAD, move_frame and the others of cg_interface.c) lose none.
THEOREM TexturesStayApart == Spec => []NamesDistinct
<1>1. Inv => NamesDistinct
  BY DEF Inv, CardInv, Injective, NamesDistinct
<1>2. QED
  BY <1>1, InitPictures, NextPictures, PTL DEF Spec

\* Every picture unloadFrame returns was blended from all the frames since the
\* last scene change, and from no other frame and no memory never drawn to, but for
\* what move_frame and sharpen_frame take from the rows beyond the picture.
THEOREM OutputIsTheScene == Spec => []OutputBlendsScene
<1>1. Inv => OutputBlendsScene
  BY DEF Inv, PictureInv
<1>2. QED
  BY <1>1, InitPictures, NextPictures, PTL DEF Spec
-----------------------------------------------------------------------------
(* Counting the bad blocks.                                                *)

\* The quotient is the number that gives a remainder from 0 to d - 1.
LEMMA Quotient ==
  ASSUME NEW a \in Int, NEW d \in Nat, d > 0, NEW q \in Int, q * d <= a, a < q * d + d
  PROVE  a \div d = q
<1> DEFINE r == a \div d
<1>1. r \in Int /\ d * r <= a /\ a < d * r + d
  OBVIOUS
<1> HIDE DEF r
<1>2. (q - r) * d = q * d - d * r /\ (r - q) * d = d * r - q * d
  BY <1>1
<1>3. (q - r) * d < d /\ (r - q) * d < d
  BY <1>1, <1>2
<1>4. \A k \in Int : k >= 1 => k * d >= d
  OBVIOUS
<1>5. ~(q - r >= 1) /\ ~(r - q >= 1)
  BY <1>1, <1>3, <1>4
<1> QED
  BY <1>1, <1>5 DEF r

LEMMA HalfFacts ==
  ASSUME NEW w \in Nat, w >= 1
  PROVE  /\ Half(w) \in Nat /\ Half(w) >= 1
         /\ w = 2 * Half(w) \/ w = 2 * Half(w) - 1
         /\ w > 1 => Half(w) < w
BY DEF Half

\* The texels that texel i of the decimated picture samples: 2 i and its
\* neighbour to the right, or, in the far half of an odd row, to the left.
LEMMA Samples ==
  ASSUME NEW w \in Nat, w > 1, NEW i \in 0 .. Half(w) - 1
  PROVE  IF w = 2 * Half(w) \/ 2 * i + 1 <= Half(w)
         THEN Sample(i, 0, w) = 2 * i /\ Sample(i, 1, w) = 2 * i + 1
         ELSE Sample(i, 0, w) = 2 * i - 1 /\ Sample(i, 1, w) = 2 * i
<1>1. PICK h : h = Half(w)
  OBVIOUS
<1>2. h \in Nat /\ h >= 1 /\ (w = 2 * h \/ w = 2 * h - 1) /\ i \in Nat /\ i <= h - 1
  BY <1>1, HalfFacts
<1>3. PICK p : p = h * i
  OBVIOUS
<1>4. p \in Int
  BY <1>2, <1>3
<1>5. /\ (2 * i) * (2 * h) = 4 * p
      /\ (2 * i + 1) * (2 * h) = 4 * p + 2 * h
      /\ (2 * i - 1) * (2 * h) = 4 * p - 2 * h
  BY <1>2, <1>3
<1>6. /\ w = 2 * h => w * (2 * i + 1) = 4 * p + 2 * h
      /\ w = 2 * h - 1 => w * (2 * i + 1) = 4 * p + 2 * h - (2 * i + 1)
  BY <1>2, <1>3
<1>7. /\ Sample(i, 0, w) = ((-1) * h + w * (2 * i + 1)) \div (2 * h)
      /\ Sample(i, 1, w) = (h + w * (2 * i + 1)) \div (2 * h)
  BY <1>1, <1>2 DEF Sample
<1>8. PICK a : a = w * (2 * i + 1)
  OBVIOUS
<1>9. a \in Int /\ (-1) * h + a \in Int /\ h + a \in Int /\ 2 * h \in Nat /\ 2 * h > 0
      /\ 2 * i \in Int /\ 2 * i + 1 \in Int /\ 2 * i - 1 \in Int
  BY <1>2, <1>8
<1> DEFINE low == (-1) * h + a
           high == h + a
           d == 2 * h
<1>q. ASSUME NEW x \in {low, high}, NEW q \in Int, q * d <= x, x < q * d + d
      PROVE  x \div d = q
  <2>1. x \in Int /\ d \in Nat /\ d > 0
    BY <1>9
  <2> HIDE DEF low, high, d
  <2> QED
    BY <1>q, <2>1, Quotient
<1>10. CASE w = 2 * h \/ 2 * i + 1 <= h
  <2>1. /\ 4 * p <= (-1) * h + a /\ (-1) * h + a < 4 * p + 2 * h
        /\ 4 * p + 2 * h <= h + a /\ h + a < 4 * p + 2 * h + 2 * h
    BY <1>2, <1>4, <1>6, <1>8, <1>10
  <2>2. ((-1) * h + a) \div (2 * h) = 2 * i
    <3>1. (2 * i) * d <= low /\ low < (2 * i) * d + d
      BY <1>5, <2>1
    <3> HIDE DEF low, high, d
    <3>2. low \div d = 2 * i
      BY <1>9, <1>q, <3>1
    <3> QED
      BY <3>2 DEF low, d
  <2>3. (h + a) \div (2 * h) = 2 * i + 1
    <3>1. (2 * i + 1) * d <= high /\ high < (2 * i + 1) * d + d
      BY <1>5, <2>1
    <3> HIDE DEF low, high, d
    <3>2. high \div d = 2 * i + 1
      BY <1>9, <1>q, <3>1
    <3> QED
      BY <3>2 DEF high, d
  <2> QED
    BY <1>1, <1>7, <1>8, <1>10, <2>2, <2>3
<1>11. CASE ~(w = 2 * h \/ 2 * i + 1 <= h)
  <2>1. /\ 4 * p - 2 * h <= (-1) * h + a /\ (-1) * h + a < 4 * p - 2 * h + 2 * h
        /\ 4 * p <= h + a /\ h + a < 4 * p + 2 * h
    BY <1>2, <1>4, <1>6, <1>8, <1>11
  <2>2. ((-1) * h + a) \div (2 * h) = 2 * i - 1
    <3>1. (2 * i - 1) * d <= low /\ low < (2 * i - 1) * d + d
      BY <1>5, <2>1
    <3> HIDE DEF low, high, d
    <3>2. low \div d = 2 * i - 1
      BY <1>9, <1>q, <3>1
    <3> QED
      BY <3>2 DEF low, d
  <2>3. (h + a) \div (2 * h) = 2 * i
    <3>1. (2 * i) * d <= high /\ high < (2 * i) * d + d
      BY <1>5, <2>1
    <3> HIDE DEF low, high, d
    <3>2. high \div d = 2 * i
      BY <1>9, <1>q, <3>1
    <3> QED
      BY <3>2 DEF high, d
  <2> QED
    BY <1>1, <1>7, <1>8, <1>11, <2>2, <2>3
<1> QED
  BY <1>10, <1>11

\* Every sample lies in the picture, and every texel is sampled.
LEMMA SamplesCover ==
  ASSUME NEW w \in Nat, w > 1
  PROVE  /\ \A i \in 0 .. Half(w) - 1 : Sample(i, 0, w) \in 0 .. w - 1 /\ Sample(i, 1, w) \in 0 .. w - 1
         /\ \A t \in 0 .. w - 1 : \E i \in 0 .. Half(w) - 1 : Sample(i, 0, w) = t \/ Sample(i, 1, w) = t
<1>1. PICK h : h = Half(w)
  OBVIOUS
<1>2. h \in Nat /\ h >= 1 /\ (w = 2 * h \/ w = 2 * h - 1)
  BY <1>1, HalfFacts
<1>3. ASSUME NEW i \in 0 .. h - 1
      PROVE  Sample(i, 0, w) \in 0 .. w - 1 /\ Sample(i, 1, w) \in 0 .. w - 1
  BY <1>1, <1>2, Samples
<1>4. ASSUME NEW t \in 0 .. w - 1
      PROVE  \E i \in 0 .. h - 1 : Sample(i, 0, w) = t \/ Sample(i, 1, w) = t
  <2>1. PICK i \in Nat : t = 2 * i \/ t = 2 * i + 1
    <3>1. t \div 2 \in Nat /\ (t = 2 * (t \div 2) \/ t = 2 * (t \div 2) + 1)
      BY <1>2
    <3> QED
      BY <3>1
  <2>2. i \in 0 .. h - 1
    BY <1>2, <2>1
  <2>3. CASE t = 2 * i
    BY <1>1, <1>2, <2>2, <2>3, Samples
  <2>4. CASE t = 2 * i + 1 /\ (w = 2 * h \/ 2 * i + 1 <= h)
    BY <1>1, <1>2, <2>2, <2>4, Samples
  <2>5. CASE t = 2 * i + 1 /\ ~(w = 2 * h \/ 2 * i + 1 <= h)
    <3>1. i + 1 \in 0 .. h - 1 /\ ~(2 * (i + 1) + 1 <= h) /\ 2 * (i + 1) - 1 = t
      BY <1>2, <2>1, <2>5
    <3>2. Sample(i + 1, 0, w) = 2 * (i + 1) - 1
      BY <1>1, <1>2, <2>5, <3>1, Samples
    <3> QED
      BY <3>1, <3>2
  <2> QED
    BY <2>1, <2>3, <2>4, <2>5
<1> QED
  BY <1>1, <1>3, <1>4

\* A picture of numbers.
Picture(im) ==
  /\ im.x \in Nat /\ im.x >= 1 /\ im.y \in Nat /\ im.y >= 1
  /\ im.i \in Nat /\ im.factor \in Nat
  /\ im.at \in [Cells(im.x, im.y) -> Nat]

\* The texels of the picture that texel c of the decimated one samples.
Texel(im, c, a, b) == <<Sample(c[1], a, im.x), Sample(c[2], b, im.y)>>

\* The sum of the four.
Sum4(im, c) == im.at[Texel(im, c, 0, 0)] + im.at[Texel(im, c, 0, 1)]
                 + im.at[Texel(im, c, 1, 0)] + im.at[Texel(im, c, 1, 1)]

\* Every texel of d is a quarter of the sum of four of the picture im, but for
\* three quarters at most, and every texel of im is one of the four of some texel.
Averages(im, d) ==
  /\ Picture(d) /\ d.x = Half(im.x) /\ d.y = Half(im.y)
  /\ d.i = im.i + 1 /\ d.factor = 4 * im.factor
  /\ \A c \in Cells(d.x, d.y) :
       /\ \A a, b \in {0, 1} : Texel(im, c, a, b) \in Cells(im.x, im.y)
       /\ Sum4(im, c) \in Nat /\ Sum4(im, c) <= 4 * d.at[c] + 3
       /\ Sum4(im, c) = 0 => d.at[c] = 0
  /\ \A p \in Cells(im.x, im.y) : \E c \in Cells(d.x, d.y) : \E a, b \in {0, 1} :
       Texel(im, c, a, b) = p

\* A quarter, rounded.
LEMMA Quarter ==
  ASSUME NEW x \in Nat, NEW r \in 0 .. 3, NEW q, q = (x + r) \div 4
  PROVE  q \in Nat /\ x <= 4 * q + 3 /\ (x = 0 => q = 0)
OBVIOUS

\* A decimated picture is made of averages.
LEMMA DecimatedAverages ==
  ASSUME NEW im, Picture(im), HasMore(im), NEW r \in 0 .. 3
  PROVE  Averages(im, Decimated(im, r))
<1>0. PICK d : d = Decimated(im, r)
  OBVIOUS
<1>1. PICK w, h, f : w = im.x /\ h = im.y /\ f = im.at
  OBVIOUS
<1>2. w \in Nat /\ w > 1 /\ h \in Nat /\ h > 1 /\ f \in [Cells(w, h) -> Nat]
  BY <1>1 DEF Picture, HasMore
<1> DEFINE q(c, a, b) == Texel(im, c, a, b)
           t(c) == f[q(c, 0, 0)] + f[q(c, 0, 1)] + f[q(c, 1, 0)] + f[q(c, 1, 1)]
           g == [c \in Cells(Half(w), Half(h)) |-> (t(c) + r) \div 4]
<1>3. /\ d.x = Half(w) /\ d.y = Half(h) /\ d.at = g
      /\ d.i = im.i + 1 /\ d.factor = 4 * im.factor
  BY <1>0, <1>1 DEF Decimated, Texel
<1>4. Half(w) \in Nat /\ Half(w) >= 1 /\ Half(h) \in Nat /\ Half(h) >= 1
  BY <1>2, HalfFacts
<1>5. ASSUME NEW c \in Cells(Half(w), Half(h)), NEW a \in {0, 1}, NEW b \in {0, 1}
      PROVE  q(c, a, b) \in Cells(w, h)
  <2>1. c[1] \in 0 .. Half(w) - 1 /\ c[2] \in 0 .. Half(h) - 1
    BY DEF Cells
  <2>2. Sample(c[1], a, w) \in 0 .. w - 1 /\ Sample(c[2], b, h) \in 0 .. h - 1
    BY <1>2, <2>1, SamplesCover
  <2> QED
    BY <1>1, <2>2 DEF Cells, Texel
<1>6. ASSUME NEW p \in Cells(w, h)
      PROVE  \E c \in Cells(Half(w), Half(h)) : \E a, b \in {0, 1} : q(c, a, b) = p
  <2>1. p = <<p[1], p[2]>> /\ p[1] \in 0 .. w - 1 /\ p[2] \in 0 .. h - 1
    BY DEF Cells
  <2>2. PICK i \in 0 .. Half(w) - 1, a \in {0, 1} : Sample(i, a, w) = p[1]
    BY <1>2, <2>1, SamplesCover
  <2>3. PICK j \in 0 .. Half(h) - 1, b \in {0, 1} : Sample(j, b, h) = p[2]
    BY <1>2, <2>1, SamplesCover
  <2>4. PICK c : c = <<i, j>>
    OBVIOUS
  <2>5. c \in Cells(Half(w), Half(h)) /\ c[1] = i /\ c[2] = j
    BY <2>4 DEF Cells
  <2>6. q(c, a, b) = p
    BY <1>1, <2>1, <2>2, <2>3, <2>5 DEF Texel
  <2> QED
    BY <2>5, <2>6
<1> HIDE DEF q
<1>7. ASSUME NEW c \in Cells(Half(w), Half(h))
      PROVE  /\ t(c) \in Nat /\ g[c] \in Nat
             /\ t(c) <= 4 * g[c] + 3 /\ (t(c) = 0 => g[c] = 0)
  <2>1. \A a, b \in {0, 1} : f[q(c, a, b)] \in Nat
    BY <1>2, <1>5
  <2>2. t(c) \in Nat
    BY <2>1
  <2>3. g[c] = (t(c) + r) \div 4
    OBVIOUS
  <2> HIDE DEF t, g
  <2> QED
    BY <2>2, <2>3, Quarter
<1>8. g \in [Cells(Half(w), Half(h)) -> Nat]
  <2>1. g = [c \in Cells(Half(w), Half(h)) |-> g[c]]
    OBVIOUS
  <2> HIDE DEF g, t
  <2> QED
    BY <1>7, <2>1
<1> HIDE DEF g
<1>9. Picture(d)
  BY <1>3, <1>4, <1>8 DEF Picture
<1>t. \A c : t(c) = Sum4(im, c)
  BY <1>1 DEF Sum4, q
<1> HIDE DEF t
<1>10. \A c \in Cells(d.x, d.y) :
         /\ \A a, b \in {0, 1} : q(c, a, b) \in Cells(im.x, im.y)
         /\ t(c) \in Nat /\ t(c) <= 4 * d.at[c] + 3
         /\ t(c) = 0 => d.at[c] = 0
  BY <1>1, <1>3, <1>5, <1>7
<1>11. \A p \in Cells(im.x, im.y) : \E c \in Cells(d.x, d.y) : \E a, b \in {0, 1} : q(c, a, b) = p
  BY <1>1, <1>3, <1>6
<1>12. /\ d.x = Half(im.x) /\ d.y = Half(im.y)
       /\ d.i = im.i + 1 /\ d.factor = 4 * im.factor
  BY <1>1, <1>3
<1>13. \A c \in Cells(d.x, d.y) :
         /\ \A a, b \in {0, 1} : q(c, a, b) \in Cells(im.x, im.y)
         /\ Sum4(im, c) \in Nat /\ Sum4(im, c) <= 4 * d.at[c] + 3
         /\ Sum4(im, c) = 0 => d.at[c] = 0
  BY <1>10, <1>t
<1>14. Averages(im, d)
  BY <1>9, <1>13, <1>11, <1>12, Zenon DEF q, Averages
<1> QED
  BY <1>0, <1>14
-----------------------------------------------------------------------------
(* The number read back.                                                   *)

\* It is the value of the texel without its fraction, or one more.
LEMMA TruncatedFacts ==
  ASSUME NEW v \in Nat, NEW factor \in Nat, NEW b \in Truncated(v, factor)
  PROVE  b \in Nat /\ v * factor <= One * b + (One - 1) /\ (v = 0 => b = 0)
<1>1. PICK p : p = v * factor
  OBVIOUS
<1>2. p \in Nat /\ (v = 0 => p = 0)
  BY <1>1
<1>3. PICK q, m : q = p \div One /\ m = p % One
  OBVIOUS
<1>4. q \in Nat /\ m \in 0 .. One - 1 /\ p = One * q + m /\ One = 65535
  BY <1>2, <1>3 DEF One
<1>5. b = q \/ (m > 0 /\ b = q + 1)
  <2>1. b \in IF m > 0 /\ One - m <= factor \div 256 THEN {q, q + 1} ELSE {q}
    BY <1>1, <1>3 DEF Truncated
  <2> QED
    BY <2>1
<1>a. p = 65535 * q + m /\ q \in Nat /\ m \in Nat
  BY <1>4
<1>7. p = 0 => q = 0 /\ m = 0
  BY <1>a
<1>8. b \in Nat /\ (p = 0 => b = 0)
  BY <1>4, <1>5, <1>7
<1>9. p <= 65535 * b + 65534
  BY <1>4, <1>5, <1>a
<1> QED
  BY <1>1, <1>2, <1>4, <1>8, <1>9
-----------------------------------------------------------------------------
(* The types.                                                              *)

\* While the bad blocks are counted there is a picture to count them in, and a
\* frame is loaded only while there is another one to come.
LoopInv ==
  /\ size \in Sizes /\ contrast \in Contrasts /\ new_scene \in BOOLEAN
  /\ frameNum \in 0 .. MaxFrame /\ (pc = "copy" => frameNum < MaxFrame)
  /\ search \in {"mb44", "mb22", "mb11", "still", "mb00"}
  /\ candidate \in 1 .. 25 /\ n \in 0 .. Side * Side
  /\ bad_vector \in Nat /\ out \in SUBSET Origins
  /\ pc = "count" => Picture(image)

\* The blocks of a picture: at least one in each direction.
LEMMA BlocksOfPicture ==
  ASSUME size \in Sizes
  PROVE  vecWidth \in Nat /\ vecWidth >= 1 /\ vecHeight \in Nat /\ vecHeight >= 1
<1>1. width \in Nat /\ width >= 1 /\ padHeight \in Nat /\ padHeight >= 1
  BY DenoiseAssumption DEF width, height, padHeight
<1>2. \A x \in Nat : x >= 1 => Half(x) \in Nat /\ Half(x) >= 1
  BY HalfFacts
<1> QED
  BY <1>1, <1>2 DEF vecWidth, vecHeight, Blocks

LEMMA LoopInit == Init => LoopInv
<1> SUFFICES ASSUME Init PROVE LoopInv
  OBVIOUS
<1>1. MaxFrame \in Nat /\ Side * Side = 64
  BY DenoiseAssumption DEF Side
<1> QED
  BY <1>1 DEF Init, LoopInv

LEMMA LoopStep == Inv /\ Inv' /\ LoopInv /\ [Next]_vars => LoopInv'
<1> SUFFICES ASSUME Inv, Inv', LoopInv, [Next]_vars PROVE LoopInv'
  OBVIOUS
<1>0. /\ MaxFrame \in Nat /\ frameNum \in 0 .. MaxFrame /\ candidate \in 1 .. 25
      /\ Side * Side = 64 /\ n \in 0 .. 64 /\ (pc = "count" => Picture(image))
  BY DenoiseAssumption DEF LoopInv, Side
<1>1. CASE CopyInput
  <2>1. /\ pc = "copy" /\ pc' = "contrast" /\ frameNum' = frameNum + 1 /\ new_scene' = FALSE
        /\ bad_vector' = 0 /\ UNCHANGED <<size, contrast, out, search, candidate, n>>
    BY <1>1 DEF CopyInput, setup, loops
  <2>2. frameNum' \in 0 .. MaxFrame
    BY <1>0, <2>1 DEF LoopInv
  <2> QED
    BY <1>0, <2>1, <2>2 DEF LoopInv
<1>2. CASE loadFrame
  BY <1>0, <1>2 DEF loadFrame, setup, film, loops, check, LoopInv
<1>3. CASE contrast_frame \/ Decimate \/ vector_range \/ CopyOutput
  BY <1>0, <1>3 DEF contrast_frame, Decimate, vector_range, CopyOutput,
                    setup, film, loops, check, LoopInv
<1>4. CASE mark_low_contrast_blocks
  BY <1>0, <1>4 DEF mark_low_contrast_blocks, setup, film, check, LoopInv
<1>5. CASE zero \/ Iterate \/ Summed \/ Halve
  <2>1. /\ pc' # "copy" /\ pc' # "count"
        /\ n' = 0 \/ n' = n \/ (n < Side * Side /\ n' = n + 1)
        /\ UNCHANGED <<size, contrast, new_scene, frameNum, out, search, candidate, bad_vector>>
    BY <1>5 DEF zero, Iterate, Summed, Halve, setup, film, loops, check
  <2>2. n' \in 0 .. Side * Side
    BY <1>0, <2>1
  <2> QED
    BY <2>1, <2>2 DEF LoopInv
<1>6. CASE vector_update
  <2>1. Candidates(search) \in Nat /\ Candidates(search) <= 25
    BY DEF Candidates, Square, radius
  <2>2. After(search) \in {"mb44", "mb22", "mb11", "still", "mb00"}
    BY DEF After
  <2>3. /\ candidate' \in 1 .. 25 /\ search' \in {"mb44", "mb22", "mb11", "still", "mb00"}
        /\ pc' \in {"clear", "badcheck"}
    BY <1>0, <1>6, <2>1, <2>2 DEF vector_update, NextCandidate, LoopInv
  <2> QED
    BY <1>0, <1>6, <2>3 DEF vector_update, setup, film, check, LoopInv
<1>7. CASE vector_badcheck
  <2>1. PICK b \in BadSets(vecWidth, vecHeight) :
          image' = [x  |-> vecWidth, y |-> vecHeight, i |-> 0, factor |-> 1,
                    at |-> [c \in Cells(vecWidth, vecHeight) |-> IF c \in b THEN One ELSE 0]]
    BY <1>7 DEF vector_badcheck
  <2>2. Picture(image')
    BY <2>1, BlocksOfPicture DEF Picture, LoopInv, One
  <2>3. Picture(image)'
    BY <2>2 DEF Picture
  <2> QED
    BY <1>0, <1>7, <2>3 DEF vector_badcheck, setup, film, loops, LoopInv
<1>8. CASE BadDecimate
  <2>1. PICK r \in Roundings : image' = Decimated(image, r)
    BY <1>8 DEF BadDecimate
  <2>2. Picture(image) /\ HasMore(image) /\ r \in 0 .. 3
    BY <1>0, <1>8, DenoiseAssumption DEF BadDecimate
  <2>3. Picture(image') /\ (Picture(image)' <=> Picture(image'))
    BY <2>1, <2>2, DecimatedAverages DEF Picture, Averages
  <2> QED
    BY <1>0, <1>8, <2>3 DEF BadDecimate, setup, film, loops, LoopInv
<1>9. CASE BadRead
  <2>1. <<0, 0>> \in Cells(image.x, image.y) /\ Picture(image)
    BY <1>0, <1>9 DEF BadRead, Picture, Cells
  <2>2. image.at[<<0, 0>>] \in Nat /\ image.factor \in Nat
    BY <2>1 DEF Picture
  <2>3. PICK b \in Truncated(image.at[<<0, 0>>], image.factor) : bad_vector' = bad_vector + b
    BY <1>9 DEF BadRead
  <2>4. b \in Nat
    BY <2>2, TruncatedFacts
  <2> QED
    BY <1>0, <1>9, <2>3, <2>4 DEF BadRead, setup, film, loops, LoopInv
<1>10. CASE Filter
  <2>1. CASE SceneChange
    <3>1. new_scene' \in BOOLEAN
      <4> DEFINE T == (width * height * scene_thresh) \div 6400
      <4>1. new_scene' = (new_scene \/ bad_vector > T)
        BY <2>1 DEF SceneChange
      <4> HIDE DEF T
      <4>2. (new_scene \/ bad_vector > T) \in BOOLEAN
        OBVIOUS
      <4> QED
        BY <4>1, <4>2, Zenon
    <3>2. /\ bad_vector' = 0 /\ pc' = "average"
          /\ UNCHANGED <<size, contrast, frameNum, out, search, candidate, n>>
      BY <2>1 DEF SceneChange, setup, loops
    <3> QED
      BY <3>1, <3>2 DEF LoopInv
  <2>2. CASE ~SceneChange
    <3>1. /\ pc' \in {"scene", "correct", "pass2", "sharpen", "copyback"}
          /\ UNCHANGED <<size, contrast, new_scene, frameNum, out, search, candidate, n, bad_vector>>
      BY <1>10, <2>2 DEF Filter, move_frame, average_frame, correct_frame2,
                         denoise_frame_pass2, sharpen_frame, setup, film, loops, check
    <3> QED
      BY <3>1 DEF LoopInv
  <2> QED
    BY <2>1, <2>2
<1>11. CASE unloadFrame
  <2>1. /\ out' = Sampled(content', tex["y"], 1) \cup Sampled(content', tex["u"], 1)
                  \cup Sampled(content', tex["v"], 1)
        /\ tex' = tex /\ {"y", "u", "v"} \subseteq Names
    BY <1>11 DEF unloadFrame, Names
  <2>2. /\ content' \in Contents
        /\ tex["y"] \in Names /\ tex["u"] \in Names /\ tex["v"] \in Names /\ 1 \in Nat
    BY <2>1 DEF Inv, CardInv
  <2>3. out' \in SUBSET Origins
    BY <2>1, <2>2, SampledType
  <2> QED
    BY <1>0, <1>11, <2>3 DEF unloadFrame, setup, loops, check, LoopInv
<1>12. CASE UNCHANGED vars
  BY <1>0, <1>12 DEF vars, setup, film, loops, check, LoopInv, Picture
<1> QED
  BY <1>1, <1>2, <1>3, <1>4, <1>5, <1>6, <1>7, <1>8, <1>9, <1>10, <1>11, <1>12
  DEF Next, MotionSearch, BadBlocks

LEMMA LoopHolds == Spec => [](Inv /\ LoopInv)
<1>1. Init => Inv /\ LoopInv
  BY InitPictures, LoopInit
<1>2. Inv /\ LoopInv /\ [Next]_vars => (Inv /\ LoopInv)'
  BY NextPictures, LoopStep
<1> QED
  BY <1>1, <1>2, PTL DEF Spec

\* The search of denoiseFrame stays within its loops, and vector_badcheck samples
\* no texel outside the picture it decimates, whatever the size.
THEOREM DenoiseTypes == Spec => []TypeOK
<1>1. Inv /\ LoopInv => TypeOK
  BY DEF Inv, CardInv, PictureInv, LoopInv, TypeOK, Searching
<1> QED
  BY <1>1, LoopHolds, PTL
-----------------------------------------------------------------------------
(* The number of bad blocks.                                               *)

\* Halved again and again, x and y come down to one at the same time.
HalvedTogether(x, y) ==
  \E R \in SUBSET (Nat \X Nat) :
     /\ <<x, y>> \in R
     /\ \A r \in R : \/ r = <<1, 1>>
                     \/ r[1] > 1 /\ r[2] > 1 /\ <<Half(r[1]), Half(r[2])>> \in R

\* Every size has as many halvings of its blocks across as down.
SquareEnough ==
  \A s \in Sizes : HalvedTogether(Blocks(s[1]), Blocks(s[2] + 64))

LEMMA HalvedFacts ==
  ASSUME NEW x \in Nat, NEW y \in Nat, HalvedTogether(x, y)
  PROVE  IF x > 1 /\ y > 1 THEN HalvedTogether(Half(x), Half(y)) ELSE x = 1 /\ y = 1
<1>1. PICK R \in SUBSET (Nat \X Nat) :
        /\ <<x, y>> \in R
        /\ \A r \in R : \/ r = <<1, 1>>
                        \/ r[1] > 1 /\ r[2] > 1 /\ <<Half(r[1]), Half(r[2])>> \in R
  BY DEF HalvedTogether
<1>2. \/ x = 1 /\ y = 1
      \/ x > 1 /\ y > 1 /\ <<Half(x), Half(y)>> \in R
  BY <1>1
<1>3. <<Half(x), Half(y)>> \in R => HalvedTogether(Half(x), Half(y))
  BY <1>1 DEF HalvedTogether
<1> QED
  BY <1>2, <1>3

\* The sizes of the television standards are: 90 x 68 and 90 x 80 blocks.
LEMMA TelevisionSizes ==
  \A s \in {<<720, 480>>, <<720, 576>>} :
     HalvedTogether(Blocks(s[1]), Blocks(s[2] + 64))
<1> DEFINE R == {<<90, 68>>, <<90, 80>>, <<45, 34>>, <<45, 40>>, <<23, 17>>, <<23, 20>>,
                 <<12, 9>>, <<12, 10>>, <<6, 5>>, <<3, 3>>, <<2, 2>>, <<1, 1>>}
<1>1. R \in SUBSET (Nat \X Nat)
  OBVIOUS
<1>2. /\ Half(90) = 45 /\ Half(68) = 34 /\ Half(80) = 40 /\ Half(45) = 23 /\ Half(34) = 17
      /\ Half(40) = 20 /\ Half(23) = 12 /\ Half(17) = 9 /\ Half(20) = 10 /\ Half(12) = 6
      /\ Half(9) = 5 /\ Half(10) = 5 /\ Half(6) = 3 /\ Half(5) = 3 /\ Half(3) = 2 /\ Half(2) = 1
      /\ Half(720) = 360 /\ Half(360) = 180 /\ Half(180) = 90
      /\ Half(544) = 272 /\ Half(272) = 136 /\ Half(136) = 68
      /\ Half(640) = 320 /\ Half(320) = 160 /\ Half(160) = 80
  BY DEF Half
<1>3. \A r \in R : \/ r = <<1, 1>>
                   \/ r[1] > 1 /\ r[2] > 1 /\ <<Half(r[1]), Half(r[2])>> \in R
  BY <1>2
<1>4. <<90, 68>> \in R /\ <<90, 80>> \in R
  OBVIOUS
<1> HIDE DEF R
<1>5. HalvedTogether(90, 68) /\ HalvedTogether(90, 80)
  BY <1>1, <1>3, <1>4 DEF HalvedTogether
<1>6. 480 + 64 = 544 /\ 576 + 64 = 640
  OBVIOUS
<1>7. Blocks(720) = 90 /\ Blocks(480 + 64) = 68 /\ Blocks(576 + 64) = 80
  BY <1>2, <1>6 DEF Blocks
<1> QED
  BY <1>5, <1>7

\* What i halvings have lost of a texel's blocks, in quarters of 1 / One.
Slack(im) == 3 * (im.i * im.factor)

\* The texel v shows at least m blocks.
Shows(im, v, m) == 4 * (One * m) <= 4 * (im.factor * v) + Slack(im)

\* The picture counts the bad blocks: without any it is zero everywhere, and
\* every bad block belongs to a texel that shows the number of its blocks, but for
\* what rounding loses.
Counts(im) ==
  /\ Picture(im) /\ HalvedTogether(im.x, im.y)
  /\ bad = {} => \A c \in Cells(im.x, im.y) : im.at[c] = 0
  /\ \E g \in [bad -> Cells(im.x, im.y)] :
       \A c \in Cells(im.x, im.y) : Shows(im, im.at[c], Cardinality(Fibre(bad, g, c)))

CountInv ==
  /\ pc \notin {"range", "move", "scene"} => bad_vector = 0
  /\ pc = "count" => IsFiniteSet(bad) /\ Counts(image)
  /\ BadBlocksAreCounted

\* The average of four texels shows the blocks of all four.
LEMMA AverageShows ==
  ASSUME NEW F \in Nat, NEW i \in Nat, NEW v1 \in Nat, NEW v2 \in Nat, NEW v3 \in Nat,
         NEW v4 \in Nat, NEW n1 \in Nat, NEW n2 \in Nat, NEW n3 \in Nat, NEW n4 \in Nat,
         4 * (One * n1) <= 4 * (F * v1) + 3 * (i * F),
         4 * (One * n2) <= 4 * (F * v2) + 3 * (i * F),
         4 * (One * n3) <= 4 * (F * v3) + 3 * (i * F),
         4 * (One * n4) <= 4 * (F * v4) + 3 * (i * F),
         NEW v \in Nat, v1 + v2 + v3 + v4 <= 4 * v + 3,
         NEW m \in Nat, m <= n1 + n2 + n3 + n4
  PROVE  4 * (One * m) <= 4 * ((4 * F) * v) + 3 * ((i + 1) * (4 * F))
<1>1. PICK p1, p2, p3, p4, p, q, x :
        /\ p1 = F * v1 /\ p2 = F * v2 /\ p3 = F * v3 /\ p4 = F * v4
        /\ p = F * v /\ q = i * F /\ x = F * (4 * v + 3)
  OBVIOUS
<1>2. /\ p1 \in Nat /\ p2 \in Nat /\ p3 \in Nat /\ p4 \in Nat /\ p \in Nat /\ q \in Nat
      /\ x = 4 * p + 3 * F
  BY <1>1
<1>3. p1 + p2 + p3 + p4 <= x
  <2>1. PICK d \in Nat : 4 * v + 3 = v1 + v2 + v3 + v4 + d
    <3>1. 4 * v + 3 - (v1 + v2 + v3 + v4) \in Nat
      OBVIOUS
    <3>2. 4 * v + 3 = v1 + v2 + v3 + v4 + (4 * v + 3 - (v1 + v2 + v3 + v4))
      OBVIOUS
    <3> QED
      BY <3>1, <3>2
  <2>2. x = p1 + p2 + p3 + p4 + F * d /\ F * d \in Nat
    BY <1>1, <2>1
  <2>3. PICK z : z = F * d
    OBVIOUS
  <2> QED
    BY <1>2, <2>2, <2>3
<1>4. (4 * F) * v = 4 * p /\ (i + 1) * (4 * F) = 4 * q + 4 * F
  BY <1>1
<1>5. One = 65535
  BY DEF One
<1> QED
  BY <1>1, <1>2, <1>3, <1>4, <1>5

\* A decimation keeps the count.
LEMMA CountsDecimated ==
  ASSUME NEW im, Counts(im), HasMore(im), IsFiniteSet(bad), NEW r \in 0 .. 3
  PROVE  Counts(Decimated(im, r))
<1>1. PICK d, C, D : d = Decimated(im, r) /\ C = Cells(im.x, im.y) /\ D = Cells(d.x, d.y)
  OBVIOUS
<1>2. /\ Picture(im) /\ HalvedTogether(im.x, im.y) /\ im.x \in Nat /\ im.y \in Nat
      /\ im.at \in [C -> Nat] /\ im.i \in Nat /\ im.factor \in Nat
  BY <1>1 DEF Counts, Picture
<1>3. /\ Picture(d) /\ d.x = Half(im.x) /\ d.y = Half(im.y)
      /\ d.i = im.i + 1 /\ d.factor = 4 * im.factor
      /\ \A c \in D :
           /\ \A a, b \in {0, 1} : Texel(im, c, a, b) \in C
           /\ Sum4(im, c) <= 4 * d.at[c] + 3
           /\ Sum4(im, c) = 0 => d.at[c] = 0
      /\ \A p \in C : \E c \in D : \E a, b \in {0, 1} : Texel(im, c, a, b) = p
  <2>1. Averages(im, d)
    BY <1>1, <1>2, DecimatedAverages
  <2> QED
    BY <1>1, <2>1 DEF Averages
<1>4. HalvedTogether(d.x, d.y)
  BY <1>2, <1>3, HalvedFacts DEF HasMore
<1>5. d.at \in [D -> Nat]
  BY <1>1, <1>3 DEF Picture
<1>6. bad = {} => \A c \in D : d.at[c] = 0
  <2> SUFFICES ASSUME bad = {}, NEW c \in D PROVE d.at[c] = 0
    OBVIOUS
  <2>1. \A p \in C : im.at[p] = 0
    BY <1>1 DEF Counts
  <2>2. \A a, b \in {0, 1} : im.at[Texel(im, c, a, b)] = 0
    BY <1>3, <2>1
  <2> QED
    BY <1>3, <2>2 DEF Sum4
<1>7. \E k \in [bad -> D] : \A c \in D : Shows(d, d.at[c], Cardinality(Fibre(bad, k, c)))
  <2>1. PICK g \in [bad -> C] :
          \A p \in C : Shows(im, im.at[p], Cardinality(Fibre(bad, g, p)))
    BY <1>1 DEF Counts
  <2> DEFINE Sampler(a, b) == [c \in D |-> Texel(im, c, a, b)]
  <2>2. PICK count, s1, s2, s3, s4 :
          /\ count = [p \in C |-> Cardinality(Fibre(bad, g, p))]
          /\ s1 = Sampler(0, 0) /\ s2 = Sampler(0, 1) /\ s3 = Sampler(1, 0) /\ s4 = Sampler(1, 1)
    OBVIOUS
  <2>3. PICK e : e = [c \in D |-> count[s1[c]] + count[s2[c]] + count[s3[c]] + count[s4[c]]]
    OBVIOUS
  <2>4. \A c \in D : /\ s1[c] = Texel(im, c, 0, 0) /\ s2[c] = Texel(im, c, 0, 1)
                     /\ s3[c] = Texel(im, c, 1, 0) /\ s4[c] = Texel(im, c, 1, 1)
    BY <2>2
  <2>5. s1 \in [D -> C] /\ s2 \in [D -> C] /\ s3 \in [D -> C] /\ s4 \in [D -> C]
    BY <1>3, <2>2
  <2>6. ASSUME NEW p \in C PROVE count[p] = Cardinality(Fibre(bad, g, p)) /\ count[p] \in Nat
    <3>1. IsFiniteSet(Fibre(bad, g, p))
      BY FS_Subset DEF Fibre
    <3> QED
      BY <2>2, <3>1, FS_CardinalityType
  <2>7. count \in [C -> Nat] /\ e \in [D -> Nat]
        /\ \A c \in D : e[c] = count[s1[c]] + count[s2[c]] + count[s3[c]] + count[s4[c]]
    <3>1. count \in [C -> Nat]
      BY <2>2, <2>6
    <3>2. \A c \in D : count[s1[c]] + count[s2[c]] + count[s3[c]] + count[s4[c]] \in Nat
      BY <2>5, <3>1
    <3> QED
      BY <2>3, <3>1, <3>2
  <2>8. \A p \in C : \E c \in D : p \in {s1[c], s2[c], s3[c], s4[c]}
    BY <1>3, <2>4
  <2>9. Gathers(C, D, count, e, s1, s2, s3, s4)
    BY <2>5, <2>7, <2>8 DEF Gathers
  <2>10. \A p \in C : count[p] >= Cardinality(Fibre(bad, g, p))
    BY <2>6
  <2>11. PICK k \in [bad -> D] : \A c \in D : e[c] >= Cardinality(Fibre(bad, k, c))
    BY <2>9, <2>10, FibresAdd
  <2>12. ASSUME NEW c \in D PROVE Shows(d, d.at[c], Cardinality(Fibre(bad, k, c)))
    <3>1. PICK p1, p2, p3, p4 \in C : p1 = s1[c] /\ p2 = s2[c] /\ p3 = s3[c] /\ p4 = s4[c]
      BY <2>5
    <3>2. PICK F, i, v, m : F = im.factor /\ i = im.i /\ v = d.at[c]
                            /\ m = Cardinality(Fibre(bad, k, c))
      OBVIOUS
    <3>3. ASSUME NEW p \in C
          PROVE  /\ im.at[p] \in Nat /\ count[p] \in Nat
                 /\ 4 * (One * count[p]) <= 4 * (F * im.at[p]) + 3 * (i * F)
      BY <1>2, <2>1, <2>6, <3>2 DEF Shows, Slack
    <3>4. F \in Nat /\ i \in Nat /\ v \in Nat /\ m \in Nat
      <4>1. IsFiniteSet(Fibre(bad, k, c))
        BY FS_Subset DEF Fibre
      <4> QED
        BY <1>2, <1>5, <3>2, <4>1, FS_CardinalityType
    <3>5. im.at[p1] + im.at[p2] + im.at[p3] + im.at[p4] <= 4 * v + 3
      BY <1>3, <2>4, <3>1, <3>2 DEF Sum4
    <3>6. m <= count[p1] + count[p2] + count[p3] + count[p4]
      BY <2>7, <2>11, <3>1, <3>2, <3>4
    <3>7. 4 * (One * m) <= 4 * ((4 * F) * v) + 3 * ((i + 1) * (4 * F))
      BY <3>3, <3>4, <3>5, <3>6, AverageShows
    <3>8. d.factor = 4 * F /\ d.i = i + 1
      BY <1>3, <3>2
    <3> QED
      BY <3>2, <3>7, <3>8 DEF Shows, Slack
  <2> QED
    BY <2>12
<1> QED
  BY <1>1, <1>3, <1>4, <1>6, <1>7 DEF Counts

LEMMA CountInit == Init => CountInv
BY DEF Init, CountInv, BadBlocksAreCounted

\* The number read back is the last texel's, which all bad blocks belong to.
LEMMA CountRead ==
  ASSUME Counts(image), ~HasMore(image), IsFiniteSet(bad), NEW v, v = image.at[<<0, 0>>],
         NEW b \in Truncated(v, image.factor)
  PROVE  /\ b \in Nat /\ Cardinality(bad) <= b + Lost(image.i, image.factor)
         /\ bad = {} => b = 0
<1>1. image.x = 1 /\ image.y = 1
  <2>1. image.x \in Nat /\ image.y \in Nat /\ HalvedTogether(image.x, image.y)
    BY DEF Counts, Picture
  <2> QED
    BY <2>1, HalvedFacts DEF HasMore
<1>2. Cells(1, 1) = {<<0, 0>>}
  BY DEF Cells
<1>3. image.at \in [Cells(1, 1) -> Nat]
  BY <1>1 DEF Counts, Picture
<1>4. PICK g \in [bad -> {<<0, 0>>}] : Shows(image, v, Cardinality(Fibre(bad, g, <<0, 0>>)))
  BY <1>1, <1>2 DEF Counts
<1>5. Fibre(bad, g, <<0, 0>>) = bad
  BY DEF Fibre
<1>6. bad = {} => v = 0
  BY <1>1, <1>2 DEF Counts
<1>7. PICK F, i, m, l : /\ F = image.factor /\ i = image.i /\ m = Cardinality(bad)
                        /\ l = Lost(image.i, image.factor)
  OBVIOUS
<1>8. F \in Nat /\ i \in Nat /\ v \in Nat /\ m \in Nat
  BY <1>1, <1>2, <1>3, <1>7, FS_CardinalityType DEF Counts, Picture
<1>9. b \in Nat /\ v * F <= One * b + (One - 1) /\ (v = 0 => b = 0)
  BY <1>7, <1>8, TruncatedFacts
<1>10. 4 * (One * m) <= 4 * (F * v) + 3 * (i * F)
  BY <1>4, <1>5, <1>7 DEF Shows, Slack
<1>11. PICK p, q : p = F * v /\ q = i * F
  OBVIOUS
<1>12. p \in Nat /\ q \in Nat /\ v * F = p /\ 3 * i * F = 3 * q
  BY <1>8, <1>11
<1>13. l = (3 * q + 4 * 65534) \div 262140
  BY <1>7, <1>12 DEF Lost, One
<1>14. l \in Nat /\ 3 * q + 4 * 65534 < 262140 * l + 262140
  BY <1>12, <1>13
<1>15. m <= b + l
  <2>1. 4 * (65535 * m) <= 4 * p + 3 * q /\ p <= 65535 * b + 65534
    BY <1>9, <1>10, <1>11, <1>12 DEF One
  <2> QED
    BY <1>8, <1>9, <1>12, <1>14, <2>1
<1> QED
  BY <1>6, <1>7, <1>9, <1>15

LEMMA CountStep ==
  ASSUME SquareEnough
  PROVE  LoopInv /\ CountInv /\ [Next]_vars => CountInv'
<1> SUFFICES ASSUME LoopInv, CountInv, [Next]_vars PROVE CountInv'
  OBVIOUS
<1>0. size \in Sizes
  BY DEF LoopInv
<1>1. CASE vector_badcheck
  <2>1. /\ pc' = "count" /\ pc = "badcheck" /\ bad_vector' = bad_vector
        /\ bad' \in BadSets(vecWidth, vecHeight)
        /\ image' = [x  |-> vecWidth, y |-> vecHeight, i |-> 0, factor |-> 1,
                     at |-> [c \in Cells(vecWidth, vecHeight) |-> IF c \in bad' THEN One ELSE 0]]
    BY <1>1 DEF vector_badcheck
  <2>2. PICK a, b, B, im : a = vecWidth /\ b = vecHeight /\ B = bad' /\ im = image'
    OBVIOUS
  <2>3. a \in Nat /\ a >= 1 /\ b \in Nat /\ b >= 1
    BY <1>0, <2>2, BlocksOfPicture
  <2>4. B \subseteq Cells(a, b) /\ HalvedTogether(a, b)
    <3>1. a = Blocks(size[1]) /\ b = Blocks(size[2] + 64)
      BY <2>2 DEF vecWidth, vecHeight, width, height, padHeight
    <3>2. B \in BadSets(a, b)
      BY <2>1, <2>2
    <3> QED
      BY <1>0, <3>1, <3>2, BadSetsAssumption DEF SquareEnough
  <2>5. /\ im.x = a /\ im.y = b /\ im.i = 0 /\ im.factor = 1
        /\ im.at \in [Cells(a, b) -> Nat]
        /\ \A c \in Cells(a, b) : im.at[c] = IF c \in B THEN One ELSE 0
    BY <2>1, <2>2 DEF One
  <2>6. IsFiniteSet(B)
    <3>1. IsFiniteSet(0 .. a - 1) /\ IsFiniteSet(0 .. b - 1)
      BY <2>3, FS_Interval
    <3>2. IsFiniteSet(Cells(a, b))
      BY <3>1, FS_Product DEF Cells
    <3> QED
      BY <2>4, <3>2, FS_Subset
  <2>7. PICK g : g = [x \in B |-> x]
    OBVIOUS
  <2>8. g \in [B -> Cells(a, b)] /\ \A x \in B : g[x] = x
    BY <2>4, <2>7
  <2>9. ASSUME NEW c \in Cells(a, b) PROVE Shows(im, im.at[c], Cardinality(Fibre(B, g, c)))
    <3>0. Slack(im) = 0 /\ \A v \in Nat : im.factor * v = v
      BY <2>5 DEF Slack
    <3>1. CASE c \in B
      <4>1. Fibre(B, g, c) = {c}
        BY <2>8, <3>1 DEF Fibre
      <4>2. Cardinality(Fibre(B, g, c)) = 1
        BY <4>1, FS_Singleton
      <4> QED
        BY <2>5, <3>0, <3>1, <4>2 DEF Shows, One
    <3>2. CASE c \notin B
      <4>1. Fibre(B, g, c) = {}
        BY <2>8, <3>2 DEF Fibre
      <4> QED
        BY <2>5, <3>0, <3>2, <4>1, FS_EmptySet DEF Shows, One
    <3> QED
      BY <3>1, <3>2
  <2>10. /\ Picture(im) /\ HalvedTogether(im.x, im.y)
         /\ B = {} => \A c \in Cells(im.x, im.y) : im.at[c] = 0
         /\ \E k \in [B -> Cells(im.x, im.y)] :
              \A c \in Cells(im.x, im.y) : Shows(im, im.at[c], Cardinality(Fibre(B, k, c)))
    BY <2>3, <2>4, <2>5, <2>8, <2>9 DEF Picture
  <2>11. Counts(image)'
    BY <2>2, <2>10 DEF Counts, Picture, Shows, Slack
  <2> QED
    BY <2>1, <2>2, <2>6, <2>11 DEF CountInv, BadBlocksAreCounted
<1>2. CASE BadDecimate
  <2>1. /\ pc = "count" /\ pc' = "count" /\ HasMore(image)
        /\ UNCHANGED <<bad, bad_vector>>
    BY <1>2 DEF BadDecimate
  <2>2. PICK r \in 0 .. 3 : image' = Decimated(image, r)
    BY <1>2, DenoiseAssumption DEF BadDecimate
  <2>3. Counts(image')
    BY <2>1, <2>2, CountsDecimated DEF CountInv
  <2>4. Counts(image)'
    BY <2>1, <2>3 DEF Counts, Picture, Shows, Slack
  <2> QED
    BY <2>1, <2>4 DEF CountInv, BadBlocksAreCounted
<1>3. CASE BadRead
  <2>1. /\ pc = "count" /\ pc' = "range" /\ ~HasMore(image)
        /\ bad' = bad /\ image' = image
    BY <1>3 DEF BadRead
  <2>2. bad_vector = 0 /\ Counts(image) /\ IsFiniteSet(bad)
    BY <2>1 DEF CountInv
  <2>3. PICK v : v = image.at[<<0, 0>>]
    OBVIOUS
  <2>4. PICK b \in Truncated(v, image.factor) : bad_vector' = bad_vector + b
    BY <1>3, <2>3 DEF BadRead
  <2>5. /\ b \in Nat /\ Cardinality(bad) <= b + Lost(image.i, image.factor)
        /\ bad = {} => b = 0
    BY <2>1, <2>2, <2>3, CountRead
  <2>6. bad_vector' = b
    BY <2>2, <2>4, <2>5
  <2> QED
    BY <2>1, <2>5, <2>6 DEF CountInv, BadBlocksAreCounted, Lost
<1>4. CASE vector_range \/ move_frame
  BY <1>4 DEF vector_range, move_frame, check, CountInv, BadBlocksAreCounted
<1>5. CASE CopyInput \/ SceneChange
  BY <1>5 DEF CopyInput, SceneChange, CountInv, BadBlocksAreCounted
<1>6. CASE \/ loadFrame \/ contrast_frame \/ Decimate \/ mark_low_contrast_blocks
           \/ MotionSearch \/ average_frame \/ correct_frame2 \/ denoise_frame_pass2
           \/ sharpen_frame \/ CopyOutput \/ unloadFrame
  <2>1. /\ bad_vector' = bad_vector /\ pc \notin {"range", "move", "scene"}
        /\ pc' \notin {"range", "move", "scene", "count"}
    <3>1. CASE MotionSearch
      BY <3>1 DEF MotionSearch, zero, Iterate, Summed, Halve, vector_update, NextCandidate, check
    <3> QED
      BY <1>6, <3>1 DEF loadFrame, contrast_frame, Decimate, mark_low_contrast_blocks,
         average_frame, correct_frame2, denoise_frame_pass2, sharpen_frame, CopyOutput,
         unloadFrame, check
  <2> QED
    BY <2>1 DEF CountInv, BadBlocksAreCounted
<1>7. CASE UNCHANGED vars
  <2>1. UNCHANGED <<pc, image, bad, bad_vector>>
    BY <1>7 DEF vars, check
  <2> QED
    BY <2>1 DEF CountInv, BadBlocksAreCounted, Counts, Picture
<1> QED
  BY <1>1, <1>2, <1>3, <1>4, <1>5, <1>6, <1>7 DEF Next, BadBlocks, Filter

\* vector_badcheck counts every bad block but the few that 16-bit texels lose, and
\* none where there is none, for pictures of any size whose blocks are halved to
\* one across and down in the same number of steps, and however the card rounds.
THEOREM EveryBadBlockCounts ==
  ASSUME SquareEnough
  PROVE  Spec => []BadBlocksAreCounted
<1>1. Init => Inv /\ LoopInv /\ CountInv
  BY InitPictures, LoopInit, CountInit
<1>2. Inv /\ LoopInv /\ CountInv /\ [Next]_vars => (Inv /\ LoopInv /\ CountInv)'
  BY NextPictures, LoopStep, CountStep
<1>3. CountInv => BadBlocksAreCounted
  BY DEF CountInv
<1> QED
  BY <1>1, <1>2, <1>3, PTL DEF Spec
=============================================================================
