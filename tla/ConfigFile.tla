----------------------------- MODULE ConfigFile -----------------------------
(***************************************************************************)
(* readConfigFile of main.c: from the lines of /etc/gputrans.conf to the   *)
(* table of cards.  A line is "blank" (empty or starting with #), "spaces" *)
(* (nothing but white space once a comment is cut off), or the display it  *)
(* names.  The buffer keeps the line of the last fgets that read one, and  *)
(* the code cuts comment and white space off in the buffer itself.         *)
(***************************************************************************)
EXTENDS Integers, Sequences, FiniteSets

CONSTANTS
  Displays,        \* display names
  MaxLines,        \* bound on the lines of the file
  MAX_NUM_CARDS,   \* entries of cardInfo
  Garbage          \* what an uninitialised buffer may look like to the parser

Ignored == {"blank", "spaces"}

ASSUME ConfigAssumption ==
  /\ MaxLines \in Nat
  /\ MAX_NUM_CARDS \in Nat \ {0}
  /\ Displays \cap Ignored = {}

VARIABLES
  file, newline,   \* the lines, and whether the last ends in a newline
  pos, eof,        \* lines read, and the end-of-file flag of the stream
  line,            \* the buffer
  numChildren,     \* index of the last card
  cardInfo,        \* the displays stored, in order of their index
  done

vars == <<file, newline, pos, eof, line, numChildren, cardInfo, done>>

Lines == Displays \cup Ignored

TypeOK ==
  /\ file \in Seq(Lines) /\ newline \in BOOLEAN
  /\ pos \in 0 .. Len(file) /\ eof \in BOOLEAN
  /\ line \in Lines \cup Garbage
  /\ numChildren \in -1 .. MAX_NUM_CARDS
  /\ Len(cardInfo) = numChildren + 1
  /\ done \in BOOLEAN

Init ==
  /\ file \in UNION {[1 .. n -> Lines] : n \in 0 .. MaxLines}
  /\ newline \in BOOLEAN
  /\ pos = 0 /\ eof = FALSE
  /\ line \in Garbage
  /\ numChildren = -1 /\ cardInfo = <<>>
  /\ done = FALSE

More == ~eof /\ numChildren < MAX_NUM_CARDS

\* fgets: the next line, or nothing and an unchanged buffer.  The stream is at
\* its end once a read has come up against it.
Fgets ==
  IF pos < Len(file)
  THEN /\ line' = file[pos + 1]
       /\ pos' = pos + 1
       /\ eof' = (pos' = Len(file) /\ ~newline)
  ELSE /\ eof' = TRUE
       /\ UNCHANGED <<line, pos>>

\* Mutant: the loop ends as soon as the end of the file has been seen.
ReadUnlessEof ==
  /\ ~done /\ More
  /\ Fgets
  /\ IF line' \in Ignored \/ eof'
     THEN UNCHANGED <<numChildren, cardInfo>>
     ELSE /\ numChildren' = numChildren + 1
          /\ cardInfo' = Append(cardInfo, line')
  /\ UNCHANGED <<file, newline, done>>

\* Mutant: the index is never checked against the table.
ReadFurther ==
  /\ ~done /\ (More \/ ~eof)
  /\ Fgets
  /\ IF line' \in Ignored
     THEN UNCHANGED <<numChildren, cardInfo>>
     ELSE /\ numChildren' = numChildren + 1
          /\ cardInfo' = Append(cardInfo, line')
  /\ UNCHANGED <<file, newline, done>>

\* One turn of the loop.
ReadLine ==
  /\ ~done /\ More
  /\ Fgets
  /\ IF line' \in Ignored
     THEN UNCHANGED <<numChildren, cardInfo>>
     ELSE /\ numChildren' = numChildren + 1
          /\ cardInfo' = Append(cardInfo, line')
  /\ UNCHANGED <<file, newline, done>>

Close ==
  /\ ~done /\ ~More
  /\ done' = TRUE
  /\ UNCHANGED <<file, newline, pos, eof, line, numChildren, cardInfo>>

Next == ReadLine \/ Close

Spec == Init /\ [][Next]_vars
-----------------------------------------------------------------------------
\* The lines that name a display, and how many of them there are up to a line.
Named     == {p \in 1 .. Len(file) : file[p] \notin Ignored}
UpTo(p)   == {q \in Named : q <= p}
Rank(p)   == Cardinality(UpTo(p))

\* The n-th card is the n-th display, as far as there are cards.
InOrder == \A p \in Named : Rank(p) <= Len(cardInfo) => cardInfo[Rank(p)] = file[p]

\* No listed display is lost or out of order, unless the table is full; the
\* file's last line, with or without a newline, counts.
ListedCardsAreRead ==
  done => /\ InOrder
          /\ Len(cardInfo) >= Cardinality(Named) \/ Len(cardInfo) > MAX_NUM_CARDS

\* "Format:  one X display (or "CPU") per line": a card for each line that
\* names a display, and no other, as far as the table goes.
OneCardPerLine == done => InOrder /\ Len(cardInfo) <= Cardinality(Named)

\* The table is declared as cardInfo[MAX_NUM_CARDS].
CardsFitTable == numChildren < MAX_NUM_CARDS
=============================================================================
