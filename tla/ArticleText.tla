---------------------------- MODULE ArticleText ----------------------------
(***************************************************************************)
(* The text of articles (store.go) and how it travels (server.go).  A line *)
(* is the number of dots it begins with, the word it goes on with and the  *)
(* rest; a command, a header and a line of a body are all lines, and only  *)
(* the reader decides which.  Line ends are not spelled: every line stored *)
(* or written here has its own.                                            *)
(***************************************************************************)
EXTENDS Naturals, Sequences, FiniteSetsExt, SequencesExt

Line(dots, word, rest) == [dots |-> dots, word |-> word, rest |-> rest]

Blank      == Line(0, "", <<>>)
Terminator == Line(1, "", <<>>)

IsMessageID(line) == line.dots = 0 /\ line.word = "Message-ID"

(***************************************************************************)
(* Stuffing.  writeDotStuffed and, line by line, dotStuff put a dot before *)
(* each line that begins with one; readPostedArticle takes one dot of two  *)
(* away.                                                                   *)
(***************************************************************************)
\* Mutations: no dot is added, or none is taken away.
stuffNothing(line)   == line
unstuffNothing(line) == line

dotStuff(line) == IF line.dots > 0 THEN [line EXCEPT !.dots = @ + 1] ELSE line
unstuff(line) == IF line.dots > 1 THEN [line EXCEPT !.dots = @ - 1] ELSE line

writeDotStuffed(lines) ==
  Append([i \in DOMAIN lines |-> dotStuff(lines[i])], Terminator)

(***************************************************************************)
(* The ID a posted article is stored under: that of the first Message-ID   *)
(* line of the header block, which ends at the first blank line; <<>> if   *)
(* there is none or if it is empty.                                        *)
(***************************************************************************)
header(article) ==
  LET blank == SelectInSeq(article, LAMBDA line : line = Blank)
  IN  IF blank = 0 THEN article ELSE SubSeq(article, 1, blank - 1)

messageIDFromHeaders(lines) ==
  LET first == SelectInSeq(lines, IsMessageID)
  IN  IF first = 0 THEN <<>> ELSE lines[first].rest

(***************************************************************************)
(* Where the header block of a stored article ends: at the first blank     *)
(* line that has a line before it, if that block looks like headers and    *)
(* the article does not begin with a yEnc marker.  0 is for no block.      *)
(***************************************************************************)
looksLikeHeaders(block) ==
  \E i \in DOMAIN block :
     /\ block[i].dots = 0
     /\ block[i].word \in {"Path", "Message-ID", "Subject", "From", "Date"}

IsYEnc(article) ==
  LET first == SelectInSeq(article, LAMBDA line : line # Blank)
  IN  first # 0 /\ article[first].dots = 0 /\ article[first].word = "=ybegin"

Separator(article) ==
  LET blanks == {i \in 2..Len(article) : article[i] = Blank}
  IN  IF \/ IsYEnc(article)
         \/ blanks = {}
         \/ ~looksLikeHeaders(SubSeq(article, 1, Min(blanks) - 1))
      THEN 0
      ELSE Min(blanks)

articleBody(article) ==
  IF Separator(article) = 0
  THEN article
  ELSE SubSeq(article, Separator(article) + 1, Len(article))

articleHeaders(id, article) ==
  IF Separator(article) = 0
  THEN <<Line(0, "Message-ID", <<id>>)>>
  ELSE SubSeq(article, 1, Separator(article) - 1)
=============================================================================
