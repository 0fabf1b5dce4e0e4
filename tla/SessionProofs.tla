--------------------------- MODULE SessionProofs ---------------------------
(***************************************************************************)
(* What a session owes its client, for any commands, articles, message     *)
(* IDs, configurations and windows: commands and articles keep apart on    *)
(* the stream, what is stored is what was posted, logins and               *)
(* re-authentication bind, and control channels are not counted.           *)
(***************************************************************************)
EXTENDS Session, SequenceTheorems, Induction

(***************************************************************************)
(* The stream, as a sequence of parts.                                     *)
(***************************************************************************)
Texts == UNION {{article[i] : i \in 1..Len(article)} : article \in Articles}
Sent  == UNION {{Stuffed(article)[i] : i \in 1..Len(article) + 1} : article \in Articles}
Lines == Commands \cup Sent \cup {Blank}
Parts == [as : {"command", "article", "rest"}, line : Lines]
Received == {unstuff(line) : line \in Lines}

\* An article as it is sent: every line can be read back, and only the one
\* behind the last is the terminator.
LEMMA StuffedText ==
  ASSUME NEW article \in Articles
  PROVE  /\ Len(article) \in Nat /\ article \in Seq(Texts)
         /\ Len(Stuffed(article)) = Len(article) + 1
         /\ Stuffed(article)[Len(article) + 1] = Terminator
         /\ \A i \in 1..Len(article) :
              /\ Stuffed(article)[i] # Terminator
              /\ unstuff(Stuffed(article)[i]) = article[i]
         /\ \A i \in 1..Len(article) + 1 : Stuffed(article)[i] \in Lines
<1> DEFINE stuff(i) == IF article[i].dots = 0 THEN article[i]
                       ELSE Line(article[i].dots + 1, article[i].word, article[i].rest)
           stuffed  == [i \in 1..Len(article) |-> stuff(i)]
           all      == {stuff(i) : i \in 1..Len(article)} \cup {Terminator}
<1>1. Len(article) \in Nat /\ article = [i \in 1..Len(article) |-> article[i]]
  BY ArticlesAssumption
<1>2. article \in Seq(Texts)
  <2>1. \A i \in 1..Len(article) : article[i] \in Texts
    BY DEF Texts
  <2>2. [i \in 1..Len(article) |-> article[i]] \in Seq(Texts)
    BY <1>1, <2>1, IsASeq
  <2> QED
    BY <1>1, <2>2
<1>3. DOMAIN article = 1..Len(article)
  BY <1>1
<1>4. stuffed \in Seq(all) /\ Len(stuffed) = Len(article)
  <2>1. \A i \in 1..Len(article) : stuff(i) \in all
    OBVIOUS
  <2>2. stuffed \in Seq(all)
    BY <1>1, <2>1, IsASeq
  <2> HIDE DEF all, stuff
  <2> QED
    BY <1>1, <2>2
<1>5. Stuffed(article) = Append(stuffed, Terminator)
  BY <1>3 DEF Stuffed
<1>6. /\ Len(Stuffed(article)) = Len(article) + 1
      /\ Stuffed(article)[Len(article) + 1] = Terminator
      /\ \A i \in 1..Len(article) : Stuffed(article)[i] = stuff(i)
  <2>1. Terminator \in all
    OBVIOUS
  <2> HIDE DEF all, stuff
  <2>2. \A i \in 1..Len(article) : stuffed[i] = stuff(i)
    OBVIOUS
  <2> HIDE DEF stuffed
  <2> QED
    BY <1>1, <1>4, <1>5, <2>1, <2>2
<1>7. ASSUME NEW i \in 1..Len(article)
      PROVE  stuff(i) # Terminator /\ unstuff(stuff(i)) = article[i]
  <2>1. /\ article[i].dots \in Nat
        /\ article[i] = Line(article[i].dots, article[i].word, article[i].rest)
    BY ArticlesAssumption
  <2>2. PICK d, w, r : d \in Nat /\ article[i] = [dots |-> d, word |-> w, rest |-> r]
    BY <2>1 DEF Line
  <2> DEFINE t == stuff(i)
  <2>3. Terminator.dots = 1
    BY DEF Terminator, Line
  <2>4. CASE d = 0
    <3>1. t = article[i] /\ t.dots = 0
      BY <2>2, <2>4
    <3> HIDE DEF t
    <3> QED
      BY <2>3, <3>1 DEF unstuff
  <2>5. CASE d > 0
    <3>1. t = [dots |-> d + 1, word |-> w, rest |-> r]
      BY <2>2, <2>5 DEF Line
    <3> HIDE DEF t
    <3>2. t.dots > 1 /\ t.dots # 1
      BY <2>2, <2>5, <3>1
    <3>3. unstuff(t) = [dots |-> d, word |-> w, rest |-> r]
      BY <2>2, <3>1, <3>2 DEF unstuff
    <3>4. t # Terminator /\ unstuff(t) = article[i]
      BY <2>2, <2>3, <3>2, <3>3
    <3> QED
      BY <3>4 DEF t
  <2> QED
    BY <2>2, <2>4, <2>5
<1>8. \A i \in 1..Len(article) + 1 : Stuffed(article)[i] \in Lines
  BY DEF Lines, Sent
<1> HIDE DEF stuff, all, stuffed
<1> QED
  BY <1>1, <1>2, <1>6, <1>7, <1>8

LEMMA MinIs ==
  ASSUME NEW R, R \subseteq Int, NEW least \in R, \A other \in R : least <= other
  PROVE  Min(R) = least
<1>1. Min(R) \in R /\ \A other \in R : Min(R) <= other
  BY Zenon DEF Min
<1>2. Min(R) <= least /\ least <= Min(R) /\ Min(R) \in Int /\ least \in Int
  BY <1>1
<1> HIDE DEF Min
<1> QED
  BY <1>2

\* A search among the numbers up to n finds the first one.
LEMMA MinIsFirst ==
  ASSUME NEW n \in Nat, NEW R, R \subseteq 1..n, R # {}
  PROVE  Min(R) \in R /\ \A i \in 1..Min(R) - 1 : i \notin R
<1>1. R \subseteq Int /\ IsFiniteSet(R)
  <2>1. IsFiniteSet(1..n) /\ R \in SUBSET (1..n)
    BY FS_Interval
  <2>2. IsFiniteSet(R)
    BY <2>1, FS_Subset
  <2> QED
    BY <2>2
<1>2. PICK least \in R : \A other \in R : least <= other
  BY <1>1, LeastElement
<1>3. Min(R) = least
  BY <1>1, <1>2, MinIs
<1> QED
  BY <1>1, <1>2, <1>3

\* The body of an article has a number of lines.
IsSequence(lines) == Len(lines) \in Nat /\ lines = [i \in 1..Len(lines) |-> lines[i]]

LEMMA BodyLength ==
  ASSUME NEW article, IsSequence(article)
  PROVE  Len(articleBody(article)) \in Nat
<1> DEFINE n      == Len(article)
           all    == {article[i] : i \in 1..n}
           blanks == {i \in 2..n : article[i] = Blank}
           from   == Separator(article)
<1>1. n \in Nat /\ article \in Seq(all)
  <2>1. n \in Nat /\ article = [i \in 1..n |-> article[i]]
    BY DEF IsSequence
  <2>2. \A i \in 1..n : article[i] \in all
    OBVIOUS
  <2>3. [i \in 1..n |-> article[i]] \in Seq(all)
    BY <2>1, <2>2, IsASeq
  <2> QED
    BY <2>1, <2>3
<1>2. from \in 0..n
  <2>1. blanks \subseteq 1..n
    OBVIOUS
  <2>2. blanks # {} => Min(blanks) \in blanks
    <3> HIDE DEF blanks
    <3> QED
      BY <1>1, <2>1, MinIsFirst
  <2>3. from = 0 \/ (blanks # {} /\ from = Min(blanks))
    BY DEF Separator
  <2>4. CASE from = 0
    BY <1>1, <2>4
  <2>5. CASE blanks # {} /\ from = Min(blanks)
    <3>1. from \in blanks
      BY <2>2, <2>5
    <3>2. from \in 1..n
      BY <2>1, <3>1
    <3> HIDE DEF from, n
    <3> QED
      BY <1>1, <3>2
  <2> QED
    BY <2>3, <2>4, <2>5
<1> HIDE DEF n, all, from
<1>3. from + 1 \in 1..n + 1 /\ n \in 0..n
  BY <1>1, <1>2
<1>4. Len(SubSeq(article, from + 1, n)) \in Nat
  <2>1. SubSeq(article, from + 1, n) \in Seq(all)
    BY <1>1, <1>3, SubSeqProperties DEF n
  <2> QED
    BY <2>1
<1> QED
  BY <1>1, <1>4 DEF articleBody, n, from

-----------------------------------------------------------------------------
(***************************************************************************)
(* The invariants.                                                         *)
(***************************************************************************)
TypeInv ==
  /\ TypeOK
  /\ body # <<>> =>
       body = <<[id |-> body[1].id, chaos |-> body[1].chaos, left |-> body[1].left]>>
  /\ \A id \in Ids : store[id] # NoArticle => IsSequence(store[id])
  /\ toServer \in Seq(Parts) /\ incoming \in Seq(Received)
  /\ store = [id \in Ids |-> store[id]]

\* The server's flags are at least as strict as what the client was told.
LoginInv ==
  /\ authenticated => verdict = "accepted"
  /\ demanded => reauthRequired

\* A connection is classified by its first command, and counted from there on
\* if that was not MODE CONTROL.
CountInv ==
  /\ first \in {<<>>, <<TRUE>>, <<FALSE>>}
  /\ classified <=> first # <<>>
  /\ phase = "greet" => ~classified
  /\ OnlyControlChannelsUncounted

\* From n on the stream holds commands; a POST is the last one, and the client
\* is waiting for its answer, or lost.
CommandsFrom(n) ==
  \A i \in n..Len(toServer) :
     /\ toServer[i].as = "command"
     /\ toServer[i].line.word = "POST" => i = Len(toServer) /\ client # "free"

\* Nothing of the article has been sent yet.
Awaiting == client \in {"invited", "lost"} /\ toServer = <<>> /\ incoming = <<>>

\* The client has sent the article whole: what the server has not read of it
\* stands at the front of the stream, and what it has read is what was posted.
Whole(article) ==
  /\ posted = <<article>> /\ client \in {"free", "asked"}
  /\ Len(incoming) <= Len(article)
  /\ Len(article) + 1 - Len(incoming) <= Len(toServer)
  /\ \A i \in 1..Len(article) + 1 - Len(incoming) :
       toServer[i] = Part("article", Stuffed(article)[Len(incoming) + i])
  /\ \A i \in 1..Len(incoming) : incoming[i] = article[i]
  /\ CommandsFrom(Len(article) + 2 - Len(incoming))

\* The client hung up in the middle of it.
CutShort ==
  /\ hungUp
  /\ \A i \in 1..Len(toServer) :
       toServer[i].as = "article" /\ toServer[i].line # Terminator

\* Unless a posting was given up, the stream holds commands where commands are
\* read, and the article where it is read.
StreamInv ==
  ~abandoned =>
    /\ phase \notin {"article", "closed"} =>
         /\ CommandsFrom(1)
         /\ client = "invited" => hungUp /\ toServer = <<>>
    /\ phase = "article" =>
         Awaiting \/ CutShort \/ \E article \in Articles : Whole(article)

SessionInv == TypeInv /\ LoginInv /\ CountInv /\ StreamInv

LEMMA InitSession == Init => SessionInv
<1> SUFFICES ASSUME Init PROVE SessionInv
  OBVIOUS
<1>1. /\ toServer = <<>> /\ incoming = <<>> /\ pendingUser = <<>> /\ first = <<>>
      /\ posted = <<>>
  BY DEF Init
<1>2. Len(<<>>) = 0
  BY EmptySeq
<1>3. toServer \in Seq(Parts) /\ incoming \in Seq(Received)
  BY <1>1, EmptySeq
<1>4. store = [id \in Ids |-> store[id]]
  BY FixturesAssumption DEF Init
<1>8. /\ body = <<>>
      /\ \A id \in Ids : store[id] # NoArticle => IsSequence(store[id])
  BY FixturesAssumption DEF Init, IsSequence
<1>5. TypeOK
  <2>1. DOMAIN store = Ids
    BY <1>4
  <2>2. Validate(chaos)
    BY ProfilesAssumption DEF Init
  <2>3. /\ phase \in Phases /\ body = <<>> /\ phase = "greet" /\ phase \notin BodyPhases
        /\ client \in {"free", "asked", "invited", "lost"}
        /\ authenticated \in BOOLEAN /\ reauthRequired \in BOOLEAN /\ hungUp \in BOOLEAN
        /\ classified \in BOOLEAN /\ control \in BOOLEAN /\ counted \in BOOLEAN
    BY DEF Init, Phases, BodyPhases, Held
  <2>4. Len(pendingUser) <= 1 /\ Len(first) <= 1 /\ Len(posted) <= 1
    BY <1>1, <1>2
  <2> QED
    BY <1>1, <2>1, <2>2, <2>3, <2>4 DEF TypeOK
<1>6. LoginInv /\ CountInv
  BY DEF Init, LoginInv, CountInv, OnlyControlChannelsUncounted
<1>7. StreamInv
  <2>1. 1..Len(toServer) = {}
    BY <1>1, <1>2
  <2>2. CommandsFrom(1)
    BY <2>1 DEF CommandsFrom
  <2> QED
    BY <2>2 DEF Init, StreamInv
<1> QED
  BY <1>3, <1>4, <1>5, <1>6, <1>7, <1>8 DEF SessionInv, TypeInv

-----------------------------------------------------------------------------
(***************************************************************************)
(* What every command has in common: its line is taken from the stream,    *)
(* the connection is classified, and only a POST leads to an article.      *)
(***************************************************************************)
Serve(next) ==
  /\ Serves(next) /\ UNCHANGED <<incoming, abandoned>>
  /\ next \in {"command", "status", "article", "closed"}
  /\ client' \in {"free", "invited", "lost", client}
  /\ next \in {"command", "status"} =>
       client' \in {"lost", IF /\ client = "asked" /\ Command.word = "POST"
                              /\ Unread.as = "command"
                           THEN "free" ELSE client}
  /\ next = "article" =>
       /\ Command.word = "POST"
       /\ client' = IF client = "asked" /\ Unread.as = "command" THEN "invited" ELSE client

CommandStep ==
  \/ Inform \/ Quit \/ Unknown
  \/ AuthUsage \/ AuthUser \/ AuthOutOfSequence \/ AuthRejected \/ AuthAccepted
  \/ Unauthenticated
  \/ Group \/ Stat \/ HeadOrArticle
  \/ BodyRefused \/ BodyDropped \/ Body
  \/ Post \/ Chaos \/ Delete \/ OtherControl

LEMMA CommandServes ==
  ASSUME CommandStep PROVE \E next : Serve(next)
<1> USE DEF Handles, Answer
<1>1. CASE Inform \/ Quit \/ Unknown
  <2>1. CASE Inform
    <3>1. Serve("command")
      BY <2>1 DEF Inform, Serve
    <3> QED
      BY <3>1
  <2>2. CASE Quit
    <3>1. Serve("closed")
      BY <2>2 DEF Quit, Serve
    <3> QED
      BY <3>1
  <2>3. CASE Unknown
    <3>1. Serve("command")
      BY <2>3 DEF Unknown, Serve
    <3> QED
      BY <3>1
  <2> QED
    BY <1>1, <2>1, <2>2, <2>3
<1>2. CASE AuthUsage \/ AuthUser \/ AuthOutOfSequence \/ AuthRejected \/ AuthAccepted
  BY <1>2 DEF AuthUsage, AuthUser, AuthOutOfSequence, AuthRejected, AuthAccepted, Authinfo, Serve
<1>3. CASE Unauthenticated
  BY <1>3 DEF Unauthenticated, Serve
<1>4. CASE Group \/ Stat \/ HeadOrArticle
  BY <1>4 DEF Group, Stat, HeadOrArticle, Allowed, Serve
<1>5. CASE BodyRefused \/ BodyDropped
  <2>1. CASE BodyRefused
    BY <2>1 DEF BodyRefused, Allowed, Serve
  <2>2. CASE BodyDropped
    <3>1. Serve("closed")
      BY <2>2 DEF BodyDropped, BodyAdmitted, Allowed, Serve
    <3> QED
      BY <3>1
  <2> QED
    BY <1>5, <2>1, <2>2
<1>6. CASE Body
  <2>1. PICK next \in {"command", "status"} : BodyAdmitted(next) /\ UNCHANGED client
    BY <1>6 DEF Body
  <2>2. Command.word # "POST"
    BY <2>1 DEF BodyAdmitted, Allowed
  <2>3. Serve(next)
    BY <2>1, <2>2 DEF BodyAdmitted, Allowed, Serve
  <2> QED
    BY <2>3
<1>7. CASE Post
  BY <1>7 DEF Post, Allowed, Serve
<1>8. CASE Chaos \/ Delete \/ OtherControl
  BY <1>8 DEF Chaos, Delete, OtherControl, Allowed, Serve
<1> QED
  BY <1>1, <1>2, <1>3, <1>4, <1>5, <1>6, <1>7, <1>8 DEF CommandStep

\* What the steps of a body leave alone, and where they lead.
BodyStep == CheckHeld \/ WaitForLine \/ WriteLine \/ EndBody \/ GiveUp

BodyMoves ==
  /\ phase \in BodyPhases /\ phase' \in BodyPhases \cup {"command", "closed"}
  /\ client' \in {client, "lost"}
  /\ counted' = (counted /\ phase' # "closed")
  /\ UNCHANGED <<chaos, store, login, classified, control, incoming,
                 toServer, hungUp, reply, history>>
  /\ phase' \notin BodyPhases => body' = <<>>
  /\ phase' \in BodyPhases =>
       /\ body' = <<[id |-> body'[1].id, chaos |-> body'[1].chaos, left |-> body'[1].left]>>
       /\ Left' \in Nat
       /\ phase' \in {"heldLine", "write"} => Left' > 0
  /\ \/ phase' \in {"command", "closed"}
     \/ phase = "status" /\ phase' \in {"heldId", "lines"} /\ Left' = Left
     \/ phase = "lines" /\ phase' = "heldLine" /\ Left' = Left
     \/ phase \in {"lines", "write"} /\ phase' = "lines" /\ Left' = Left - 1

LEMMA BodyGoes ==
  ASSUME TypeInv, BodyStep
  PROVE  BodyMoves
<1> USE DEF Held, BodyPhases
<1>1. phase \in BodyPhases
  BY DEF BodyStep, CheckHeld, WaitForLine, WriteLine, EndBody, GiveUp
<1>2. PICK id, config, n : body = <<[id |-> id, chaos |-> config, left |-> n]>>
  BY <1>1 DEF TypeInv, TypeOK
<1>3. Left = n /\ n \in Nat /\ (phase = "write" => n > 0)
  BY <1>1, <1>2 DEF Left, TypeInv, TypeOK
<1> DEFINE with(left) == [id |-> id, chaos |-> config, left |-> left]
<1>4. ASSUME NEW to \in BodyPhases \cup {"command", "closed"}, NEW left, Goes(to, left)
      PROVE  /\ phase' = to
             /\ counted' = (counted /\ phase' # "closed")
             /\ UNCHANGED <<chaos, store, login, classified, control, incoming,
                            toServer, hungUp, reply, history>>
             /\ to \in BodyPhases => body' = <<with(left)>> /\ Left' = left
             /\ to \notin BodyPhases => body' = <<>>
  <2>1. body[1] = with(n)
    BY <1>2
  <2>2. [with(n) EXCEPT !.left = left] = with(left)
    OBVIOUS
  <2>3. to \in BodyPhases => body' = <<with(left)>>
    BY <1>4, <2>1, <2>2 DEF Goes
  <2> QED
    BY <1>4, <2>3 DEF Goes, Left
<1>5. ASSUME NEW to \in BodyPhases, NEW left \in Nat, Goes(to, left), client' = client,
             to \in {"heldLine", "write"} => left > 0,
             \/ phase = "status" /\ to \in {"heldId", "lines"} /\ left = n
             \/ phase = "lines" /\ to = "heldLine" /\ left = n
             \/ phase \in {"lines", "write"} /\ to = "lines" /\ left = n - 1
      PROVE  BodyMoves
  <2>1. body' = <<with(left)>> /\ Left' = left /\ phase' = to
    BY <1>4, <1>5
  <2>2. body' = <<[id |-> body'[1].id, chaos |-> body'[1].chaos, left |-> body'[1].left]>>
    BY <2>1
  <2> QED
    BY <1>1, <1>3, <1>4, <1>5, <2>1, <2>2 DEF BodyMoves
<1>6. ASSUME NEW to \in {"command", "closed"}, NEW left, Goes(to, left),
             client' \in {client, "lost"}
      PROVE  BodyMoves
  BY <1>1, <1>4, <1>6 DEF BodyMoves
<1>7. CASE CheckHeld
  <2>1. PICK to \in {"heldId", "lines"} : Goes(to, n)
    BY <1>3, <1>7 DEF CheckHeld
  <2> QED
    BY <1>3, <1>5, <1>7, <2>1 DEF CheckHeld
<1>8. CASE WaitForLine
  <2>1. Goes("heldLine", n) /\ n > 0
    BY <1>3, <1>8 DEF WaitForLine
  <2> QED
    BY <1>3, <1>5, <1>8, <2>1 DEF WaitForLine
<1>9. CASE WriteLine
  <2>1. /\ phase \in {"lines", "write"} /\ n > 0 /\ client' = client
        /\ \E drops : Goes(IF drops THEN "closed" ELSE "lines", n - 1)
    BY <1>3, <1>9 DEF WriteLine
  <2>2. PICK to \in {"closed", "lines"} : Goes(to, n - 1)
    BY <2>1
  <2>3. n - 1 \in Nat
    BY <1>3, <2>1
  <2> QED
    BY <1>5, <1>6, <2>1, <2>2, <2>3
<1>10. CASE EndBody
  BY <1>6, <1>10 DEF EndBody
<1>11. CASE GiveUp
  BY <1>6, <1>11 DEF GiveUp
<1> QED
  BY <1>7, <1>8, <1>9, <1>10, <1>11 DEF BodyStep

\* A release lets a held body go on, and is all a new configuration changes.
SetMoves ==
  /\ \/ phase' = phase
     \/ phase = "heldId" /\ phase' = "lines"
     \/ phase = "heldLine" /\ phase' = "write"
  /\ phase # "closed"
  /\ UNCHANGED <<store, body, login, class, incoming, wire, reply, history>>

LEMMA SetGoes ==
  ASSUME NEW config \in Profiles, SetChaos(config)
  PROVE  SetMoves /\ Validate(chaos')
<1>1. Validate(chaos')
  BY ProfilesAssumption DEF SetChaos
<1>2. /\ \/ phase' = phase
         \/ phase = "heldId" /\ phase' = "lines"
         \/ phase = "heldLine" /\ phase' = "write"
      /\ phase # "closed"
  BY DEF SetChaos, Held
<1>3. UNCHANGED <<store, body, login, class, incoming, wire, reply, history>>
  BY DEF SetChaos
<1> QED
  BY <1>1, <1>2, <1>3 DEF SetMoves

\* The stream after its first part is read.
LEMMA Unread1 ==
  ASSUME TypeInv, toServer # <<>>
  PROVE  /\ Len(toServer) \in Nat /\ Len(toServer) > 0
         /\ Unread = toServer[1] /\ Command = toServer[1].line
         /\ Command \in Lines
         /\ Tail(toServer) \in Seq(Parts)
         /\ Len(Tail(toServer)) = Len(toServer) - 1
         /\ \A i \in 1..Len(toServer) - 1 : Tail(toServer)[i] = toServer[i + 1]
<1>1. toServer \in Seq(Parts)
  BY DEF TypeInv
<1>2. Len(toServer) \in Nat /\ Len(toServer) > 0
  BY <1>1, EmptySeq
<1>3. toServer[1] \in Parts /\ Unread = toServer[1]
  BY <1>1, <1>2, ElementOfSeq DEF Unread
<1>4. Command = toServer[1].line /\ Command \in Lines
  BY <1>3 DEF Command, Parts
<1>5. /\ Tail(toServer) \in Seq(Parts)
      /\ Len(Tail(toServer)) = Len(toServer) - 1
      /\ \A i \in 1..Len(Tail(toServer)) : Tail(toServer)[i] = toServer[i + 1]
  BY <1>1, HeadTailProperties
<1> QED
  BY <1>2, <1>3, <1>4, <1>5

-----------------------------------------------------------------------------
(***************************************************************************)
(* StreamInv, step by step.                                                *)
(***************************************************************************)
LEMMA ServeStream ==
  ASSUME TypeInv, StreamInv, NEW next, Serve(next)
  PROVE  StreamInv'
<1> SUFFICES ASSUME ~abandoned' PROVE StreamInv'
  BY DEF StreamInv
<1>1. /\ phase = "command" /\ toServer # <<>> /\ toServer' = Tail(toServer)
      /\ phase' = next /\ hungUp' = hungUp /\ incoming' = incoming
      /\ ~abandoned
  BY DEF Serve, Serves
<1>2. incoming = <<>>
  BY <1>1 DEF TypeInv, TypeOK
<1>3. CommandsFrom(1) /\ client # "invited"
  BY <1>1 DEF StreamInv
<1>4. client \in {"free", "asked", "lost"}
  BY <1>3 DEF TypeInv, TypeOK
<1> DEFINE n == Len(toServer)
<1>5. /\ n \in Nat /\ n > 0 /\ Unread = toServer[1] /\ Command = toServer[1].line
      /\ Len(toServer') = n - 1
      /\ \A i \in 1..n - 1 : toServer'[i] = toServer[i + 1]
  BY <1>1, Unread1
<1>6. Unread.as = "command"
  BY <1>3, <1>5 DEF CommandsFrom
<1>7. Command.word = "POST" => n = 1 /\ client # "free"
  BY <1>3, <1>5 DEF CommandsFrom
<1>8. CASE next \in {"command", "status"}
  <2>1. client' \in {"lost", "free", client}
    BY <1>8 DEF Serve
  <2>2. CommandsFrom(1)'
    <3> SUFFICES ASSUME NEW i \in 1..n - 1
                 PROVE  /\ toServer'[i].as = "command"
                        /\ toServer'[i].line.word = "POST" => i = n - 1 /\ client' # "free"
      BY <1>5 DEF CommandsFrom
    <3>1. i + 1 \in 1..n /\ toServer'[i] = toServer[i + 1]
      BY <1>5
    <3>2. toServer'[i].as = "command"
      BY <1>3, <3>1 DEF CommandsFrom
    <3>3. ASSUME toServer'[i].line.word = "POST" PROVE i = n - 1 /\ client' # "free"
      <4>1. i + 1 = n /\ client # "free"
        BY <1>3, <3>1, <3>3 DEF CommandsFrom
      <4>2. Command.word # "POST"
        BY <1>5, <1>7, <4>1
      <4>3. client' \in {"lost", client}
        BY <1>8, <4>2 DEF Serve
      <4> QED
        BY <1>5, <4>1, <4>3
    <3> QED
      BY <3>2, <3>3
  <2>3. client' # "invited"
    BY <1>3, <2>1
  <2> QED
    BY <1>1, <1>8, <2>2, <2>3 DEF StreamInv
<1>9. CASE next = "article"
  <2>1. n = 1 /\ client \in {"asked", "lost"}
    BY <1>4, <1>7, <1>9 DEF Serve
  <2>2. client' \in {"invited", "lost"}
    BY <1>6, <1>9, <2>1 DEF Serve
  <2>3. toServer' = <<>>
    BY <1>1, <1>5, <2>1, Unread1, EmptySeq
  <2> QED
    BY <1>1, <1>2, <1>9, <2>2, <2>3 DEF StreamInv, Awaiting
<1>10. CASE next = "closed"
  BY <1>1, <1>10 DEF StreamInv
<1> QED
  BY <1>8, <1>9, <1>10 DEF Serve

\* One more line of the article is read.
LEMMA ReadArticle ==
  ASSUME TypeInv, NEW article \in Articles, Whole(article),
         toServer # <<>>, Command # Terminator,
         toServer' = Tail(toServer), incoming' = Append(incoming, unstuff(Command)),
         client' = client, posted' = posted
  PROVE  Whole(article)'
<1> DEFINE n == Len(toServer)
           m == Len(incoming)
           k == Len(article)
<1>1. /\ n \in Nat /\ n > 0 /\ Command = toServer[1].line
      /\ Len(toServer') = n - 1
      /\ \A i \in 1..n - 1 : toServer'[i] = toServer[i + 1]
      /\ Command \in Lines
  BY Unread1
<1>2. /\ m \in Nat /\ Len(incoming') = m + 1
      /\ \A i \in 1..m : incoming'[i] = incoming[i]
      /\ incoming'[m + 1] = unstuff(Command)
  <2>1. incoming \in Seq(Received) /\ unstuff(Command) \in Received
    BY <1>1 DEF TypeInv, Received
  <2> QED
    BY <2>1
<1>3. /\ k \in Nat
      /\ Stuffed(article)[k + 1] = Terminator
      /\ \A i \in 1..k : unstuff(Stuffed(article)[i]) = article[i]
  BY StuffedText
<1>4. /\ m <= k /\ k + 1 - m <= n
      /\ \A i \in 1..k + 1 - m : toServer[i] = Part("article", Stuffed(article)[m + i])
      /\ \A i \in 1..m : incoming[i] = article[i]
      /\ CommandsFrom(k + 2 - m)
  BY DEF Whole
<1> HIDE DEF n, m, k
<1>5. Command = Stuffed(article)[m + 1]
  <2>1. 1 \in 1..k + 1 - m
    BY <1>2, <1>3, <1>4
  <2>2. toServer[1] = Part("article", Stuffed(article)[m + 1])
    BY <1>4, <2>1
  <2> QED
    BY <1>1, <2>2 DEF Part
<1>6. m + 1 <= k
  <2>1. m # k
    BY <1>3, <1>5
  <2> QED
    BY <1>2, <1>3, <1>4, <2>1
<1>7. \A i \in 1..m + 1 : incoming'[i] = article[i]
  <2>1. incoming'[m + 1] = article[m + 1]
    BY <1>2, <1>3, <1>5, <1>6
  <2> QED
    BY <1>2, <1>4, <2>1
<1>8. ASSUME NEW i \in 1..k - m
      PROVE  toServer'[i] = Part("article", Stuffed(article)[m + 1 + i])
  <2>1. i \in 1..n - 1 /\ i + 1 \in 1..k + 1 - m
    BY <1>1, <1>2, <1>3, <1>4
  <2>2. m + (i + 1) = m + 1 + i
    BY <1>2
  <2>3. toServer[i + 1] = Part("article", Stuffed(article)[m + (i + 1)])
    BY <1>4, <2>1
  <2> QED
    BY <1>1, <2>1, <2>2, <2>3
<1>9. ASSUME NEW i \in k + 1 - m..n - 1
      PROVE  /\ toServer'[i].as = "command"
             /\ toServer'[i].line.word = "POST" => i = n - 1 /\ client' # "free"
  <2>1. i \in 1..n - 1 /\ i + 1 \in k + 2 - m..n
    BY <1>1, <1>2, <1>3, <1>4, <1>6
  <2>2. /\ toServer[i + 1].as = "command"
        /\ toServer[i + 1].line.word = "POST" => i + 1 = n /\ client # "free"
    BY <1>4, <2>1 DEF CommandsFrom, n
  <2>3. toServer'[i] = toServer[i + 1]
    BY <1>1, <2>1
  <2>4. i + 1 = n => i = n - 1
    BY <1>1, <2>1
  <2> QED
    BY <2>2, <2>3, <2>4
<1>10. k + 1 - (m + 1) = k - m /\ k + 2 - (m + 1) = k + 1 - m
  BY <1>2, <1>3
<1>11. CommandsFrom(k + 2 - Len(incoming))'
  <2>1. k + 2 - Len(incoming') = k + 1 - m
    BY <1>2, <1>10
  <2> QED
    BY <1>1, <1>9, <2>1 DEF CommandsFrom, k
<1>12. /\ posted' = <<article>> /\ client' \in {"free", "asked"}
       /\ Len(incoming') <= k
       /\ k + 1 - Len(incoming') <= Len(toServer')
  <2>1. k - m <= n - 1
    BY <1>1, <1>2, <1>3, <1>4
  <2> QED
    BY <1>1, <1>2, <1>6, <1>10, <2>1 DEF Whole
<1>13. \A i \in 1..k + 1 - Len(incoming') :
         toServer'[i] = Part("article", Stuffed(article)[Len(incoming') + i])
  BY <1>2, <1>8, <1>10
<1>14. \A i \in 1..Len(incoming') : incoming'[i] = article[i]
  BY <1>2, <1>7
<1> QED
  BY <1>11, <1>12, <1>13, <1>14 DEF Whole, k

LEMMA ReadStream ==
  ASSUME TypeInv, StreamInv, ReadLine
  PROVE  StreamInv'
<1> SUFFICES ASSUME ~abandoned' PROVE StreamInv'
  BY DEF StreamInv
<1>1. /\ phase = "article" /\ phase' = "article" /\ toServer # <<>>
      /\ toServer' = Tail(toServer) /\ Command # Terminator
      /\ incoming' = Append(incoming, unstuff(Command))
      /\ hungUp' = hungUp /\ client' = client /\ posted' = posted /\ ~abandoned
  BY DEF ReadLine, history
<1>2. CutShort \/ \E article \in Articles : Whole(article)
  BY <1>1 DEF StreamInv, Awaiting
<1>3. CASE CutShort
  <2>1. CutShort'
    BY <1>1, <1>3, Unread1 DEF CutShort
  <2> QED
    BY <1>1, <2>1 DEF StreamInv
<1>4. ASSUME NEW article \in Articles, Whole(article)
      PROVE  StreamInv'
  BY <1>1, <1>4, ReadArticle DEF StreamInv
<1> QED
  BY <1>2, <1>3, <1>4

\* Where the article stands at the front of the stream, its last line is the
\* first terminator.
LEMMA LastLine ==
  ASSUME TypeInv, NEW article \in Articles, Whole(article),
         toServer # <<>>, Command = Terminator
  PROVE  Len(incoming) = Len(article) /\ Unread.as = "article"
<1> DEFINE m == Len(incoming)
           k == Len(article)
<1>1. m \in Nat
  BY DEF TypeInv
<1>2. /\ k \in Nat
      /\ \A i \in 1..k : Stuffed(article)[i] # Terminator
  BY StuffedText
<1>3. /\ m <= k
      /\ \A i \in 1..k + 1 - m : toServer[i] = Part("article", Stuffed(article)[m + i])
  BY DEF Whole
<1> HIDE DEF m, k
<1>4. 1 \in 1..k + 1 - m
  BY <1>1, <1>2, <1>3
<1>5. toServer[1] = Part("article", Stuffed(article)[m + 1])
  BY <1>3, <1>4
<1>6. Unread = toServer[1] /\ Command = toServer[1].line
  BY Unread1
<1>7. Stuffed(article)[m + 1] = Terminator
  BY <1>5, <1>6 DEF Part
<1>8. m = k
  <2>1. m + 1 \notin 1..k
    BY <1>2, <1>7
  <2> QED
    BY <1>1, <1>2, <1>3, <2>1
<1> QED
  BY <1>5, <1>6, <1>8 DEF Part, m, k

LEMMA FinishStream ==
  ASSUME TypeInv, StreamInv, Finish
  PROVE  StreamInv'
<1> SUFFICES ASSUME ~abandoned' PROVE StreamInv'
  BY DEF StreamInv
<1>1. /\ phase = "article" /\ phase' = "command" /\ toServer # <<>>
      /\ toServer' = Tail(toServer) /\ Command = Terminator
      /\ client' = client /\ ~abandoned
  BY DEF Finish, EndPost
<1> DEFINE n == Len(toServer)
<1>2. /\ n \in Nat /\ n > 0 /\ Command = toServer[1].line
      /\ Len(toServer') = n - 1
      /\ \A i \in 1..n - 1 : toServer'[i] = toServer[i + 1]
  BY <1>1, Unread1
<1>3. PICK article \in Articles : Whole(article)
  <2>1. ~Awaiting
    BY <1>1 DEF Awaiting
  <2>2. ~CutShort
    BY <1>1, <1>2 DEF CutShort
  <2> QED
    BY <1>1, <2>1, <2>2 DEF StreamInv
<1>4. CommandsFrom(2) /\ client # "invited"
  <2>1. Len(incoming) = Len(article) /\ Len(article) \in Nat
    BY <1>1, <1>3, LastLine, StuffedText
  <2>2. Len(article) + 2 - Len(incoming) = 2
    BY <2>1
  <2> QED
    BY <1>3, <2>2 DEF Whole
<1>5. ASSUME NEW i \in 1..n - 1
      PROVE  /\ toServer'[i].as = "command"
             /\ toServer'[i].line.word = "POST" => i = n - 1 /\ client' # "free"
  <2>1. i + 1 \in 2..n /\ (i + 1 = n => i = n - 1)
    BY <1>2
  <2> QED
    BY <1>1, <1>2, <1>4, <2>1 DEF CommandsFrom
<1>6. CommandsFrom(1)'
  BY <1>2, <1>5 DEF CommandsFrom
<1> QED
  BY <1>1, <1>4, <1>6 DEF StreamInv

LEMMA EndStream ==
  ASSUME TypeInv, StreamInv, Greet \/ StreamEnds \/ Abandon \/ ArticleEnds
  PROVE  StreamInv'
<1>1. CASE Greet
  BY <1>1 DEF Greet, StreamInv, CommandsFrom, wire, history
<1>2. CASE StreamEnds
  BY <1>2 DEF StreamEnds, StreamInv
<1>3. CASE Abandon
  BY <1>3 DEF Abandon, StreamInv
<1>4. CASE ArticleEnds
  <2>1. CASE phase' = "closed"
    BY <2>1 DEF StreamInv
  <2>2. CASE toServer = <<>> /\ hungUp /\ EndPost("441", "command") /\ UNCHANGED toServer
    <3>1. 1..Len(toServer') = {}
      BY <2>2, EmptySeq
    <3>2. CommandsFrom(1)'
      BY <3>1 DEF CommandsFrom
    <3> QED
      BY <2>2, <3>2 DEF StreamInv, EndPost
  <2> QED
    BY <1>4, <2>1, <2>2 DEF ArticleEnds, EndPost
<1> QED
  BY <1>1, <1>2, <1>3, <1>4

LEMMA SendStream ==
  ASSUME TypeInv, StreamInv, NEW command \in Commands, Send(command)
  PROVE  StreamInv'
<1> SUFFICES ASSUME ~abandoned' PROVE StreamInv'
  BY DEF StreamInv
<1>1. /\ client = "free" /\ ~hungUp /\ phase # "closed" /\ phase' = phase
      /\ toServer' = Append(toServer, Part("command", command))
      /\ client' = (IF command.word = "POST" THEN "asked" ELSE "free")
      /\ incoming' = incoming /\ posted' = posted
      /\ abandoned => toServer = <<>> /\ phase # "article"
  BY DEF Send
<1> DEFINE n == Len(toServer)
<1>2. /\ n \in Nat /\ Len(toServer') = n + 1
      /\ \A i \in 1..n : toServer'[i] = toServer[i]
      /\ toServer'[n + 1] = Part("command", command)
  <2>1. toServer \in Seq(Parts) /\ Part("command", command) \in Parts
    BY DEF TypeInv, Parts, Part, Lines
  <2> QED
    BY <1>1, <2>1
<1>3. ASSUME NEW from \in Nat \ {0}, CommandsFrom(from)
      PROVE  CommandsFrom(from)'
  <2> SUFFICES ASSUME NEW i \in from..n + 1
               PROVE  /\ toServer'[i].as = "command"
                      /\ toServer'[i].line.word = "POST" => i = n + 1 /\ client' # "free"
    BY <1>2 DEF CommandsFrom
  <2>1. CASE i = n + 1
    BY <1>1, <1>2, <2>1 DEF Part
  <2>2. CASE i # n + 1
    <3>1. i \in from..n /\ i \in 1..n
      BY <1>2, <2>2
    <3> QED
      BY <1>1, <1>2, <1>3, <3>1 DEF CommandsFrom
  <2> QED
    BY <2>1, <2>2
<1>4. CASE phase \notin {"article", "closed"}
  <2>1. CommandsFrom(1)
    <3>1. CASE abandoned
      <4>1. 1..Len(toServer) = {}
        BY <1>1, <3>1, EmptySeq
      <4> QED
        BY <4>1 DEF CommandsFrom
    <3>2. CASE ~abandoned
      BY <1>4, <3>2 DEF StreamInv
    <3> QED
      BY <3>1, <3>2
  <2>2. CommandsFrom(1)'
    BY <1>3, <2>1
  <2> QED
    BY <1>1, <1>4, <2>2 DEF StreamInv
<1>5. CASE phase = "article"
  <2>1. PICK article \in Articles : Whole(article)
    BY <1>1, <1>5 DEF StreamInv, Awaiting, CutShort
  <2> DEFINE m == Len(incoming)
             k == Len(article)
  <2>2. m \in Nat /\ k \in Nat /\ m <= k /\ k + 1 - m <= n
    BY <2>1, StuffedText DEF TypeInv, Whole
  <2>3. CommandsFrom(k + 2 - m)'
    <3>1. k + 2 - m \in Nat \ {0}
      BY <2>2
    <3>2. CommandsFrom(k + 2 - m)
      BY <2>1 DEF Whole
    <3> HIDE DEF m, k
    <3>3. ASSUME NEW from \in Nat \ {0}, from = k + 2 - m, CommandsFrom(from)
          PROVE  CommandsFrom(from)'
      BY <1>3, <3>3
    <3>4. \A i \in k + 2 - m..Len(toServer') :
            /\ toServer'[i].as = "command"
            /\ toServer'[i].line.word = "POST" => i = Len(toServer') /\ client' # "free"
      BY <3>1, <3>2, <3>3 DEF CommandsFrom
    <3> QED
      BY <1>1, <3>4 DEF CommandsFrom, m, k
  <2>4. \A i \in 1..k + 1 - m : toServer'[i] = Part("article", Stuffed(article)[m + i])
    <3> TAKE i \in 1..k + 1 - m
    <3>1. i \in 1..n
      BY <1>2, <2>2
    <3> QED
      BY <1>2, <2>1, <3>1 DEF Whole
  <2>5. k + 1 - m <= Len(toServer')
    <3> HIDE DEF n, m, k
    <3> QED
      BY <1>2, <2>2
  <2>6. Whole(article)'
    BY <1>1, <2>1, <2>3, <2>4, <2>5 DEF Whole
  <2> QED
    BY <1>1, <1>5, <2>6 DEF StreamInv
<1> QED
  BY <1>1, <1>4, <1>5 DEF TypeInv, TypeOK

LEMMA SendArticleStream ==
  ASSUME TypeInv, StreamInv, NEW article \in Articles,
         NEW length \in 0..Len(article) + 1, SendArticle(article, length)
  PROVE  StreamInv'
<1> SUFFICES ASSUME ~abandoned' PROVE StreamInv'
  BY DEF StreamInv
<1> DEFINE k    == Len(article)
           text == Stuffed(article)
<1>1. /\ client = "invited" /\ ~hungUp /\ phase # "closed" /\ phase' = phase
      /\ toServer' = toServer \o [i \in 1..length |-> Part("article", text[i])]
      /\ client' = "free" /\ hungUp' = (length < Len(text))
      /\ posted' = (IF hungUp' THEN <<>> ELSE <<article>>)
      /\ incoming' = incoming /\ ~abandoned
  BY DEF SendArticle
<1>2. phase = "article" /\ toServer = <<>> /\ incoming = <<>>
  BY <1>1 DEF StreamInv, TypeInv, TypeOK, CutShort, Whole, Awaiting
<1>3. /\ k \in Nat /\ Len(text) = k + 1
      /\ \A i \in 1..k : text[i] # Terminator
      /\ \A i \in 1..k + 1 : text[i] \in Lines
  BY StuffedText
<1>4. length \in Nat /\ length <= k + 1
  BY <1>3
<1> HIDE DEF k, text
<1>5. /\ Len(toServer') = length
      /\ \A i \in 1..length : toServer'[i] = Part("article", text[i])
  <2> DEFINE sent == [i \in 1..length |-> Part("article", text[i])]
  <2>1. ASSUME NEW i \in 1..length PROVE Part("article", text[i]) \in Parts
    <3>1. i \in 1..k + 1
      BY <1>3, <1>4
    <3> QED
      BY <1>3, <3>1 DEF Part, Parts
  <2>2. sent \in Seq(Parts)
    BY <1>4, <2>1, IsASeq
  <2>3. Len(sent) = length /\ \A i \in 1..length : sent[i] = Part("article", text[i])
    BY <1>4, <2>2
  <2> HIDE DEF sent
  <2>4. toServer' = sent
    BY <1>1, <1>2, <2>2 DEF sent
  <2> QED
    BY <2>3, <2>4
<1>6. CASE length < k + 1
  <2>1. hungUp'
    BY <1>1, <1>3, <1>6
  <2>2. ASSUME NEW i \in 1..length
        PROVE  toServer'[i].as = "article" /\ toServer'[i].line # Terminator
    <3>1. i \in 1..k
      BY <1>3, <1>4, <1>6
    <3> QED
      BY <1>3, <1>5, <3>1 DEF Part
  <2>3. CutShort'
    BY <1>5, <2>1, <2>2 DEF CutShort
  <2> QED
    BY <1>1, <1>2, <2>3 DEF StreamInv
<1>7. CASE length = k + 1
  <2>1. posted' = <<article>>
    <3>1. ~(length < Len(text))
      BY <1>3, <1>7
    <3>2. ~hungUp'
      BY <1>1, <3>1
    <3> QED
      BY <1>1, <3>2
  <2>2. Len(incoming') = 0
    BY <1>1, <1>2, EmptySeq
  <2>3. /\ k + 1 - Len(incoming') = k + 1
        /\ k + 2 - Len(incoming') = k + 2
        /\ Len(incoming') <= k
        /\ \A i \in 1..k + 1 : Len(incoming') + i = i
        /\ 1..Len(incoming') = {}
    BY <1>3, <2>2
  <2>4. /\ k + 1 - Len(incoming') <= Len(toServer')
        /\ \A i \in 1..k + 1 - Len(incoming') :
             toServer'[i] = Part("article", text[Len(incoming') + i])
    BY <1>3, <1>5, <1>7, <2>3
  <2>5. CommandsFrom(k + 2 - Len(incoming))'
    <3>1. k + 2 - Len(incoming')..Len(toServer') = {}
      BY <1>3, <1>5, <1>7, <2>3
    <3> QED
      BY <3>1 DEF CommandsFrom, k
  <2>6. Whole(article)'
    BY <1>1, <2>1, <2>3, <2>4, <2>5 DEF Whole, k, text
  <2> QED
    BY <1>1, <1>2, <2>6 DEF StreamInv
<1> QED
  BY <1>3, <1>4, <1>6, <1>7

LEMMA OtherStream ==
  ASSUME TypeInv, StreamInv,
         HangUp \/ UNCHANGED vars \/ \E config \in Profiles : SetChaos(config)
  PROVE  StreamInv'
<1>1. /\ toServer' = toServer /\ incoming' = incoming
      /\ client' = client /\ posted' = posted /\ abandoned' = abandoned
      /\ hungUp => hungUp'
      /\ \/ phase' = phase
         \/ phase \notin {"article", "closed"} /\ phase' \notin {"article", "closed"}
  <2>1. CASE HangUp \/ UNCHANGED vars
    BY <2>1 DEF HangUp, vars, wire, history
  <2>2. ASSUME NEW config \in Profiles, SetChaos(config) PROVE SetMoves
    BY <2>2, SetGoes
  <2>3. CASE SetMoves
    BY <2>3 DEF SetMoves, wire, history
  <2> QED
    BY <2>1, <2>2, <2>3
<1>2. /\ CommandsFrom(1) => CommandsFrom(1)'
      /\ Awaiting => Awaiting'
      /\ CutShort => CutShort'
  BY <1>1 DEF CommandsFrom, Awaiting, CutShort
<1>3. ASSUME NEW article \in Articles PROVE Whole(article) => Whole(article)'
  BY <1>1 DEF Whole, CommandsFrom
<1> QED
  BY <1>1, <1>2, <1>3 DEF StreamInv

\* A body leaves the stream as it is.
LEMMA BodyStream ==
  ASSUME TypeInv, StreamInv, BodyStep
  PROVE  StreamInv'
<1>1. BodyMoves
  BY BodyGoes
<1>2. /\ phase \notin {"article", "closed"} /\ phase' # "article"
      /\ toServer' = toServer /\ hungUp' = hungUp /\ abandoned' = abandoned
      /\ client' \in {client, "lost"}
  BY <1>1 DEF BodyMoves, BodyPhases, Held, history
<1>3. CommandsFrom(1) => CommandsFrom(1)'
  BY <1>2 DEF CommandsFrom
<1> QED
  BY <1>2, <1>3 DEF StreamInv

LEMMA StreamStep ==
  ASSUME TypeInv, StreamInv, [Next]_vars
  PROVE  StreamInv'
<1>1. CASE CommandStep
  <2>1. PICK next : Serve(next)
    BY <1>1, CommandServes
  <2> QED
    BY <2>1, ServeStream
<1>2. CASE ReadLine
  BY <1>2, ReadStream
<1>3. CASE Finish
  BY <1>3, FinishStream
<1>4. CASE Greet \/ StreamEnds \/ Abandon \/ ArticleEnds
  BY <1>4, EndStream
<1>5. CASE Client
  <2>1. ASSUME NEW command \in Commands, Send(command) PROVE StreamInv'
    BY <2>1, SendStream
  <2>2. ASSUME NEW article \in Articles, NEW length \in 0..Len(article) + 1,
               SendArticle(article, length)
        PROVE  StreamInv'
    BY <2>2, SendArticleStream
  <2>3. CASE HangUp
    BY <2>3, OtherStream
  <2> QED
    BY <1>5, <2>1, <2>2, <2>3 DEF Client
<1>6. CASE UNCHANGED vars \/ \E config \in Profiles : SetChaos(config)
  BY <1>6, OtherStream
<1>7. CASE BodyStep
  BY <1>7, BodyStream
<1> QED
  BY <1>1, <1>2, <1>3, <1>4, <1>5, <1>6, <1>7 DEF Next, Server, CommandStep, BodyStep, Closed

-----------------------------------------------------------------------------
(***************************************************************************)
(* The types, the logins and the count of sessions, step by step.          *)
(***************************************************************************)
\* What ParseChaos returns is a configuration that Validate accepts.
LEMMA ParsedIsValid ==
  /\ Validate(Off)
  /\ \A options : ParseChaos(options) # <<>> => Validate(ParseChaos(options)[1])
<1>1. Validate(Off)
  <2>1. Off.holdIds = <<>> /\ \A name \in Percentages \cup Amounts : Off.number[name] = 0
    BY DEF Off
  <2>2. ToSet(<<>>) = {}
    BY DEF ToSet
  <2> QED
    BY <2>1, <2>2 DEF Validate
<1>2. ASSUME NEW options, ParseChaos(options) # <<>>
      PROVE  Validate(ParseChaos(options)[1])
  <2> DEFINE parsed == FoldLeft(Read, <<Off>>, options)
  <2>1. ParseChaos(options) = IF parsed # <<>> /\ Validate(parsed[1]) THEN parsed ELSE <<>>
    BY DEF ParseChaos
  <2> HIDE DEF parsed
  <2> QED
    BY <1>2, <2>1
<1> QED
  BY <1>1, <1>2

\* What a command does to the configuration, the store and the login.
Effects ==
  /\ Validate(chaos')
  /\ store' = [id \in Ids |-> store'[id]]
  /\ \A id \in Ids : store'[id] \in {store[id], NoArticle}
  /\ Len(pendingUser') <= 1
  /\ authenticated' \in BOOLEAN /\ reauthRequired' \in BOOLEAN
  /\ LoginInv'

LEMMA CommandEffects ==
  ASSUME TypeInv, LoginInv, CommandStep
  PROVE  Effects
<1>1. /\ Validate(chaos) /\ store = [id \in Ids |-> store[id]]
      /\ Len(pendingUser) <= 1
      /\ authenticated \in BOOLEAN /\ reauthRequired \in BOOLEAN
  BY DEF TypeInv, TypeOK
<1>2. ASSUME UNCHANGED <<chaos, store, login, verdict, demanded>> PROVE Effects
  BY <1>1, <1>2 DEF Effects, LoginInv, login
<1>3. Len(<<>>) <= 1 /\ \A value : Len(<<value>>) <= 1
  <2>1. \A value : Len(<<value>>) = 1
    OBVIOUS
  <2> QED
    BY <2>1, EmptySeq
<1>4. CASE Inform \/ Quit \/ Unknown \/ Unauthenticated
  BY <1>2, <1>4 DEF Inform, Quit, Unknown, Unauthenticated
<1>5. CASE AuthUsage \/ AuthOutOfSequence
  BY <1>2, <1>5 DEF AuthUsage, AuthOutOfSequence, Authinfo
<1>6. CASE AuthUser
  BY <1>1, <1>3, <1>6 DEF AuthUser, Authinfo, Effects, LoginInv
<1>7. CASE AuthRejected \/ AuthAccepted
  BY <1>1, <1>3, <1>7 DEF AuthRejected, AuthAccepted, Authinfo, Effects, LoginInv
<1>8. CASE Group \/ Stat \/ HeadOrArticle \/ Post \/ OtherControl
  BY <1>2, <1>8 DEF Group, Stat, HeadOrArticle, Post, OtherControl, Allowed, login
<1>9. CASE BodyRefused
  BY <1>1, <1>9 DEF BodyRefused, Allowed, Effects, LoginInv
<1>10. CASE BodyDropped \/ Body
  BY <1>2, <1>10 DEF BodyDropped, Body, BodyAdmitted, Allowed, login
<1>11. CASE Chaos
  <2>1. UNCHANGED <<store, login, verdict, demanded>>
    BY <1>11 DEF Chaos, Allowed, login
  <2>2. Validate(chaos')
    <3> DEFINE parsed == IF Command.rest = <<>> THEN <<Off>>
                         ELSE ParseChaos(Options[Command.rest[1]])
    <3>1. parsed # <<>> => Validate(parsed[1])
      BY ParsedIsValid
    <3>2. chaos' = chaos \/ (parsed # <<>> /\ chaos' = parsed[1])
      BY <1>11 DEF Chaos
    <3> HIDE DEF parsed
    <3> QED
      BY <1>1, <3>1, <3>2
  <2> QED
    BY <1>1, <2>1, <2>2 DEF Effects, LoginInv, login
<1>12. CASE Delete
  <2>1. UNCHANGED <<chaos, login, verdict, demanded>>
    BY <1>12 DEF Delete, Allowed, login
  <2>2. store' = store \/ \E gone : store' = Without(gone)
    BY <1>12 DEF Delete
  <2>3. /\ store' = [id \in Ids |-> store'[id]]
        /\ \A id \in Ids : store'[id] \in {store[id], NoArticle}
    BY <1>1, <2>2 DEF Without
  <2> QED
    BY <1>1, <2>1, <2>3 DEF Effects, LoginInv, login
<1> QED
  BY <1>4, <1>5, <1>6, <1>7, <1>8, <1>9, <1>10, <1>11, <1>12 DEF CommandStep

\* What every step does to the stream and the lines of an article.
LEMMA WireTypes ==
  ASSUME TypeInv, [Next]_vars
  PROVE  /\ toServer' \in Seq(Parts) /\ incoming' \in Seq(Received)
         /\ Len(posted') <= 1
         /\ client' \in {"free", "asked", "invited", "lost"}
         /\ phase' \in Phases
         /\ hungUp' \in BOOLEAN
         /\ phase' # "article" => incoming' = <<>>
<1> USE DEF Phases
<1> DEFINE Goal ==
      /\ toServer' \in Seq(Parts) /\ incoming' \in Seq(Received)
      /\ Len(posted') <= 1
      /\ client' \in {"free", "asked", "invited", "lost"}
      /\ phase' \in Phases
      /\ hungUp' \in BOOLEAN
      /\ phase' # "article" => incoming' = <<>>
<1>1. /\ toServer \in Seq(Parts) /\ incoming \in Seq(Received)
      /\ Len(posted) <= 1
      /\ client \in {"free", "asked", "invited", "lost"}
      /\ phase \in Phases
      /\ hungUp \in BOOLEAN
      /\ phase # "article" => incoming = <<>>
  BY DEF TypeInv, TypeOK
<1>2. /\ Len(<<>>) <= 1 /\ <<>> \in Seq(Received)
      /\ \A article : Len(<<article>>) <= 1
  <2>1. \A article : Len(<<article>>) = 1
    OBVIOUS
  <2> QED
    BY <2>1, EmptySeq
<1>3. toServer # <<>> => Tail(toServer) \in Seq(Parts)
  BY Unread1
<1>4. CASE CommandStep
  <2>1. PICK next : Serve(next)
    BY <1>4, CommandServes
  <2>2. /\ phase = "command" /\ toServer # <<>> /\ toServer' = Tail(toServer)
        /\ phase' = next /\ next \in {"command", "status", "article", "closed"}
        /\ incoming' = incoming /\ posted' = posted /\ hungUp' = hungUp
        /\ client' \in {"free", "invited", "lost", client}
    BY <2>1 DEF Serve, Serves
  <2> QED
    BY <1>1, <1>3, <2>2 DEF BodyPhases
<1>5. CASE ReadLine
  <2>1. Command \in Lines /\ unstuff(Command) \in Received
    BY <1>5, Unread1 DEF ReadLine, Received
  <2> QED
    BY <1>1, <1>3, <1>5, <2>1 DEF ReadLine, history
<1>6. CASE Finish
  BY <1>1, <1>2, <1>3, <1>6 DEF Finish, EndPost
<1>7. ASSUME TooLong, Overrun PROVE toServer' \in Seq(Parts)
  <2>1. Part("rest", Blank) \in Parts
    BY DEF Part, Parts, Lines
  <2>2. 1 \in 1..Len(toServer)
    BY <1>7, Unread1 DEF TooLong
  <2>3. toServer' = [toServer EXCEPT ![1] = Part("rest", Blank)]
    BY <1>7 DEF Overrun
  <2> QED
    BY <1>1, <2>1, <2>2, <2>3, ExceptSeq
<1>8. CASE Abandon \/ ArticleEnds
  BY <1>1, <1>2, <1>7, <1>8 DEF Abandon, ArticleEnds, EndPost
<1>9. CASE Greet \/ StreamEnds
  BY <1>1, <1>7, <1>9 DEF Greet, StreamEnds, wire, history
<1>10. ASSUME NEW command \in Commands, Send(command) PROVE Goal
  <2>1. Part("command", command) \in Parts
    BY DEF Part, Parts, Lines
  <2>2. toServer' = Append(toServer, Part("command", command))
    BY <1>10 DEF Send
  <2>3. toServer' \in Seq(Parts)
    BY <1>1, <2>1, <2>2, AppendProperties
  <2> QED
    BY <1>1, <1>10, <2>3 DEF Send
<1>11. ASSUME NEW article \in Articles, NEW length \in 0..Len(article) + 1,
              SendArticle(article, length)
       PROVE  Goal
  <2> DEFINE text == Stuffed(article)
             sent == [i \in 1..length |-> Part("article", text[i])]
  <2>1. /\ Len(article) \in Nat
        /\ \A i \in 1..Len(article) + 1 : text[i] \in Lines
    BY StuffedText
  <2>2. length \in Nat /\ length <= Len(article) + 1
    BY <2>1
  <2>3. ASSUME NEW i \in 1..length PROVE Part("article", text[i]) \in Parts
    <3>1. i \in 1..Len(article) + 1
      BY <2>1, <2>2
    <3> QED
      BY <2>1, <3>1 DEF Part, Parts
  <2>4. sent \in Seq(Parts)
    BY <2>2, <2>3, IsASeq
  <2>5. toServer' = toServer \o sent
    BY <1>11 DEF SendArticle
  <2> HIDE DEF sent
  <2>6. toServer' \in Seq(Parts)
    BY <1>1, <2>4, <2>5
  <2>7. posted' \in {<<>>, <<article>>}
    BY <1>11 DEF SendArticle
  <2>8. hungUp' \in BOOLEAN
    <3>1. hungUp' = (length < Len(text))
      BY <1>11 DEF SendArticle
    <3>2. (length < Len(text)) \in BOOLEAN
      OBVIOUS
    <3> QED
      BY <3>1, <3>2
  <2> QED
    BY <1>1, <1>2, <1>11, <2>6, <2>7, <2>8 DEF SendArticle
<1>12. CASE HangUp \/ UNCHANGED vars
  BY <1>1, <1>12 DEF HangUp, vars, wire, history
<1>13. ASSUME NEW config \in Profiles, SetChaos(config) PROVE Goal
  <2>1. SetMoves
    BY <1>13, SetGoes
  <2> QED
    BY <1>1, <2>1 DEF SetMoves, BodyPhases, Held, wire, history
<1>14. CASE BodyStep
  <2>1. BodyMoves
    BY <1>14, BodyGoes
  <2> QED
    BY <1>1, <2>1 DEF BodyMoves, BodyPhases, Held, history
<1> QED
  BY <1>4, <1>5, <1>6, <1>8, <1>9, <1>10, <1>11, <1>12, <1>13, <1>14
     DEF Next, Server, Client, CommandStep, BodyStep, Closed

\* What every step but a command does to the configuration, the store and the
\* login.
LEMMA QuietEffects ==
  ASSUME TypeInv, LoginInv, [Next]_vars, ~CommandStep
  PROVE  /\ Validate(chaos') /\ UNCHANGED <<login, verdict, demanded>>
         /\ store' = [id \in Ids |-> store'[id]]
         /\ store' # store => Finish
         /\ \A id \in Ids : store'[id] # NoArticle => IsSequence(store'[id])
<1>1. /\ Validate(chaos) /\ store = [id \in Ids |-> store[id]]
      /\ \A id \in Ids : store[id] # NoArticle => IsSequence(store[id])
  BY DEF TypeInv, TypeOK
<1>2. CASE ReadLine \/ Abandon \/ ArticleEnds \/ Greet \/ StreamEnds
  BY <1>1, <1>2
     DEF ReadLine, Abandon, ArticleEnds, EndPost, Greet, StreamEnds, history
<1>3. CASE Finish
  <2>1. Validate(chaos') /\ UNCHANGED <<login, verdict, demanded>>
    BY <1>1, <1>3 DEF Finish, EndPost
  <2>2. store' = store \/ \E id : store' = [store EXCEPT ![id] = incoming]
    BY <1>3 DEF Finish
  <2>3. IsSequence(incoming)
    <3>1. incoming \in Seq(Received)
      BY DEF TypeInv
    <3> QED
      BY <3>1 DEF IsSequence
  <2> QED
    BY <1>1, <1>3, <2>1, <2>2, <2>3
<1>4. CASE Client
  BY <1>1, <1>4 DEF Client, Send, SendArticle, HangUp, history
<1>5. ASSUME NEW config \in Profiles, SetChaos(config)
      PROVE  Validate(chaos') /\ UNCHANGED <<store, login, verdict, demanded>>
  BY <1>5, SetGoes DEF SetMoves, history
<1>7. CASE BodyStep
  <2>1. BodyMoves
    BY <1>7, BodyGoes
  <2> QED
    BY <1>1, <2>1 DEF BodyMoves, history
<1>6. CASE UNCHANGED vars
  BY <1>1, <1>6 DEF vars, history
<1> QED
  BY <1>1, <1>2, <1>3, <1>4, <1>5, <1>6, <1>7
     DEF Next, Server, CommandStep, BodyStep, Closed

\* The first command decides whether a connection is counted, and its end
\* whether it still is.
LEMMA CountStep ==
  ASSUME TypeInv, CountInv, [Next]_vars
  PROVE  /\ CountInv' /\ Len(first') <= 1
         /\ classified' \in BOOLEAN /\ control' \in BOOLEAN /\ counted' \in BOOLEAN
<1> DEFINE Goal ==
      /\ CountInv' /\ Len(first') <= 1
      /\ classified' \in BOOLEAN /\ control' \in BOOLEAN /\ counted' \in BOOLEAN
<1>1. /\ classified \in BOOLEAN /\ control \in BOOLEAN /\ counted \in BOOLEAN
      /\ Len(first) <= 1
  BY DEF TypeInv, TypeOK
<1>2. <<TRUE>> # <<FALSE>> /\ <<TRUE>> # <<>> /\ <<FALSE>> # <<>>
  OBVIOUS
<1>3. ASSUME UNCHANGED <<first, classified, control>>,
             phase # "closed", phase' # "greet",
             counted' = (counted /\ phase' # "closed")
      PROVE  Goal
  BY <1>1, <1>3 DEF CountInv, OnlyControlChannelsUncounted
<1>4. CASE CommandStep
  <2>1. PICK next : Serve(next)
    BY <1>4, CommandServes
  <2> DEFINE declares == isControlDeclaration(Command)
  <2>2. /\ phase = "command" /\ phase' = next
        /\ next \in {"command", "status", "article", "closed"}
        /\ classified' = TRUE
        /\ control' = (IF classified THEN control ELSE declares)
        /\ counted' = (next # "closed" /\ (counted \/ (~classified /\ ~declares)))
        /\ first' = IF first = <<>> THEN <<declares>> ELSE first
    BY <2>1 DEF Serve, Serves, Classify
  <2>3. declares \in BOOLEAN
    BY DEF isControlDeclaration
  <2> HIDE DEF declares
  <2>4. CASE classified
    BY <1>1, <2>2, <2>4 DEF CountInv, OnlyControlChannelsUncounted
  <2>5. CASE ~classified
    <3>1. first = <<>> /\ ~counted
      BY <1>2, <2>5 DEF CountInv, OnlyControlChannelsUncounted
    <3>2. CASE declares = TRUE
      <4>1. first' = <<TRUE>> /\ counted' = FALSE /\ control' = TRUE
        BY <2>2, <2>5, <3>1, <3>2
      <4>2. Len(first') <= 1
        BY <4>1
      <4>3. CountInv'
        BY <1>2, <2>2, <4>1 DEF CountInv, OnlyControlChannelsUncounted
      <4> QED
        BY <2>2, <4>1, <4>2, <4>3
    <3>3. CASE declares = FALSE
      <4>1. first' = <<FALSE>> /\ counted' = (next # "closed") /\ control' = FALSE
        BY <2>2, <2>5, <3>1, <3>3
      <4>2. Len(first') <= 1
        BY <4>1
      <4>3. CountInv'
        BY <1>2, <2>2, <4>1 DEF CountInv, OnlyControlChannelsUncounted
      <4> QED
        BY <2>2, <4>1, <4>2, <4>3
    <3> QED
      BY <2>3, <3>2, <3>3
  <2> QED
    BY <1>1, <2>4, <2>5
<1>5. CASE Finish \/ Abandon \/ ArticleEnds
  BY <1>3, <1>5 DEF Finish, Abandon, ArticleEnds, EndPost
<1>6. CASE ReadLine
  BY <1>1, <1>6 DEF ReadLine, class, history, CountInv, OnlyControlChannelsUncounted
<1>7. CASE StreamEnds
  BY <1>3, <1>7 DEF StreamEnds, history
<1>8. CASE Greet
  <2>1. ~classified /\ first = <<>>
    BY <1>8 DEF Greet, CountInv
  <2>2. UNCHANGED <<first, classified, control, counted>> /\ phase' # "greet"
    BY <1>8 DEF Greet, class, history
  <2>3. ~counted
    BY <1>2, <2>1 DEF CountInv, OnlyControlChannelsUncounted
  <2> QED
    BY <1>1, <1>2, <2>1, <2>2, <2>3 DEF CountInv, OnlyControlChannelsUncounted
<1>9. CASE Client \/ UNCHANGED vars
  <2>1. UNCHANGED <<phase, first, class>>
    BY <1>9 DEF Client, Send, SendArticle, HangUp, vars, history
  <2> QED
    BY <1>1, <2>1 DEF class, CountInv, OnlyControlChannelsUncounted
<1>10. ASSUME NEW config \in Profiles, SetChaos(config) PROVE Goal
  <2>1. /\ UNCHANGED <<first, class>> /\ phase # "closed"
        /\ phase' = phase \/ phase' \in {"lines", "write"}
    BY <1>10, SetGoes DEF SetMoves, history
  <2> QED
    BY <1>1, <2>1 DEF class, CountInv, OnlyControlChannelsUncounted
<1>11. CASE BodyStep
  <2>1. BodyMoves
    BY <1>11, BodyGoes
  <2>2. /\ UNCHANGED <<first, classified, control>>
        /\ phase # "closed" /\ phase' # "greet"
        /\ counted' = (counted /\ phase' # "closed")
    BY <2>1 DEF BodyMoves, BodyPhases, Held, history
  <2> QED
    BY <1>3, <2>2
<1> QED
  BY <1>4, <1>5, <1>6, <1>7, <1>8, <1>9, <1>10, <1>11
     DEF Next, Server, CommandStep, BodyStep, Closed

\* A body is begun by a BODY only, with the lines its article has.
LEMMA BodyTypes ==
  ASSUME TypeInv, [Next]_vars
  PROVE  /\ body' # <<>> <=> phase' \in BodyPhases
         /\ body' # <<>> =>
              /\ body' = <<[id |-> body'[1].id, chaos |-> body'[1].chaos, left |-> body'[1].left]>>
              /\ Len(body') = 1 /\ Left' \in Nat
         /\ phase' \in {"heldLine", "write"} => Left' > 0
<1> DEFINE Goal ==
      /\ body' # <<>> <=> phase' \in BodyPhases
      /\ body' # <<>> =>
           /\ body' = <<[id |-> body'[1].id, chaos |-> body'[1].chaos, left |-> body'[1].left]>>
           /\ Len(body') = 1 /\ Left' \in Nat
      /\ phase' \in {"heldLine", "write"} => Left' > 0
<1> USE DEF BodyPhases, Held
<1>1. /\ body # <<>> <=> phase \in BodyPhases
      /\ body # <<>> =>
           /\ body = <<[id |-> body[1].id, chaos |-> body[1].chaos, left |-> body[1].left]>>
           /\ Len(body) = 1 /\ Left \in Nat
      /\ phase \in {"heldLine", "write"} => Left > 0
  BY DEF TypeInv, TypeOK
<1>2. \A x : Len(<<x>>) = 1 /\ <<x>> # <<>>
  OBVIOUS
<1>3. ASSUME UNCHANGED body,
             phase' = phase \/ (phase \notin BodyPhases /\ phase' \notin BodyPhases)
      PROVE  Goal
  BY <1>1, <1>3 DEF Left
<1>4. CASE CommandStep
  <2>1. PICK next : Serve(next)
    BY <1>4, CommandServes
  <2>2. /\ phase = "command" /\ phase' = next /\ (next # "status" => UNCHANGED body)
        /\ next \in {"command", "status", "article", "closed"}
    BY <2>1 DEF Serve, Serves
  <2>3. CASE next # "status"
    BY <1>3, <2>2, <2>3
  <2>4. CASE next = "status"
    <3>1. CASE Body
      <4>1. Exists /\ \E corrupted : \E n \in LinesAfter(Len(articleBody(store[Command.rest[1]])), corrupted) :
              body' = <<[id |-> Command.rest[1], chaos |-> chaos, left |-> n]>>
        BY <2>2, <2>4, <3>1 DEF Body, BodyAdmitted, Allowed, Handles, Serves
      <4> DEFINE length == Len(articleBody(store[Command.rest[1]]))
      <4>2. length \in Nat
        BY <4>1, BodyLength DEF Exists, TypeInv
      <4> HIDE DEF length
      <4>3. PICK n \in Nat : body' = <<[id |-> Command.rest[1], chaos |-> chaos, left |-> n]>>
        BY <4>1, <4>2 DEF LinesAfter, length
      <4> QED
        BY <1>2, <2>2, <2>4, <4>3 DEF Left
    <3>2. ASSUME ~Body PROVE phase' # "status"
      BY <1>4, <3>2
         DEF CommandStep, Inform, Quit, Unknown, AuthUsage, AuthUser, AuthOutOfSequence,
             AuthRejected, AuthAccepted, Authinfo, Unauthenticated, Group, Stat, HeadOrArticle,
             BodyRefused, BodyDropped, BodyAdmitted, Post, Chaos, Delete, OtherControl,
             Allowed, Handles, Serves
    <3> QED
      BY <2>2, <2>4, <3>1, <3>2
  <2> QED
    BY <2>3, <2>4
<1>5. CASE BodyStep
  <2>1. BodyMoves
    BY <1>5, BodyGoes
  <2>2. CASE phase' \in BodyPhases
    BY <1>2, <2>1, <2>2 DEF BodyMoves
  <2>3. CASE phase' \notin BodyPhases
    BY <2>1, <2>3 DEF BodyMoves
  <2> QED
    BY <2>2, <2>3
<1>6. ASSUME NEW config \in Profiles, SetChaos(config) PROVE Goal
  <2>1. SetMoves
    BY <1>6, SetGoes
  <2> QED
    BY <1>1, <2>1 DEF SetMoves, Left
<1>7. CASE Greet \/ StreamEnds \/ ReadLine \/ Finish \/ Abandon \/ ArticleEnds
  BY <1>3, <1>7 DEF Greet, StreamEnds, ReadLine, Finish, Abandon, ArticleEnds, EndPost
<1>8. CASE Client \/ UNCHANGED vars
  BY <1>3, <1>8 DEF Client, Send, SendArticle, HangUp, vars
<1> QED
  BY <1>4, <1>5, <1>6, <1>7, <1>8 DEF Next, Server, CommandStep, BodyStep, Closed

-----------------------------------------------------------------------------
(***************************************************************************)
(* The theorems.                                                           *)
(***************************************************************************)
LEMMA SessionStep == SessionInv /\ [Next]_vars => SessionInv'
<1> SUFFICES ASSUME TypeInv, LoginInv, CountInv, StreamInv, [Next]_vars
             PROVE  SessionInv'
  BY DEF SessionInv
<1>1. /\ Validate(chaos') /\ store' = [id \in Ids |-> store'[id]]
      /\ Len(pendingUser') <= 1
      /\ authenticated' \in BOOLEAN /\ reauthRequired' \in BOOLEAN
      /\ LoginInv'
  <2>1. CASE CommandStep
    BY <2>1, CommandEffects DEF Effects
  <2>2. CASE ~CommandStep
    BY <2>2, QuietEffects DEF login, LoginInv, TypeInv, TypeOK
  <2> QED
    BY <2>1, <2>2
<1>2. DOMAIN store' = Ids
  BY <1>1
<1>4. \A id \in Ids : store'[id] # NoArticle => IsSequence(store'[id])
  <2>1. CASE CommandStep
    BY <2>1, CommandEffects DEF Effects, TypeInv
  <2>2. CASE ~CommandStep
    BY <2>2, QuietEffects
  <2> QED
    BY <2>1, <2>2
<1>3. TypeInv'
  BY <1>1, <1>2, <1>4, WireTypes, BodyTypes, CountStep DEF TypeInv, TypeOK
<1> QED
  BY <1>1, <1>3, CountStep, StreamStep DEF SessionInv

\* The server's flags, the stream and the article being read agree at every
\* moment with what the client has sent and was told.
THEOREM SessionInvariant == Spec => []SessionInv
<1> QED
  BY InitSession, SessionStep, PTL DEF Spec

\* The variables of a session keep their types, and no configuration that
\* Validate refuses is ever in force.
THEOREM TypeCorrect == Spec => []TypeOK
<1>1. SessionInv => TypeOK
  BY DEF SessionInv, TypeInv
<1> QED
  BY <1>1, SessionInvariant, PTL

\* A connection counts as a session from its first command to its end unless
\* that command was MODE CONTROL (handleConnection, endSession).
THEOREM CountedSessions == Spec => []OnlyControlChannelsUncounted
<1>1. SessionInv => OnlyControlChannelsUncounted
  BY DEF SessionInv, CountInv
<1> QED
  BY <1>1, SessionInvariant, PTL

\* The command loop reads commands and readPostedArticle the article, over
\* over-long lines, broken and refused postings; only a posting the server
\* gave up before its end makes one read what was meant for the other.
THEOREM LinesKeep == Spec => LinesKeepTheirMeaning
<1>1. ASSUME SessionInv, Misread PROVE abandoned
  <2> SUFFICES ASSUME ~abandoned PROVE FALSE
    OBVIOUS
  <2>1. toServer # <<>> /\ TypeInv /\ StreamInv
    BY <1>1 DEF Misread, SessionInv
  <2>2. Unread = toServer[1] /\ 1 \in 1..Len(toServer)
    BY <2>1, Unread1
  <2>3. CASE phase = "command"
    <3>1. Unread.as = "command"
      BY <2>1, <2>2, <2>3 DEF StreamInv, CommandsFrom
    <3> QED
      BY <1>1, <2>3, <3>1 DEF Misread
  <2>4. CASE phase = "article"
    <3>1. CASE CutShort
      BY <1>1, <2>2, <2>4, <3>1 DEF CutShort, Misread
    <3>2. ASSUME NEW article \in Articles, Whole(article) PROVE FALSE
      <4> DEFINE m == Len(incoming)
                 k == Len(article)
      <4>1. m \in Nat /\ k \in Nat /\ m <= k
        BY <2>1, <3>2, StuffedText DEF TypeInv, Whole
      <4>2. \A i \in 1..k + 1 - m : toServer[i] = Part("article", Stuffed(article)[m + i])
        BY <3>2 DEF Whole
      <4> HIDE DEF m, k
      <4>3. 1 \in 1..k + 1 - m
        BY <4>1
      <4>4. Unread = Part("article", Stuffed(article)[m + 1])
        BY <2>2, <4>2, <4>3
      <4>5. Unread.as = "article"
        BY <4>4 DEF Part
      <4> QED
        BY <1>1, <2>4, <4>5 DEF Misread
    <3> QED
      BY <2>1, <2>4, <3>1, <3>2 DEF StreamInv, Awaiting
  <2> QED
    BY <1>1, <2>3, <2>4 DEF Misread
<1>2. SessionInv => [Misread => abandoned]_vars
  BY <1>1
<1> QED
  BY <1>2, SessionInvariant, PTL DEF LinesKeepTheirMeaning

\* What a POST stores is the article the client sent for it, whole and under
\* its own ID (readPostedArticle, handlePost).
THEOREM StoredIsPosted == Spec => StoredAsPosted
<1> DEFINE Stored(id) ==
      store'[id] \notin {store[id], NoArticle} /\ ~abandoned =>
        /\ posted = <<store'[id]>>
        /\ messageIDFromHeaders(header(store'[id])) = <<id>>
<1>1. ASSUME SessionInv, [Next]_vars, NEW id \in Ids,
             store'[id] \notin {store[id], NoArticle}, ~abandoned
      PROVE  /\ posted = <<store'[id]>>
             /\ messageIDFromHeaders(header(store'[id])) = <<id>>
  <2>1. TypeInv /\ LoginInv /\ StreamInv
    BY <1>1 DEF SessionInv
  <2>2. Finish
    <3>1. ~CommandStep
      BY <1>1, <2>1, CommandEffects DEF Effects
    <3> QED
      BY <1>1, <2>1, <3>1, QuietEffects
  <2>3. /\ phase = "article" /\ toServer # <<>> /\ Command = Terminator
        /\ store = [x \in Ids |-> store[x]]
    BY <2>1, <2>2 DEF Finish, TypeInv
  <2>4. PICK article \in Articles : Whole(article)
    <3>1. ~Awaiting
      BY <2>3 DEF Awaiting
    <3>2. ~CutShort
      BY <2>1, <2>3, Unread1 DEF CutShort
    <3> QED
      BY <1>1, <2>1, <2>3, <3>1, <3>2 DEF StreamInv
  <2>5. incoming = article
    <3>1. Len(incoming) = Len(article) /\ article \in Seq(Texts)
      BY <2>1, <2>3, <2>4, LastLine, StuffedText
    <3>2. \A i \in 1..Len(incoming) : incoming[i] = article[i]
      BY <2>4 DEF Whole
    <3>3. incoming \in Seq(Received \cup Texts) /\ article \in Seq(Received \cup Texts)
      BY <2>1, <3>1, SeqMonotonic DEF TypeInv
    <3> QED
      BY <3>1, <3>2, <3>3, SeqEqual
  <2>6. posted = <<article>>
    BY <2>4 DEF Whole
  <2> DEFINE named == messageIDFromHeaders(header(incoming))
  <2>7. named # <<>> /\ store' = [store EXCEPT ![named[1]] = incoming]
    BY <1>1, <2>2 DEF Finish
  <2>8. named \in {<<>>} \cup {<<x>> : x \in Ids}
    BY <2>5, ArticlesAssumption
  <2> HIDE DEF named
  <2>9. PICK x \in Ids : named = <<x>>
    BY <2>7, <2>8
  <2>10. store' = [store EXCEPT ![x] = incoming]
    BY <2>7, <2>9
  <2>11. x = id /\ store'[id] = incoming
    BY <1>1, <2>3, <2>10
  <2> QED
    BY <2>5, <2>6, <2>9, <2>11 DEF named
<1>2. SessionInv /\ [Next]_vars => [\A id \in Ids : Stored(id)]_vars
  BY <1>1
<1> QED
  BY <1>2, SessionInvariant, PTL DEF Spec, StoredAsPosted

\* Only the command loop takes a line from the stream while it reads commands.
LEMMA ServingIsCommand ==
  ASSUME TypeInv, [Next]_vars, Serving
  PROVE  CommandStep
<1> SUFFICES ASSUME ~CommandStep PROVE FALSE
  OBVIOUS
<1>1. /\ phase = "command" /\ toServer # <<>>
      /\ Len(toServer') = Len(toServer) - 1
      /\ Len(toServer) \in Nat /\ Len(toServer) > 0
      /\ toServer \in Seq(Parts)
  BY Unread1 DEF Serving, TypeInv
<1>2. Len(toServer') # Len(toServer) /\ toServer' # toServer
  BY <1>1
<1>3. ~StreamEnds
  <2>1. Overrun => Len(toServer') = Len(toServer)
    <3>1. Part("rest", Blank) \in Parts
      BY DEF Part, Parts, Lines
    <3> QED
      BY <1>1, <3>1, ExceptSeq DEF Overrun
  <2> QED
    BY <1>1, <1>2, <2>1 DEF StreamEnds
<1>4. ASSUME NEW command \in Commands, Send(command) PROVE FALSE
  <2>1. Part("command", command) \in Parts
    BY DEF Part, Parts, Lines
  <2>2. toServer' = Append(toServer, Part("command", command))
    BY <1>4 DEF Send
  <2>3. Len(toServer') = Len(toServer) + 1
    BY <1>1, <2>1, <2>2, AppendProperties
  <2> QED
    BY <1>1, <2>3
<1>5. ASSUME NEW article \in Articles, NEW length \in 0..Len(article) + 1,
             SendArticle(article, length)
      PROVE  FALSE
  <2> DEFINE text == Stuffed(article)
             sent == [i \in 1..length |-> Part("article", text[i])]
             any  == {Part("article", text[i]) : i \in 1..length}
  <2>1. length \in Nat
    BY StuffedText
  <2>2. \A i \in 1..length : Part("article", text[i]) \in any
    OBVIOUS
  <2>3. sent \in Seq(any)
    BY <2>1, <2>2, IsASeq
  <2>4. toServer' = toServer \o sent
    BY <1>5 DEF SendArticle
  <2>5. Len(sent) \in Nat /\ sent \in Seq(Parts \cup any) /\ toServer \in Seq(Parts \cup any)
    BY <1>1, <2>3, SeqMonotonic
  <2> HIDE DEF sent, any
  <2>6. Len(toServer') = Len(toServer) + Len(sent)
    BY <2>4, <2>5, ConcatProperties
  <2> QED
    BY <1>1, <2>5, <2>6
<1>6. ~(HangUp \/ UNCHANGED vars \/ \E config \in Profiles : SetChaos(config))
  BY <1>2 DEF HangUp, SetChaos, vars, wire
<1>8. ~BodyStep
  BY <1>1 DEF BodyStep, CheckHeld, WaitForLine, WriteLine, EndBody, GiveUp, Held
<1>7. ~(Greet \/ ReadLine \/ Finish \/ Abandon \/ ArticleEnds \/ Closed)
  BY <1>1 DEF Greet, ReadLine, Finish, Abandon, ArticleEnds, Closed
<1> QED
  BY <1>3, <1>4, <1>5, <1>6, <1>7, <1>8 DEF Next, Server, Client, CommandStep, BodyStep

\* Which commands there are for whom: without a login a restricted one gets
\* 480 and changes nothing.
LEMMA LoggedOut ==
  ASSUME LoginInv, CommandStep, verdict # "accepted"
  PROVE  /\ Command.dots = 0 /\ Command.word \in Restricted => reply' = "480"
         /\ UNCHANGED <<store, chaos>>
<1>1. ~authenticated
  BY DEF LoginInv
<1>2. \A word \in {"CAPABILITIES", "DATE", "MODE", "QUIT", "AUTHINFO"} : word \notin Restricted
  BY DEF Restricted, ControlWords
<1>3. CASE Inform \/ Quit \/ Unknown
  <2>1. CASE Inform \/ Quit
    <3>1. Command.word \in {"CAPABILITIES", "DATE", "MODE", "QUIT"} /\ UNCHANGED <<store, chaos>>
      BY <2>1 DEF Inform, Quit, Handles
    <3> QED
      BY <1>2, <3>1
  <2>2. CASE Unknown
    <3>1. UNCHANGED <<store, chaos>> /\ (Command.dots > 0 \/ Command.word \notin Restricted)
      BY <2>2 DEF Unknown
    <3>2. ~(0 > 0)
      OBVIOUS
    <3> QED
      BY <3>1, <3>2
  <2> QED
    BY <1>3, <2>1, <2>2
<1>4. CASE AuthUsage \/ AuthUser \/ AuthOutOfSequence \/ AuthRejected \/ AuthAccepted
  BY <1>2, <1>4
     DEF AuthUsage, AuthUser, AuthOutOfSequence, AuthRejected, AuthAccepted, Authinfo, Handles
<1>5. CASE Unauthenticated
  BY <1>5 DEF Unauthenticated, Answer
<1>6. ~(Group \/ Stat \/ HeadOrArticle \/ BodyRefused \/ BodyDropped \/ Body
        \/ Post \/ Chaos \/ Delete \/ OtherControl)
  BY <1>1 DEF Group, Stat, HeadOrArticle, BodyRefused, BodyDropped, Body, BodyAdmitted,
              Post, Chaos, Delete, OtherControl, Allowed
<1> QED
  BY <1>3, <1>4, <1>5, <1>6 DEF CommandStep

\* Unless the last PASS was accepted, restricted commands get 480 and neither
\* the store nor the faults change (handleAuthentication, handleConnection).
THEOREM LoggedInOnly == Spec => OnlyWhileLoggedIn
<1> DEFINE Kept ==
      Serving /\ verdict # "accepted" =>
        /\ Command.dots = 0 /\ Command.word \in Restricted => reply' = "480"
        /\ UNCHANGED <<store, chaos>>
<1>1. SessionInv /\ [Next]_vars => Kept
  BY ServingIsCommand, LoggedOut DEF SessionInv
<1>2. SessionInv /\ [Next]_vars => [Kept]_vars
  BY <1>1
<1> QED
  BY <1>2, SessionInvariant, PTL DEF Spec, OnlyWhileLoggedIn

LEMMA BodyNeedsLogin ==
  ASSUME LoginInv, CommandStep, demanded, Command.dots = 0, Command.word = "BODY"
  PROVE  reply' = "480" /\ phase' = "command" /\ demanded'
<1>1. reauthRequired
  BY DEF LoginInv
<1>2. "BODY" \in Restricted
  BY DEF Restricted
<1>3. CASE Unauthenticated
  BY <1>3 DEF Unauthenticated, Handles, Serves, Answer
<1>4. CASE BodyRefused
  BY <1>4 DEF BodyRefused, Allowed, Handles, Serves, Answer
<1>5. ~(BodyDropped \/ Body)
  BY <1>1 DEF BodyDropped, Body, BodyAdmitted
<1>6. ~(Inform \/ Quit \/ Unknown)
  <2>1. ~(Inform \/ Quit)
    BY DEF Inform, Quit, Handles
  <2>2. ASSUME Unknown PROVE FALSE
    <3>1. Command.dots > 0 \/ Command.word \notin Restricted
      BY <2>2 DEF Unknown
    <3>2. ~(0 > 0)
      OBVIOUS
    <3> QED
      BY <1>2, <3>1, <3>2
  <2> QED
    BY <2>1, <2>2
<1>7. ~(AuthUsage \/ AuthUser \/ AuthOutOfSequence \/ AuthRejected \/ AuthAccepted)
  BY DEF AuthUsage, AuthUser, AuthOutOfSequence, AuthRejected, AuthAccepted, Authinfo, Handles
<1>8. ~(Group \/ Stat \/ HeadOrArticle \/ Post \/ Chaos \/ Delete \/ OtherControl)
  BY DEF Group, Stat, HeadOrArticle, Post, Chaos, Delete, OtherControl, Allowed, Handles
<1> QED
  BY <1>3, <1>4, <1>5, <1>6, <1>7, <1>8 DEF CommandStep

\* A client told to authenticate anew gets 480 for every BODY until a PASS is
\* accepted (reauthRequired in handleConnection).
THEOREM ReauthBinds == Spec => ReauthenticationBinds
<1> DEFINE Bound ==
      Serving /\ demanded /\ Command.dots = 0 /\ Command.word = "BODY" =>
        reply' = "480" /\ phase' = "command" /\ demanded'
<1>1. SessionInv /\ [Next]_vars => Bound
  BY ServingIsCommand, BodyNeedsLogin DEF SessionInv
<1>2. SessionInv /\ [Next]_vars => [Bound]_vars
  BY <1>1
<1> QED
  BY <1>2, SessionInvariant, PTL DEF Spec, ReauthenticationBinds

-----------------------------------------------------------------------------
(***************************************************************************)
(* The text of articles: searches, and what a client reads of a reply.     *)
(***************************************************************************)
IsText(lines) ==
  /\ Len(lines) \in Nat /\ lines = [i \in 1..Len(lines) |-> lines[i]]
  /\ \A i \in 1..Len(lines) :
       /\ lines[i].dots \in Nat
       /\ lines[i] = Line(lines[i].dots, lines[i].word, lines[i].rest)

\* Each line is read as it was before it was stuffed, and stuffing makes no
\* terminator: so the reply ends where it should.
LEMMA ReadBack ==
  ASSUME NEW lines, IsText(lines)
  PROVE  ClientReads(writeDotStuffed(lines)) = lines
<1> DEFINE n == Len(lines)
           stuffed == [i \in 1..n |-> dotStuff(lines[i])]
           text == Append(stuffed, Terminator)
           all == {dotStuff(lines[i]) : i \in 1..n} \cup {Terminator}
           taken(line) == IF line.dots = 0 THEN line ELSE Line(line.dots - 1, line.word, line.rest)
<1>1. n \in Nat /\ DOMAIN lines = 1..n /\ lines = [i \in 1..n |-> lines[i]]
  BY DEF IsText
<1>2. stuffed \in Seq(all) /\ Len(stuffed) = n
  <2>1. \A i \in 1..n : dotStuff(lines[i]) \in all
    OBVIOUS
  <2>2. stuffed \in Seq(all)
    BY <1>1, <2>1, IsASeq
  <2> HIDE DEF all, n
  <2> QED
    BY <1>1, <2>2
<1>3. /\ text \in Seq(all) /\ Len(text) = n + 1 /\ text[n + 1] = Terminator
      /\ \A i \in 1..n : text[i] = dotStuff(lines[i])
  <2>1. Terminator \in all
    OBVIOUS
  <2>2. \A i \in 1..n : stuffed[i] = dotStuff(lines[i])
    OBVIOUS
  <2> HIDE DEF all, n, stuffed
  <2> QED
    BY <1>1, <1>2, <2>1, <2>2
<1>4. writeDotStuffed(lines) = text
  BY <1>1 DEF writeDotStuffed
<1>5. ASSUME NEW i \in 1..n
      PROVE  dotStuff(lines[i]) # Terminator /\ taken(dotStuff(lines[i])) = lines[i]
  <2>1. PICK d, w, r : d \in Nat /\ lines[i] = [dots |-> d, word |-> w, rest |-> r]
    BY DEF IsText, Line
  <2>2. Terminator.dots = 1
    BY DEF Terminator, Line
  <2>3. CASE d = 0
    <3>1. dotStuff(lines[i]) = lines[i] /\ lines[i].dots = 0
      BY <2>1, <2>3 DEF dotStuff
    <3>2. lines[i] # Terminator
      BY <2>2, <3>1
    <3> QED
      BY <3>1, <3>2
  <2>4. CASE d > 0
    <3>1. dotStuff(lines[i]) = [dots |-> d + 1, word |-> w, rest |-> r]
      BY <2>1, <2>4 DEF dotStuff
    <3>2. d + 1 # 1 /\ d + 1 # 0 /\ d + 1 - 1 = d
      BY <2>1, <2>4
    <3> DEFINE t == dotStuff(lines[i])
    <3>3. t.dots = d + 1 /\ t.word = w /\ t.rest = r
      BY <3>1
    <3> HIDE DEF t
    <3>4. t # Terminator
      BY <2>2, <3>2, <3>3
    <3>5. taken(t) = [dots |-> d, word |-> w, rest |-> r]
      <4>1. t.dots # 0 /\ t.dots - 1 = d
        BY <2>1, <3>2, <3>3
      <4> QED
        BY <3>3, <4>1 DEF Line
    <3> QED
      BY <2>1, <3>4, <3>5 DEF t
  <2> QED
    BY <2>1, <2>3, <2>4
<1> HIDE DEF n, text, stuffed, all, taken
<1> DEFINE I == {i \in 1..Len(text) : text[i] = Terminator}
           end == IF I # {} THEN Min(I) ELSE 0
           read == SubSeq(text, 1, end - 1)
<1>6. end = n + 1 /\ ClientReads(text) = [i \in DOMAIN read |-> taken(read[i])]
  <2>1. I = {n + 1}
    BY <1>1, <1>3, <1>5
  <2>2. Min(I) = n + 1
    BY <1>1, <2>1, MinIs
  <2>3. ClientReads(text) = [i \in DOMAIN read |-> taken(read[i])]
    BY DEF ClientReads, SelectInSeq, taken
  <2> QED
    BY <2>1, <2>2, <2>3
<1>7. /\ Len(SubSeq(text, 1, n)) = n
      /\ DOMAIN SubSeq(text, 1, n) = 1..n
      /\ \A i \in 1..n : SubSeq(text, 1, n)[i] = dotStuff(lines[i])
  <2>1. \A i \in 1..n : text[i] \in all
    BY <1>1, <1>3, ElementOfSeq
  <2>2. /\ SubSeq(text, 1, n) \in Seq(all)
        /\ Len(SubSeq(text, 1, n)) = IF 1 <= n THEN n - 1 + 1 ELSE 0
        /\ \A i \in 1..n - 1 + 1 : SubSeq(text, 1, n)[i] = text[1 + i - 1]
    BY <1>1, <2>1, SubSeqProperties
  <2>3. Len(SubSeq(text, 1, n)) = n
    BY <1>1, <2>2
  <2>4. ASSUME NEW i \in 1..n PROVE SubSeq(text, 1, n)[i] = dotStuff(lines[i])
    <3>1. i \in 1..n - 1 + 1 /\ 1 + i - 1 = i
      BY <1>1
    <3> QED
      BY <1>3, <2>2, <3>1
  <2> QED
    BY <2>2, <2>3, <2>4, LenProperties
<1>8. ClientReads(text) = [i \in 1..n |-> taken(SubSeq(text, 1, n)[i])]
  <2> HIDE DEF end
  <2>1. end - 1 = n
    BY <1>1, <1>6
  <2>2. read = SubSeq(text, 1, n)
    BY <2>1
  <2> HIDE DEF read
  <2> QED
    BY <1>6, <1>7, <2>2
<1>9. ClientReads(text) = [i \in 1..n |-> lines[i]]
  BY <1>5, <1>7, <1>8
<1> QED
  BY <1>1, <1>4, <1>9

LEMMA PartOfText ==
  ASSUME NEW lines, IsText(lines), NEW m \in 1..Len(lines) + 1, NEW n \in 0..Len(lines), m <= n + 1
  PROVE  IsText(SubSeq(lines, m, n)) /\ Len(SubSeq(lines, m, n)) = n - m + 1
         /\ \A i \in 1..n - m + 1 : SubSeq(lines, m, n)[i] = lines[m + i - 1]
<1> DEFINE part == SubSeq(lines, m, n)
           all  == {lines[i] : i \in 1..Len(lines)}
<1>1. Len(lines) \in Nat
  BY DEF IsText
<1>2. \A i \in m..n : lines[i] \in all
  BY <1>1
<1>3. /\ part \in Seq(all)
      /\ Len(part) = IF m <= n THEN n - m + 1 ELSE 0
      /\ \A i \in 1..n - m + 1 : part[i] = lines[m + i - 1]
  <2> HIDE DEF all
  <2> QED
    BY <1>1, <1>2, SubSeqProperties
<1> HIDE DEF part, all
<1>4. Len(part) = n - m + 1
  BY <1>1, <1>3
<1>5. Len(part) \in Nat /\ part = [i \in 1..Len(part) |-> part[i]]
  BY <1>3, LenProperties
<1>6. ASSUME NEW i \in 1..Len(part)
      PROVE  part[i].dots \in Nat /\ part[i] = Line(part[i].dots, part[i].word, part[i].rest)
  <2>1. m + i - 1 \in 1..Len(lines) /\ part[i] = lines[m + i - 1]
    BY <1>1, <1>3, <1>4
  <2> QED
    BY <2>1 DEF IsText
<1> QED
  BY <1>3, <1>4, <1>5, <1>6 DEF IsText, part

\* The header block messageIDFromHeaders looks at is the one articleHeaders and
\* articleBody split off.
LEMMA SplitsAtHeader ==
  ASSUME NEW article, IsText(article), ~IsYEnc(article),
         messageIDFromHeaders(header(article)) # <<>>, Len(header(article)) < Len(article)
  PROVE  /\ Separator(article) = Len(header(article)) + 1
         /\ header(article) = SubSeq(article, 1, Separator(article) - 1)
         /\ Separator(article) \in 2..Len(article)
<1> DEFINE n == Len(article)
           B == {i \in 1..n : article[i] = Blank}
           blank == IF B # {} THEN Min(B) ELSE 0
           block == SubSeq(article, 1, blank - 1)
<1>1. n \in Nat
  BY DEF IsText
<1>2. header(article) = IF blank = 0 THEN article ELSE block
  BY DEF header, SelectInSeq
<1>3. B # {} /\ Min(B) \in B /\ \A i \in 1..Min(B) - 1 : i \notin B
  <2>1. B # {}
    <3>1. ASSUME B = {} PROVE FALSE
      <4>1. blank = 0
        BY <3>1
      <4> HIDE DEF blank
      <4>2. header(article) = article
        BY <1>2, <4>1
      <4> QED
        BY <1>1, <4>2
    <3> QED
      BY <3>1
  <2>2. B \subseteq 1..n
    OBVIOUS
  <2> HIDE DEF B, n
  <2> QED
    BY <1>1, <2>1, <2>2, MinIsFirst
<1>4. blank = Min(B) /\ blank \in 1..n /\ article[blank] = Blank
  BY <1>3
<1> HIDE DEF blank
<1>5. header(article) = block
  <2>1. blank # 0
    BY <1>1, <1>4
  <2> QED
    BY <1>2, <2>1
<1>6. IsText(block) /\ Len(block) = blank - 1
  <2>1. 1 \in 1..n + 1 /\ blank - 1 \in 0..n /\ 1 <= blank - 1 + 1 /\ blank - 1 - 1 + 1 = blank - 1
    BY <1>1, <1>4
  <2> HIDE DEF n
  <2> QED
    BY <2>1, PartOfText DEF n
<1>7. PICK i \in 1..blank - 1 : IsMessageID(block[i])
  <2> DEFINE I == {i \in 1..Len(block) : IsMessageID(block[i])}
  <2>1. messageIDFromHeaders(block)
          = IF (IF I # {} THEN Min(I) ELSE 0) = 0 THEN <<>>
            ELSE block[IF I # {} THEN Min(I) ELSE 0].rest
    BY DEF messageIDFromHeaders, SelectInSeq
  <2>2. I # {}
    <3>1. ASSUME I = {} PROVE FALSE
      BY <1>5, <2>1, <3>1
    <3> QED
      BY <3>1
  <2> QED
    BY <1>6, <2>2
<1>8. blank \in 2..n
  BY <1>1, <1>4, <1>7
<1> DEFINE blanks == {j \in 2..n : article[j] = Blank}
<1>9. Min(blanks) = blank /\ blanks # {}
  <2>1. blank \in blanks
    BY <1>4, <1>8
  <2>2. ASSUME NEW j \in blanks, j < blank PROVE FALSE
    <3>1. j \in 1..Min(B) - 1 /\ j \in B
      BY <1>1, <1>4, <2>2
    <3> QED
      BY <1>3, <3>1
  <2>3. \A other \in blanks : blank <= other
    BY <1>1, <1>4, <2>2
  <2>4. blanks \subseteq Int
    BY <1>1
  <2> HIDE DEF blanks
  <2> QED
    BY <2>1, <2>3, <2>4, MinIs
<1>10. looksLikeHeaders(block)
  <2>1. DOMAIN block = 1..blank - 1
    BY <1>6 DEF IsText
  <2> HIDE DEF block
  <2> QED
    BY <1>7, <2>1 DEF looksLikeHeaders, IsMessageID
<1>11. Separator(article) = blank
  <2>1. Separator(article) =
          IF \/ IsYEnc(article)
             \/ blanks = {}
             \/ ~looksLikeHeaders(SubSeq(article, 1, Min(blanks) - 1))
          THEN 0 ELSE Min(blanks)
    BY DEF Separator
  <2> HIDE DEF blanks
  <2> QED
    BY <1>9, <1>10, <2>1
<1> QED
  BY <1>1, <1>4, <1>5, <1>6, <1>8, <1>11

LEMMA ArticlesAreTexts == \A article \in Articles : IsText(article)
BY ArticlesAssumption DEF IsText

\* So does every article in the store.
LEMMA StoredReadBack == ReadsBackWhatWasPosted
<1> SUFFICES ASSUME NEW id \in Ids, NEW article \in Articles
             PROVE  /\ ClientReads(writeDotStuffed(article)) = article
                    /\ (/\ Len(header(article)) < Len(article) /\ ~IsYEnc(article)
                        /\ messageIDFromHeaders(header(article)) # <<>>) =>
                         /\ ClientReads(writeDotStuffed(articleHeaders(id, article))) = header(article)
                         /\ ClientReads(writeDotStuffed(articleBody(article)))
                              = SubSeq(article, Len(header(article)) + 2, Len(article))
  BY Zenon DEF ReadsBackWhatWasPosted
<1> DEFINE before == Len(header(article))
<1>1. IsText(article)
  BY ArticlesAreTexts
<1>2. ASSUME before < Len(article), ~IsYEnc(article), messageIDFromHeaders(header(article)) # <<>>
      PROVE  /\ ClientReads(writeDotStuffed(articleHeaders(id, article))) = header(article)
             /\ ClientReads(writeDotStuffed(articleBody(article)))
                  = SubSeq(article, before + 2, Len(article))
  <2> DEFINE s == Separator(article)
  <2>1. s = before + 1 /\ header(article) = SubSeq(article, 1, s - 1) /\ s \in 2..Len(article)
    BY <1>1, <1>2, SplitsAtHeader
  <2>2. Len(article) \in Nat
    BY <1>1 DEF IsText
  <2> HIDE DEF s, before
  <2>4. IsText(header(article)) /\ articleHeaders(id, article) = header(article)
        /\ before \in Nat
    <3>1. s # 0 /\ 1 \in 1..Len(article) + 1 /\ s - 1 \in 0..Len(article) /\ 1 <= s - 1 + 1
      BY <2>1, <2>2
    <3> QED
      BY <1>1, <2>1, <3>1, PartOfText DEF articleHeaders, s, before, IsText
  <2>3. s # 0 /\ s + 1 = before + 2
    BY <2>1, <2>2, <2>4
  <2>5. IsText(SubSeq(article, s + 1, Len(article)))
    <3>1. s + 1 \in 1..Len(article) + 1 /\ Len(article) \in 0..Len(article) /\ s + 1 <= Len(article) + 1
      BY <2>1, <2>2
    <3> QED
      BY <1>1, <3>1, PartOfText
  <2>6. articleBody(article) = SubSeq(article, s + 1, Len(article))
    BY <2>3 DEF articleBody, s
  <2> QED
    BY <2>3, <2>4, <2>5, <2>6, ReadBack
<1>3. ClientReads(writeDotStuffed(article)) = article
  BY <1>1, ReadBack
<1> QED
  BY <1>2, <1>3

\* ARTICLE, HEAD and BODY give a client back, line by line, what was posted
\* (writeDotStuffed, dotStuff, articleHeaders, articleBody).
THEOREM ReadsBack == Spec => []ReadsBackWhatWasPosted
<1> QED
  BY StoredReadBack, PTL

-----------------------------------------------------------------------------
(***************************************************************************)
(* What ParseChaos makes of its options, one after the other.              *)
(***************************************************************************)
Names == Percentages \cup Amounts

LEMMA MaxIs ==
  ASSUME NEW R, R \subseteq Int, NEW greatest \in R, \A other \in R : greatest >= other
  PROVE  Max(R) = greatest
<1>1. Max(R) \in R /\ \A other \in R : Max(R) >= other
  BY Zenon DEF Max
<1>2. Max(R) >= greatest /\ greatest >= Max(R) /\ Max(R) \in Int /\ greatest \in Int
  BY <1>1
<1> HIDE DEF Max
<1> QED
  BY <1>2

\* The fold over the sets of positions FoldLeft is defined by.
Folds(f, options, S) ==
  f = [s \in SUBSET S |->
         IF s = {} THEN <<Off>> ELSE Read(f[s \ {Max(s)}], options[Max(s)])]

LEMMA FoldExists ==
  ASSUME NEW options, NEW n \in Nat
  PROVE  \E f : Folds(f, options, 1..n)
<1> DEFINE S == {k \in 0..n : \E f : Folds(f, options, 1..k)}
<1>1. 0 \in S
  <2> DEFINE f == [s \in SUBSET (1..0) |-> <<Off>>]
  <2>1. \A s \in SUBSET (1..0) : s = {}
    OBVIOUS
  <2>2. Folds(f, options, 1..0)
    BY <2>1 DEF Folds
  <2> QED
    BY <2>2
<1>2. ASSUME NEW k \in 0..n - 1, k \in S PROVE k + 1 \in S
  <2>1. PICK f : Folds(f, options, 1..k)
    BY <1>2
  <2> DEFINE g == [s \in SUBSET (1..k + 1) |->
                     IF k + 1 \in s THEN Read(f[s \ {k + 1}], options[k + 1]) ELSE f[s]]
             step(s) == Read(g[s \ {Max(s)}], options[Max(s)])
  <2>2. ASSUME NEW s \in SUBSET (1..k + 1)
        PROVE  g[s] = IF s = {} THEN <<Off>> ELSE step(s)
    <3>1. CASE k + 1 \in s
      <4>1. Max(s) = k + 1
        <5>1. s \subseteq Int /\ \A other \in s : k + 1 >= other
          OBVIOUS
        <5> QED
          BY <3>1, <5>1, MaxIs
      <4>2. s \ {k + 1} \in SUBSET (1..k + 1) /\ k + 1 \notin s \ {k + 1}
        OBVIOUS
      <4> HIDE DEF Folds
      <4>3. g[s \ {k + 1}] = f[s \ {k + 1}]
        BY <4>2
      <4>4. g[s] = Read(f[s \ {k + 1}], options[k + 1])
        BY <3>1
      <4> HIDE DEF g
      <4> QED
        BY <3>1, <4>1, <4>3, <4>4
    <3>2. CASE k + 1 \notin s
      <4>1. s \in SUBSET (1..k)
        BY <3>2
      <4> DEFINE t == s \ {Max(s)}
      <4>2. t \in SUBSET (1..k + 1) /\ k + 1 \notin t
        BY <3>2
      <4>3. g[s] = f[s] /\ g[t] = f[t]
        <5> HIDE DEF t
        <5> QED
          BY <3>2, <4>2
      <4>4. f[s] = IF s = {} THEN <<Off>> ELSE Read(f[t], options[Max(s)])
        BY <2>1, <4>1 DEF Folds
      <4> HIDE DEF g
      <4> QED
        BY <4>3, <4>4
    <3> QED
      BY <3>1, <3>2
  <2>3. g = [s \in SUBSET (1..k + 1) |-> g[s]]
    OBVIOUS
  <2> HIDE DEF g
  <2>4. Folds(g, options, 1..k + 1)
    BY <2>2, <2>3 DEF Folds
  <2> QED
    BY <2>4
<1> HIDE DEF S
<1>3. 0..n \subseteq S
  BY <1>1, <1>2, UpTo
<1> QED
  BY <1>3 DEF S

\* What has been read of the options, one by one.
LEMMA FoldSteps ==
  ASSUME NEW options, NEW n \in Nat, DOMAIN options = 1..n
  PROVE  \E read :
           /\ read[0] = <<Off>> /\ read[n] = FoldLeft(Read, <<Off>>, options)
           /\ \A k \in 0..n - 1 : read[k + 1] = Read(read[k], options[k + 1])
<1> DEFINE f == CHOOSE f : Folds(f, options, 1..n)
           read == [k \in 0..n |-> f[1..k]]
<1>1. Folds(f, options, 1..n)
  BY FoldExists
<1>2. FoldLeft(Read, <<Off>>, options) = f[1..n]
  BY DEF FoldLeft, MapThenFoldSet, Folds
<1> HIDE DEF f
<1>3. f[1..0] = <<Off>>
  <2>1. 1..0 = {} /\ {} \in SUBSET (1..n)
    OBVIOUS
  <2> QED
    BY <1>1, <2>1 DEF Folds
<1>4. ASSUME NEW k \in 0..n - 1 PROVE f[1..k + 1] = Read(f[1..k], options[k + 1])
  <2>1. Max(1..k + 1) = k + 1
    BY MaxIs
  <2>2. 1..k + 1 \in SUBSET (1..n) /\ 1..k + 1 # {} /\ (1..k + 1) \ {k + 1} = 1..k
    <3>1. k + 1 \in 1..k + 1
      OBVIOUS
    <3>2. 1..k + 1 \subseteq 1..n
      OBVIOUS
    <3>3. (1..k + 1) \ {k + 1} = 1..k
      OBVIOUS
    <3> QED
      BY <3>1, <3>2, <3>3
  <2> DEFINE s == 1..k + 1
  <2> HIDE DEF s
  <2>3. f[s] = Read(f[s \ {Max(s)}], options[Max(s)])
    BY <1>1, <2>2 DEF Folds, s
  <2> QED
    BY <2>1, <2>2, <2>3 DEF s
<1>5. read[0] = f[1..0] /\ read[n] = f[1..n]
  OBVIOUS
<1>6. ASSUME NEW k \in 0..n - 1 PROVE read[k + 1] = Read(read[k], options[k + 1])
  <2>1. read[k] = f[1..k] /\ read[k + 1] = f[1..k + 1]
    OBVIOUS
  <2> QED
    BY <1>4, <2>1
<1> HIDE DEF read
<1> QED
  BY <1>2, <1>3, <1>5, <1>6

\* What the first k options say: the last number each name is given, and the
\* IDs of them all.
LastBy(options, k, name) ==
  LET given == {i \in 1..k : options[i].name = name}
  IN  IF given = {} THEN 0 ELSE options[Max(given)].numbers[1]

IdsBy(options, k) == UNION {ToSet(options[i].ids) : i \in 1..k}

Says(config, options, k) ==
  /\ config = [number |-> config.number, holdIds |-> config.holdIds]
  /\ config.number = [name \in Names |-> config.number[name]]
  /\ \A name \in Names : config.number[name] = LastBy(options, k, name)
  /\ Len(config.holdIds) \in Nat
  /\ config.holdIds = [i \in 1..Len(config.holdIds) |-> config.holdIds[i]]
  /\ ToSet(config.holdIds) = IdsBy(options, k)

LEMMA LastByNext ==
  ASSUME NEW options, NEW k \in Nat, NEW name
  PROVE  LastBy(options, k + 1, name) =
           IF options[k + 1].name = name THEN options[k + 1].numbers[1]
           ELSE LastBy(options, k, name)
<1> DEFINE given(n) == {i \in 1..n : options[i].name = name}
<1>1. CASE options[k + 1].name = name
  <2>1. given(k + 1) \subseteq Int /\ \A other \in given(k + 1) : k + 1 >= other
    OBVIOUS
  <2>2. k + 1 \in given(k + 1)
    BY <1>1
  <2>3. Max(given(k + 1)) = k + 1 /\ given(k + 1) # {}
    <3> HIDE DEF given
    <3> QED
      BY <2>1, <2>2, MaxIs
  <2> QED
    BY <1>1, <2>3 DEF LastBy
<1>2. CASE options[k + 1].name # name
  <2>1. given(k + 1) = given(k)
    BY <1>2
  <2> QED
    BY <1>2, <2>1 DEF LastBy
<1> QED
  BY <1>1, <1>2

LEMMA IdsByNext ==
  ASSUME NEW options, NEW k \in Nat
  PROVE  IdsBy(options, k + 1) = IdsBy(options, k) \cup ToSet(options[k + 1].ids)
<1>1. 1..k + 1 = 1..k \cup {k + 1}
  OBVIOUS
<1> QED
  BY <1>1 DEF IdsBy

LEMMA ToSetConcat ==
  ASSUME NEW s, NEW t, Len(s) \in Nat, Len(t) \in Nat,
         s = [i \in 1..Len(s) |-> s[i]], t = [i \in 1..Len(t) |-> t[i]]
  PROVE  /\ Len(s \o t) = Len(s) + Len(t)
         /\ s \o t = [i \in 1..Len(s \o t) |-> (s \o t)[i]]
         /\ ToSet(s \o t) = ToSet(s) \cup ToSet(t)
<1> DEFINE all == ToSet(s) \cup ToSet(t)
           m == Len(s)
           n == Len(t)
<1>1. DOMAIN s = 1..m /\ DOMAIN t = 1..n
  OBVIOUS
<1>2. s \in Seq(all) /\ t \in Seq(all)
  <2>1. (\A i \in 1..m : s[i] \in all) /\ \A i \in 1..n : t[i] \in all
    BY <1>1 DEF ToSet
  <2> HIDE DEF all
  <2>2. [i \in 1..m |-> s[i]] \in Seq(all)
    BY <2>1, IsASeq
  <2>3. [i \in 1..n |-> t[i]] \in Seq(all)
    BY <2>1, IsASeq
  <2> QED
    BY <2>2, <2>3
<1>3. /\ s \o t \in Seq(all) /\ Len(s \o t) = m + n
      /\ \A i \in 1..m + n : (s \o t)[i] = IF i <= m THEN s[i] ELSE t[i - m]
  <2> HIDE DEF all
  <2> QED
    BY <1>2, ConcatProperties
<1> DEFINE c == s \o t
<1>4. c = [i \in 1..Len(c) |-> c[i]] /\ DOMAIN c = 1..m + n
  BY <1>3, LenProperties
<1> HIDE DEF c, all, m, n
<1>5. ToSet(c) = {c[i] : i \in 1..m + n} /\ ToSet(s) = {s[i] : i \in 1..m}
      /\ ToSet(t) = {t[i] : i \in 1..n}
  BY <1>1, <1>4 DEF ToSet
<1>6. m \in Nat /\ n \in Nat
  BY DEF m, n
<1>7. \A i \in 1..m : i \in 1..m + n /\ c[i] = s[i]
  BY <1>3, <1>6 DEF c
<1>8. ASSUME NEW i \in 1..n PROVE m + i \in 1..m + n /\ c[m + i] = t[i]
  <2> DEFINE j == m + i
  <2>1. j \in 1..m + n /\ ~(j <= m) /\ j - m = i
    BY <1>6
  <2> HIDE DEF j
  <2>2. c[j] = t[i]
    BY <1>3, <2>1 DEF c
  <2> QED
    BY <2>1, <2>2 DEF j
<1>9. ASSUME NEW i \in 1..m + n
      PROVE  c[i] \in {s[j] : j \in 1..m} \cup {t[j] : j \in 1..n}
  <2>1. CASE i <= m
    <3>1. i \in 1..m /\ c[i] = s[i]
      BY <1>3, <1>6, <2>1 DEF c
    <3> QED
      BY <3>1
  <2>2. CASE ~(i <= m)
    <3>1. i - m \in 1..n /\ c[i] = t[i - m]
      <4>1. i - m \in 1..n
        BY <1>6, <2>2
      <4> QED
        BY <1>3, <2>2, <4>1 DEF c
    <3> QED
      BY <3>1
  <2> QED
    BY <2>1, <2>2
<1>10. ToSet(c) = ToSet(s) \cup ToSet(t)
  BY <1>5, <1>7, <1>8, <1>9
<1> QED
  BY <1>3, <1>4, <1>10 DEF c, m, n

\* One more option is read.
LEMMA ReadNext ==
  ASSUME NEW options, NEW k \in Nat, NEW config, Says(config, options, k),
         LET ids == options[k + 1].ids
         IN  /\ Len(ids) \in Nat /\ ids = [i \in 1..Len(ids) |-> ids[i]]
             /\ options[k + 1].name # "hold_ids" => ids = <<>>
  PROVE  \/ Read(<<config>>, options[k + 1]) = <<>>
         \/ \E next : /\ Read(<<config>>, options[k + 1]) = <<next>>
                      /\ Says(next, options, k + 1)
<1> DEFINE option == options[k + 1]
<1>1. "hold_ids" \notin Names
  BY DEF Names, Percentages, Amounts
<1>2. <<config>> # <<>> /\ <<config>>[1] = config
  OBVIOUS
<1>3. CASE option.name = "hold_ids"
  <2> DEFINE next == [config EXCEPT !.holdIds = @ \o option.ids]
  <2>1. Read(<<config>>, option) = <<next>>
    BY <1>2, <1>3 DEF Read
  <2>2. /\ next = [number |-> next.number, holdIds |-> next.holdIds]
        /\ next.number = config.number /\ next.holdIds = config.holdIds \o option.ids
    <3>1. PICK n, h : config = [number |-> n, holdIds |-> h]
      BY DEF Says
    <3> DEFINE ids == config.holdIds \o option.ids
    <3>2. next = [config EXCEPT !.holdIds = ids] /\ config.holdIds = h
      BY <3>1
    <3> HIDE DEF ids
    <3>3. next = [number |-> n, holdIds |-> ids]
      BY <3>1, <3>2
    <3> HIDE DEF next
    <3> QED
      BY <3>1, <3>3 DEF ids
  <2>3. \A name \in Names : LastBy(options, k + 1, name) = LastBy(options, k, name)
    BY <1>1, <1>3, LastByNext
  <2>4. /\ Len(next.holdIds) \in Nat
        /\ next.holdIds = [i \in 1..Len(next.holdIds) |-> next.holdIds[i]]
        /\ ToSet(next.holdIds) = IdsBy(options, k + 1)
    <3> DEFINE s == config.holdIds
               t == option.ids
    <3>1. /\ Len(s) \in Nat /\ s = [i \in 1..Len(s) |-> s[i]]
          /\ Len(t) \in Nat /\ t = [i \in 1..Len(t) |-> t[i]]
          /\ ToSet(s) = IdsBy(options, k)
      BY DEF Says
    <3>2. IdsBy(options, k + 1) = IdsBy(options, k) \cup ToSet(t)
      BY IdsByNext
    <3>3. next.holdIds = s \o t
      BY <2>2
    <3> HIDE DEF s, t, next
    <3>4. /\ Len(s \o t) = Len(s) + Len(t)
          /\ s \o t = [i \in 1..Len(s \o t) |-> (s \o t)[i]]
          /\ ToSet(s \o t) = ToSet(s) \cup ToSet(t)
      BY <3>1, ToSetConcat
    <3>5. Len(s) + Len(t) \in Nat
      BY <3>1
    <3> QED
      BY <3>1, <3>2, <3>3, <3>4, <3>5
  <2> HIDE DEF next
  <2>5. Says(next, options, k + 1)
    BY <2>2, <2>3, <2>4 DEF Says
  <2> QED
    BY <2>1, <2>5
<1>4. CASE option.name # "hold_ids" /\ option.name \in Names /\ option.numbers # <<>>
  <2> DEFINE next == [config EXCEPT !.number[option.name] = option.numbers[1]]
  <2>1. Read(<<config>>, option) = <<next>>
    BY <1>2, <1>4 DEF Read, Names
  <2>2. /\ next = [number |-> next.number, holdIds |-> next.holdIds]
        /\ next.number = [config.number EXCEPT ![option.name] = option.numbers[1]]
        /\ next.holdIds = config.holdIds
    <3>1. PICK n, h : config = [number |-> n, holdIds |-> h]
      BY DEF Says
    <3>2. next = [number |-> [n EXCEPT ![option.name] = option.numbers[1]], holdIds |-> h]
      BY <3>1
    <3> HIDE DEF next
    <3> QED
      BY <3>1, <3>2
  <2>3. /\ next.number = [name \in Names |-> next.number[name]]
        /\ \A name \in Names :
             next.number[name] = IF name = option.name THEN option.numbers[1]
                                 ELSE config.number[name]
    <3> HIDE DEF next, option
    <3>1. config.number = [name \in Names |-> config.number[name]]
      BY DEF Says
    <3> QED
      BY <1>4, <2>2, <3>1
  <2>4. ASSUME NEW name \in Names PROVE next.number[name] = LastBy(options, k + 1, name)
    <3> HIDE DEF next
    <3> QED
      BY <2>3, LastByNext DEF Says
  <2>5. IdsBy(options, k + 1) = IdsBy(options, k)
    <3>1. ToSet(option.ids) = {}
      <4>1. option.ids = <<>> /\ DOMAIN <<>> = {}
        BY <1>4
      <4> QED
        BY <4>1 DEF ToSet
    <3>2. IdsBy(options, k + 1) = IdsBy(options, k) \cup ToSet(option.ids)
      BY IdsByNext
    <3> HIDE DEF option
    <3> QED
      BY <3>1, <3>2
  <2> HIDE DEF next
  <2>6. Says(next, options, k + 1)
    BY <2>2, <2>3, <2>4, <2>5 DEF Says
  <2> QED
    BY <2>1, <2>6
<1>5. CASE option.name # "hold_ids" /\ ~(option.name \in Names /\ option.numbers # <<>>)
  BY <1>2, <1>5 DEF Read, Names
<1> QED
  BY <1>3, <1>4, <1>5

\* ParseChaos returns nothing or what all its options say.
LEMMA ParsedAsWritten ==
  ASSUME NEW argument \in DOMAIN Options
  PROVE  LET options == Options[argument]
             parsed  == ParseChaos(options)
         IN  parsed # <<>> => Says(parsed[1], options, Len(options))
<1> DEFINE options == Options[argument]
           n == Len(options)
           Told(part, k) == part = <<>> \/ \E config : part = <<config>> /\ Says(config, options, k)
<1>1. /\ n \in Nat /\ DOMAIN options = 1..n
      /\ \A i \in 1..n :
           LET ids == options[i].ids
           IN  /\ Len(ids) \in Nat /\ ids = [j \in 1..Len(ids) |-> ids[j]]
               /\ options[i].name # "hold_ids" => ids = <<>>
  BY OptionsAssumption
<1> HIDE DEF options, n
<1>2. PICK read :
           /\ read[0] = <<Off>> /\ read[n] = FoldLeft(Read, <<Off>>, options)
           /\ \A k \in 0..n - 1 : read[k + 1] = Read(read[k], options[k + 1])
  BY <1>1, FoldSteps
<1> DEFINE S == {k \in 0..n : Told(read[k], k)}
<1>3. 0 \in S
  <2>1. Says(Off, options, 0)
    <3>1. 1..0 = {}
      OBVIOUS
    <3>2. (\A name \in Names : LastBy(options, 0, name) = 0) /\ IdsBy(options, 0) = {}
      BY <3>1 DEF LastBy, IdsBy
    <3>3. ToSet(<<>>) = {} /\ Len(<<>>) = 0 /\ <<>> = [i \in 1..0 |-> <<>>[i]]
      BY <3>1, EmptySeq DEF ToSet
    <3>4. Off = [number |-> [name \in Names |-> 0], holdIds |-> <<>>]
      BY DEF Off, Names
    <3> QED
      BY <3>2, <3>3, <3>4 DEF Says
  <2> QED
    BY <1>1, <1>2, <2>1
<1>4. ASSUME NEW k \in 0..n - 1, k \in S PROVE k + 1 \in S
  <2>1. read[k + 1] = Read(read[k], options[k + 1]) /\ k + 1 \in 1..n /\ k \in Nat
    BY <1>1, <1>2
  <2>2. CASE read[k] = <<>>
    <3>1. read[k + 1] = <<>>
      BY <2>1, <2>2 DEF Read
    <3> QED
      BY <2>1, <3>1
  <2>3. ASSUME NEW config, read[k] = <<config>>, Says(config, options, k) PROVE k + 1 \in S
    <3>1. \/ Read(<<config>>, options[k + 1]) = <<>>
          \/ \E next : /\ Read(<<config>>, options[k + 1]) = <<next>>
                       /\ Says(next, options, k + 1)
      BY <1>1, <2>1, <2>3, ReadNext
    <3>2. Told(read[k + 1], k + 1)
      BY <2>1, <2>3, <3>1
    <3> QED
      BY <2>1, <3>2
  <2> QED
    BY <1>4, <2>2, <2>3
<1>5. Told(read[n], n)
  <2> HIDE DEF S, Told
  <2>1. 0..n \subseteq S
    BY <1>1, <1>3, <1>4, UpTo
  <2> QED
    BY <1>1, <2>1 DEF S
<1> DEFINE parsed == FoldLeft(Read, <<Off>>, options)
<1>6. ParseChaos(options) = IF parsed # <<>> /\ Validate(parsed[1]) THEN parsed ELSE <<>>
  BY DEF ParseChaos
<1>7. Told(parsed, n)
  BY <1>2, <1>5
<1> HIDE DEF parsed
<1>8. ParseChaos(options) # <<>> => Says(ParseChaos(options)[1], options, n)
  <2>1. \A config : <<config>>[1] = config
    OBVIOUS
  <2> QED
    BY <1>6, <1>7, <2>1
<1> QED
  BY <1>8 DEF options, n

\* The argument of a CHAOS that is served is one whose options are known, as
\* it stood in a command or in an unstuffed line of an article.
LEMMA ChaosArgument ==
  ASSUME TypeInv, Chaos, Command.rest # <<>>
  PROVE  Command.rest[1] \in DOMAIN Options
<1>1. toServer # <<>> /\ Command.dots = 0 /\ Command.word = "CHAOS"
  BY DEF Chaos, Allowed, Handles
<1>2. Command \in Lines
  BY <1>1, Unread1
<1>3. ASSUME NEW article \in Articles, NEW i \in 1..Len(article) + 1,
             Command = Stuffed(article)[i]
      PROVE  Command \in ToSet(article)
  <2>1. /\ Len(article) \in Nat /\ Stuffed(article)[Len(article) + 1] = Terminator
        /\ \A j \in 1..Len(article) : unstuff(Stuffed(article)[j]) = article[j]
    BY StuffedText
  <2>2. i # Len(article) + 1
    <3>1. Terminator.dots = 1
      BY DEF Terminator, Line
    <3>2. Stuffed(article)[i].dots # 1
      BY <1>1, <1>3
    <3> QED
      BY <2>1, <3>1, <3>2
  <2>3. i \in 1..Len(article)
    BY <2>1, <2>2
  <2>4. unstuff(Command) = article[i] /\ unstuff(Command) = Command
    <3>1. ~(0 > 1)
      OBVIOUS
    <3> QED
      BY <1>1, <1>3, <2>1, <2>3, <3>1 DEF unstuff
  <2>5. DOMAIN article = 1..Len(article)
    BY ArticlesAssumption
  <2> QED
    BY <2>3, <2>4, <2>5 DEF ToSet
<1>4. Command \in Commands \cup UNION {ToSet(article) : article \in Articles}
  <2>1. Command # Blank
    <3>1. Blank.word = ""
      BY DEF Blank, Line
    <3> QED
      BY <1>1, <3>1
  <2> QED
    BY <1>2, <1>3, <2>1 DEF Lines, Sent
<1> QED
  BY <1>1, <1>4, OptionsAssumption

\* A CHAOS that is accepted puts in force what its argument says, the last
\* number of each option and the IDs of every hold_ids, and nothing of what was
\* in force before; one that is not changes nothing (ParseChaos, handleControl).
THEOREM ChaosIsAsWritten == Spec => ChaosAsWritten
<1> DEFINE Written ==
      Serving /\ Command.word = "CHAOS" /\ Command.rest # <<>> =>
        \/ reply' # "290" /\ chaos' = chaos
        \/ LET options == Options[Command.rest[1]]
           IN  /\ \A name \in Percentages \cup Amounts :
                     chaos'.number[name] = LastOf(options, name)
               /\ ToSet(chaos'.holdIds) =
                    UNION {ToSet(options[i].ids) : i \in DOMAIN options}
<1>1. ASSUME SessionInv, [Next]_vars, Serving, Command.word = "CHAOS", Command.rest # <<>>
      PROVE  Written
  <2>1. TypeInv /\ CommandStep
    BY <1>1, ServingIsCommand DEF SessionInv
  <2>2. CASE Unknown
    BY <2>2 DEF Unknown, Answer
  <2>3. CASE Unauthenticated
    BY <2>3 DEF Unauthenticated, Answer
  <2>4. CASE Chaos
    <3> DEFINE options == Options[Command.rest[1]]
               parsed  == ParseChaos(options)
    <3>1. \/ parsed = <<>> /\ reply' = "501" /\ chaos' = chaos
          \/ parsed # <<>> /\ chaos' = parsed[1]
      BY <1>1, <2>4 DEF Chaos, Answer
    <3>2. Command.rest[1] \in DOMAIN Options
      BY <1>1, <2>1, <2>4, ChaosArgument
    <3>3. parsed # <<>> => Says(parsed[1], options, Len(options))
      BY <3>2, ParsedAsWritten
    <3>4. DOMAIN options = 1..Len(options)
      BY <3>2, OptionsAssumption
    <3> HIDE DEF parsed, options
    <3>5. CASE parsed # <<>>
      <4>1. Says(chaos', options, Len(options))
        BY <3>1, <3>3, <3>5
      <4>2. \A name : LastOf(options, name) = LastBy(options, Len(options), name)
        BY <3>4 DEF LastOf, LastBy
      <4>3. UNION {ToSet(options[i].ids) : i \in DOMAIN options} = IdsBy(options, Len(options))
        BY <3>4 DEF IdsBy
      <4> QED
        BY <4>1, <4>2, <4>3 DEF Says, Names, options
    <3> QED
      BY <3>1, <3>5
  <2>5. ~(Inform \/ Quit \/ AuthUsage \/ AuthUser \/ AuthOutOfSequence
          \/ AuthRejected \/ AuthAccepted)
    BY <1>1 DEF Inform, Quit, AuthUsage, AuthUser, AuthOutOfSequence, AuthRejected,
                AuthAccepted, Authinfo, Handles
  <2>6. ~(Group \/ Stat \/ HeadOrArticle \/ BodyRefused \/ BodyDropped \/ Body
          \/ Post \/ Delete \/ OtherControl)
    BY <1>1 DEF Group, Stat, HeadOrArticle, BodyRefused, BodyDropped, Body, BodyAdmitted,
                Post, Delete, OtherControl, Allowed, Handles
  <2> QED
    BY <2>1, <2>2, <2>3, <2>4, <2>5, <2>6 DEF CommandStep
<1>2. SessionInv /\ [Next]_vars => [Written]_vars
  BY <1>1
<1> QED
  BY <1>2, SessionInvariant, PTL DEF Spec, ChaosAsWritten

-----------------------------------------------------------------------------
(***************************************************************************)
(* A session whose client has hung up runs down.                           *)
(***************************************************************************)
\* What is left to do: the parts of the stream and the phases behind them, and
\* the lines of the body that is served.
PartsLeft ==
  3 * Len(toServer) + (CASE phase = "closed"                             -> 0
                         [] phase = "command"                            -> 1
                         [] phase \in {"greet", "article"} \cup BodyPhases -> 2)

BodyLeft ==
  CASE phase = "status"       -> 3 * Left + 2
    [] phase = "heldId"       -> 3 * Left + 1
    [] phase = "lines"        -> 3 * Left
    [] phase = "heldLine"     -> 3 * Left - 1
    [] phase = "write"        -> 3 * Left - 2
    [] phase \notin BodyPhases -> 0

LeftIsNumber == PartsLeft \in Nat /\ BodyLeft \in Nat

\* There is less to do, counted by the parts first.
Less ==
  \/ PartsLeft' < PartsLeft
  \/ PartsLeft' = PartsLeft /\ BodyLeft' < BodyLeft

UsesUp ==
  /\ Server => Less
  /\ hungUp => hungUp' /\ (Less \/ UNCHANGED <<PartsLeft, BodyLeft>>)

LEMMA LeftAt ==
  ASSUME TypeInv
  PROVE  /\ Len(toServer) \in Nat /\ phase \in Phases
         /\ PartsLeft = 3 * Len(toServer) + (IF phase = "closed" THEN 0
                                             ELSE IF phase = "command" THEN 1 ELSE 2)
         /\ phase \in BodyPhases => Left \in Nat
         /\ phase \in {"heldLine", "write"} => Left > 0
         /\ PartsLeft \in Nat /\ BodyLeft \in Nat
<1> USE DEF Phases, BodyPhases, Held
<1>1. /\ Len(toServer) \in Nat /\ phase \in Phases
      /\ phase \in BodyPhases => Left \in Nat
      /\ phase \in {"heldLine", "write"} => Left > 0
  BY DEF TypeInv, TypeOK
<1>2. PartsLeft = 3 * Len(toServer) + (IF phase = "closed" THEN 0
                                      ELSE IF phase = "command" THEN 1 ELSE 2)
  BY <1>1 DEF PartsLeft
<1>3. BodyLeft \in Nat
  <2> HIDE DEF Left
  <2> QED
    BY <1>1 DEF BodyLeft
<1> QED
  BY <1>1, <1>2, <1>3

\* What a step of the server outside a body does to the stream and the phase.
LEMMA ServerUses ==
  ASSUME TypeInv, Server, ~BodyStep
  PROVE  /\ UNCHANGED hungUp
         /\ \/ /\ phase = "greet" /\ phase' \in {"command", "closed"}
               /\ Len(toServer') = Len(toServer)
            \/ /\ phase \in {"command", "article"}
               /\ phase' \in {"command", "status", "article", "closed"}
               /\ Len(toServer) > 0 /\ Len(toServer') = Len(toServer) - 1
            \/ /\ phase = "article" /\ phase' \in {"command", "closed"}
               /\ Len(toServer') = Len(toServer)
            \/ /\ phase = "command" /\ phase' = "closed"
               /\ Len(toServer') = Len(toServer)
<1>. USE DEF wire
<1>1. CASE Greet
  BY <1>1 DEF Greet
<1>2. CASE CommandStep
  <2>1. PICK next : Serve(next)
    BY <1>2, CommandServes
  <2>2. /\ phase = "command" /\ toServer # <<>> /\ toServer' = Tail(toServer)
        /\ phase' \in {"command", "status", "article", "closed"} /\ UNCHANGED hungUp
    BY <2>1 DEF Serve, Serves
  <2>. QED  BY <2>2, Unread1
<1>3. CASE ReadLine
  BY <1>3, Unread1 DEF ReadLine
<1>4. CASE Finish
  BY <1>4, Unread1 DEF Finish, EndPost
<1>5. CASE Abandon
  BY <1>5 DEF Abandon, EndPost
<1>6. ASSUME Overrun PROVE Len(toServer') = Len(toServer)
  BY <1>6 DEF Overrun, TypeInv
<1>7. CASE ArticleEnds
  BY <1>6, <1>7 DEF ArticleEnds, EndPost
<1>8. CASE StreamEnds
  BY <1>6, <1>8 DEF StreamEnds
<1>. QED
  BY <1>1, <1>2, <1>3, <1>4, <1>5, <1>7, <1>8 DEF Server, CommandStep, BodyStep

\* A step of a body comes nearer to its end, and so does its release.
LEMMA BodyUses ==
  ASSUME TypeInv, TypeInv', BodyStep
  PROVE  UNCHANGED hungUp /\ Less
<1> USE DEF BodyPhases, Held
<1>1. BodyMoves
  BY BodyGoes
<1>2. UNCHANGED <<hungUp, toServer>> /\ phase \in BodyPhases
  BY <1>1 DEF BodyMoves
<1>3. Len(toServer) \in Nat /\ Left \in Nat /\ (phase \in {"heldLine", "write"} => Left > 0)
  BY <1>2, LeftAt
<1>4. PartsLeft = 3 * Len(toServer) + 2
  BY <1>2, <1>3 DEF PartsLeft
<1> HIDE DEF Left
<1>5. CASE phase' \in {"command", "closed"}
  <2>1. PartsLeft' \in {3 * Len(toServer), 3 * Len(toServer) + 1}
    BY <1>2, <1>3, <1>5 DEF PartsLeft
  <2> QED
    BY <1>2, <1>3, <1>4, <2>1 DEF Less
<1>6. CASE phase' \in BodyPhases
  <2>1. PartsLeft' = PartsLeft
    BY <1>2, <1>4, <1>6 DEF PartsLeft
  <2>2. BodyLeft' < BodyLeft
    <3>1. CASE phase = "status" /\ phase' \in {"heldId", "lines"} /\ Left' = Left
      BY <1>3, <3>1 DEF BodyLeft
    <3>2. CASE phase = "lines" /\ phase' = "heldLine" /\ Left' = Left
      BY <1>3, <3>2 DEF BodyLeft
    <3>3. CASE phase \in {"lines", "write"} /\ phase' = "lines" /\ Left' = Left - 1
      BY <1>3, <3>3 DEF BodyLeft
    <3> QED
      BY <1>1, <1>6, <3>1, <3>2, <3>3 DEF BodyMoves
  <2> QED
    BY <1>2, <2>1, <2>2 DEF Less
<1> QED
  BY <1>1, <1>5, <1>6 DEF BodyMoves

LEMMA SetUses ==
  ASSUME TypeInv, NEW config \in Profiles, SetChaos(config)
  PROVE  UNCHANGED hungUp /\ (Less \/ UNCHANGED <<PartsLeft, BodyLeft>>)
<1> USE DEF BodyPhases, Held
<1>1. /\ UNCHANGED <<hungUp, toServer, body>>
      /\ \/ phase' = phase
         \/ phase = "heldId" /\ phase' = "lines"
         \/ phase = "heldLine" /\ phase' = "write"
  BY SetGoes DEF SetMoves, wire
<1>2. Left' = Left
  BY <1>1 DEF Left
<1> HIDE DEF Left
<1>3. CASE phase' = phase
  BY <1>1, <1>2, <1>3 DEF PartsLeft, BodyLeft
<1>4. CASE phase' # phase
  <2>1. Left \in Nat
    BY <1>1, <1>4, LeftAt
  <2>2. PartsLeft' = PartsLeft
    BY <1>1, <1>4 DEF PartsLeft
  <2>3. BodyLeft' < BodyLeft
    BY <1>1, <1>2, <1>4, <2>1 DEF BodyLeft
  <2> QED
    BY <1>1, <2>2, <2>3 DEF Less
<1> QED
  BY <1>3, <1>4

(***************************************************************************)
(* Each step of a session uses up a part of what the client has sent, or   *)
(* something of the body it serves, so that none goes round; and once the  *)
(* client has hung up nothing is added, whatever holds are set and         *)
(* released: how many steps are left before the session is closed, waits   *)
(* in a hold or has to read is bounded by what stands in the stream and in *)
(* the body (handleConnection, handleBody, readPostedArticle).             *)
(***************************************************************************)
THEOREM SessionRunsDown == Spec => []LeftIsNumber /\ [][UsesUp]_vars
<1>1. SessionInv => LeftIsNumber
  BY LeftAt DEF SessionInv, LeftIsNumber
<1>2. ASSUME SessionInv, SessionInv', [Next]_vars PROVE UsesUp
  <2>1. TypeInv /\ TypeInv'
    BY <1>2 DEF SessionInv
  <2>2. ASSUME Server \/ GiveUp PROVE UNCHANGED hungUp /\ Less
    <3>1. CASE BodyStep
      BY <2>1, <3>1, BodyUses
    <3>2. CASE Server /\ ~BodyStep
      <4>1. Len(toServer) \in Nat /\ Len(toServer') \in Nat
        BY <2>1 DEF TypeInv
      <4>2. PartsLeft = 3 * Len(toServer) + (IF phase = "closed" THEN 0
                                            ELSE IF phase = "command" THEN 1 ELSE 2)
        BY <2>1, LeftAt
      <4>3. phase' \in Phases
        BY <2>1 DEF TypeInv, TypeOK
      <4>4. PartsLeft' = 3 * Len(toServer') + (IF phase' = "closed" THEN 0
                                              ELSE IF phase' = "command" THEN 1 ELSE 2)
        BY <4>1, <4>3 DEF Phases, BodyPhases, Held, PartsLeft
      <4>5. UNCHANGED hungUp /\ PartsLeft' < PartsLeft
        BY <2>1, <3>2, <4>1, <4>2, <4>4, ServerUses
      <4> QED
        BY <4>5 DEF Less
    <3> QED
      BY <2>2, <3>1, <3>2 DEF BodyStep
  <2>3. ASSUME Client, hungUp PROVE FALSE
    BY <2>3 DEF Client, Send, SendArticle, HangUp
  <2>4. ASSUME NEW config \in Profiles, SetChaos(config)
        PROVE  UNCHANGED hungUp /\ (Less \/ UNCHANGED <<PartsLeft, BodyLeft>>)
    BY <2>1, <2>4, SetUses
  <2>5. ASSUME UNCHANGED vars PROVE UNCHANGED <<hungUp, PartsLeft, BodyLeft>>
    BY <2>5 DEF PartsLeft, BodyLeft, Left, vars, wire
  <2>. QED  BY <1>2, <2>2, <2>3, <2>4, <2>5 DEF UsesUp, Next, Closed
<1>3. SessionInv /\ SessionInv' /\ [Next]_vars => [UsesUp]_vars
  BY <1>2
<1>. QED  BY <1>1, <1>3, SessionInvariant, PTL DEF Spec
=============================================================================
