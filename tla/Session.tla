------------------------------ MODULE Session ------------------------------
(***************************************************************************)
(* One NNTP session: the command loop of handleConnection (server.go) with *)
(* authentication, re-authentication, MODE CONTROL, the faults of STAT and *)
(* BODY, the holds a BODY waits in, and the posting of articles on the     *)
(* same stream as the commands.  The client pipelines commands, sends an   *)
(* article when it has read 340, and may hang up at any moment.  How the   *)
(* sessions share a line budget is BodyHold, how files get to the disk is  *)
(* ArticleStore.                                                           *)
(***************************************************************************)
EXTENDS ArticleText, ChaosOptions, FiniteSets

CONSTANTS
  Ids,               \* message IDs
  Articles,          \* the articles a client may post, as sequences of lines
  Fixtures,          \* what the store may hold before: functions from Ids
  NoArticle,         \* the store has no article of an ID
  Credentials,       \* <<user, password>>
  Profiles,          \* the configurations the embedding program may set
  Options,           \* the options each argument of CHAOS is split into
  EnableTestControl, \* Config.EnableTestControl
  StorageFails,      \* TRUE: files cannot always be created or written
  Commands,          \* the commands the client may send
  Pipelined,         \* those it sends ahead of the answers to others
  Window             \* bound: parts of the stream it sends commands ahead of

ASSUME WindowAssumption == Window \in Nat
ASSUME ProfilesAssumption == \A config \in Profiles : Validate(config)
ASSUME FixturesAssumption ==
  \A fixture \in Fixtures :
     /\ fixture = [id \in Ids |-> fixture[id]]
     /\ \A id \in Ids :
          LET article == fixture[id]
          IN  article = NoArticle \/ /\ Len(article) \in Nat
                                     /\ article = [i \in 1..Len(article) |-> article[i]]

\* An article is a sequence of lines and names at most one ID.
ASSUME ArticlesAssumption ==
  \A article \in Articles :
     /\ Len(article) \in Nat
     /\ article = [i \in 1..Len(article) |-> article[i]]
     /\ \A i \in 1..Len(article) :
          /\ article[i].dots \in Nat
          /\ article[i] = Line(article[i].dots, article[i].word, article[i].rest)
     /\ messageIDFromHeaders(header(article)) \in {<<>>} \cup {<<id>> : id \in Ids}

\* ParseChaos splits an argument of CHAOS into a sequence of options; only that
\* of hold_ids lists IDs.  A command may also come as a line of an article.
ASSUME OptionsAssumption ==
  /\ \A argument \in DOMAIN Options :
       /\ Len(Options[argument]) \in Nat
       /\ DOMAIN Options[argument] = 1..Len(Options[argument])
       /\ \A i \in DOMAIN Options[argument] :
            LET option == Options[argument][i]
            IN  /\ Len(option.ids) \in Nat
                /\ option.ids = [j \in 1..Len(option.ids) |-> option.ids[j]]
                /\ option.name # "hold_ids" => option.ids = <<>>
  /\ \A line \in Commands \cup UNION {ToSet(article) : article \in Articles} :
       line.word = "CHAOS" /\ line.rest # <<>> => line.rest[1] \in DOMAIN Options

VARIABLES
  chaos,           \* Server.chaos
  store,           \* the article of each ID
  phase,           \* where the goroutine of the connection stands, see Phases
  body,            \* of handleBody: the ID, the configuration it has copied and
                   \* the lines left to write; <<>> when it serves none
  authenticated, pendingUser, reauthRequired,  \* of handleConnection;
  classified, control,                         \* pendingUser is <<>> for ""
  counted,         \* the connection is counted in Server.sessions
  incoming,        \* the lines readPostedArticle has read
  toServer,        \* the stream: what each part was sent as, and its text
  hungUp,          \* the client sends no more
  client,          \* "free", "asked" (to post), "invited" (by 340), or "lost"
                   \* (waits for the end of a broken reply)
  reply            \* the code of the last answer, until the client sends again

\* History: the verdict of the last PASS; a client told to log in anew; whether
\* the first command was MODE CONTROL; the article being posted, if the client
\* has sent it whole; a posting given up before its end, until its last line
\* is read and the client goes on.
VARIABLES verdict, demanded, first, posted, abandoned

login   == <<authenticated, pendingUser, reauthRequired>>
class   == <<classified, control, counted>>
wire    == <<toServer, hungUp, client>>
history == <<verdict, demanded, first, posted, abandoned>>
vars    == <<chaos, store, phase, body, login, class, incoming, wire, reply, history>>

\* "article" is readPostedArticle, the rest handleBody: the status is written,
\* a line may come next, or a line that was held is written.  In the two holds
\* the goroutine reads nothing and waits for a channel to be closed.
Held       == {"heldId", "heldLine"}
BodyPhases == {"status", "lines", "write"} \cup Held
Phases     == {"greet", "command", "article", "closed"} \cup BodyPhases

Init ==
  /\ chaos \in Profiles
  /\ store \in Fixtures
  /\ phase = "greet" /\ body = <<>>
  /\ authenticated = FALSE /\ pendingUser = <<>> /\ reauthRequired = FALSE
  /\ classified = FALSE /\ control = FALSE /\ counted = FALSE
  /\ incoming = <<>>
  /\ toServer = <<>> /\ hungUp = FALSE /\ client = "free"
  /\ reply = ""
  /\ verdict = "" /\ demanded = FALSE /\ first = <<>>
  /\ posted = <<>> /\ abandoned = FALSE

-----------------------------------------------------------------------------
(***************************************************************************)
(* The client, and the program the server is embedded in.                  *)
(***************************************************************************)
Part(as, line) == [as |-> as, line |-> line]

Send(command) ==
  /\ client = "free" /\ ~hungUp /\ phase # "closed"
  /\ toServer # <<>> \/ body # <<>> => command \in Pipelined /\ Len(toServer) < Window
  /\ toServer' = Append(toServer, Part("command", command))
  /\ client' = IF command.word = "POST" THEN "asked" ELSE "free"
  /\ reply' = ""
  /\ abandoned' = (abandoned /\ (toServer # <<>> \/ phase = "article"))
  /\ UNCHANGED <<chaos, store, phase, body, login, class, incoming, hungUp,
                 verdict, demanded, first, posted>>

\* The article as it has to be sent, each line that begins with a dot with one
\* more and a single dot behind the last; or a part of it, cut short.
Stuffed(article) ==
  Append([i \in DOMAIN article |->
            IF article[i].dots = 0 THEN article[i]
            ELSE Line(article[i].dots + 1, article[i].word, article[i].rest)],
         Terminator)

SendArticle(article, length) ==
  LET text == Stuffed(article)
  IN  /\ client = "invited" /\ ~hungUp /\ phase # "closed"
      /\ toServer' = toServer \o [i \in 1..length |-> Part("article", text[i])]
      /\ client' = "free"
      /\ hungUp' = (length < Len(text))
      /\ posted' = IF hungUp' THEN <<>> ELSE <<article>>
      /\ reply' = ""
      /\ UNCHANGED <<chaos, store, phase, body, login, class, incoming,
                     verdict, demanded, first, abandoned>>

HangUp ==
  /\ ~hungUp /\ phase # "closed"
  /\ hungUp' = TRUE
  /\ UNCHANGED <<chaos, store, phase, body, login, class, incoming,
                 toServer, client, reply, history>>

\* setChaosLocked closes the channel that held bodies wait for.
Holds(config) == config.number["hold_body"] > 0 \/ config.holdIds # <<>>

Releases(config) ==
  \/ chaos.number["hold_body"] > 0 /\ config.number["hold_body"] = 0
  \/ ~(ToSet(chaos.holdIds) \subseteq ToSet(config.holdIds))
  \/ ~Holds(config)

\* The embedding program, or a CHAOS of another session.
SetChaos(config) ==
  /\ EnableTestControl /\ phase # "closed"
  /\ chaos' = config
  /\ phase' = IF phase \notin Held \/ ~Releases(config) THEN phase
              ELSE IF phase = "heldId" THEN "lines" ELSE "write"
  /\ UNCHANGED <<store, body, login, class, incoming, wire, reply, history>>

-----------------------------------------------------------------------------
(***************************************************************************)
(* The greeting: a refusal, or 200 or 201 and maybe the end.               *)
(***************************************************************************)
Rolls(name) == roll(chaos.number[name])

Greet ==
  /\ phase = "greet"
  /\ \/ /\ chaos.number["max_conns"] > 0   \* more connections than that
        /\ phase' = "closed" /\ reply' = "502"
     \/ /\ TRUE \in Rolls("greet_400")
        /\ phase' = "closed" /\ reply' = "400"
     \/ /\ FALSE \in Rolls("greet_400")
        /\ \E limited \in Rolls("greet_201"), drops \in Rolls("drop_conn") :
              /\ reply' = IF limited THEN "201" ELSE "200"
              /\ phase' = IF drops THEN "closed" ELSE "command"
  /\ UNCHANGED <<chaos, store, body, login, class, incoming, wire, history>>

(***************************************************************************)
(* A step of the command loop: the next line is read, the first command    *)
(* settles whether the connection is a control channel, and when the loop  *)
(* returns the connection is counted no more.                              *)
(***************************************************************************)
isControlDeclaration(command) ==
  command.word = "MODE" /\ command.rest = <<"CONTROL">>

\* Mutation: every command is taken for the first one.
ClassifyEvery(command, next) ==
  LET declares == isControlDeclaration(command)
  IN  /\ classified' = TRUE
      /\ control' = declares
      /\ counted' = (next # "closed" /\ (counted \/ ~declares))
      /\ first' = IF first = <<>> THEN <<declares>> ELSE first

Classify(command, next) ==
  LET declares == isControlDeclaration(command)
  IN  /\ classified' = TRUE
      /\ control' = IF classified THEN control ELSE declares
      /\ counted' = (next # "closed" /\ (counted \/ (~classified /\ ~declares)))
      /\ first' = IF first = <<>> THEN <<declares>> ELSE first

Unread  == Head(toServer)
Command == Unread.line

\* readLine: of a line longer than its buffer it takes what fills the buffer
\* and leaves the rest in the stream.
TooLong == toServer # <<>> /\ Command.word = "long"
Overrun == toServer' = [toServer EXCEPT ![1] = Part("rest", Blank)]

\* The line is read and served, and the loop goes on, returns, or waits for an
\* article or a body (next).
Serves(next) ==
  /\ phase = "command" /\ toServer # <<>> /\ ~TooLong
  /\ toServer' = Tail(toServer)
  /\ phase' = next
  /\ Classify(Command, next)
  /\ next # "status" => UNCHANGED body
  /\ UNCHANGED <<hungUp, posted>>

Handles(words, next) ==
  toServer # <<>> /\ Command.dots = 0 /\ Command.word \in words /\ Serves(next)

\* The client reads the answer: 340 is its invitation to send the article.
Answer(code) ==
  /\ reply' = code
  /\ client' = IF client = "asked" /\ Command.word = "POST" /\ Unread.as = "command"
               THEN IF code = "340" THEN "invited" ELSE "free"
               ELSE client

-----------------------------------------------------------------------------
(***************************************************************************)
(* Commands that need no authentication.                                   *)
(***************************************************************************)
ControlWords == {"CHAOS", "METRICS", "DELETE", "DELETEID", "RELOAD"}

Restricted ==
  {"GROUP", "STAT", "HEAD", "BODY", "ARTICLE", "POST"}
    \cup (IF EnableTestControl THEN ControlWords ELSE {})

Inform ==
  /\ \/ /\ Handles({"CAPABILITIES", "DATE"}, "command")
        /\ Answer(IF Command.word = "DATE" THEN "111" ELSE "101")
     \/ /\ Handles({"MODE"}, "command")
        /\ Answer(IF control' /\ isControlDeclaration(Command)
                  THEN "200 Control" ELSE "200 Reader")
  /\ UNCHANGED <<chaos, store, login, incoming, verdict, demanded, abandoned>>

Quit ==
  /\ Handles({"QUIT"}, "closed") /\ Answer("205")
  /\ UNCHANGED <<chaos, store, login, incoming, verdict, demanded, abandoned>>

Unknown ==
  /\ Serves("command") /\ Answer("500")
  /\ \/ Command.dots > 0
     \/ Command.word \notin Restricted
                     \cup {"CAPABILITIES", "DATE", "MODE", "QUIT", "AUTHINFO"}
  /\ UNCHANGED <<chaos, store, login, incoming, verdict, demanded, abandoned>>

(***************************************************************************)
(* AUTHINFO (handleAuthentication).  A PASS, accepted or not, forgets the  *)
(* user; a refused one also logs the session out.                          *)
(***************************************************************************)
Subcommand(name) == Len(Command.rest) >= 2 /\ Command.rest[1] = name
Value == Command.rest[2]

Authinfo ==
  Handles({"AUTHINFO"}, "command") /\ UNCHANGED <<chaos, store, incoming, abandoned>>

AuthUsage ==
  /\ Authinfo /\ ~Subcommand("USER") /\ ~Subcommand("PASS")
  /\ Answer("501")
  /\ UNCHANGED <<login, verdict, demanded>>

AuthUser ==
  /\ Authinfo /\ Subcommand("USER")
  /\ Answer("381")
  /\ pendingUser' = <<Value>>
  /\ UNCHANGED <<authenticated, reauthRequired, verdict, demanded>>

AuthOutOfSequence ==
  /\ Authinfo /\ Subcommand("PASS") /\ pendingUser = <<>>
  /\ Answer("482")
  /\ UNCHANGED <<login, verdict, demanded>>

Matches == <<pendingUser[1], Value>> = Credentials

\* Mutation: a session that was logged in stays so.
AuthRejectedOnly ==
  /\ Authinfo /\ Subcommand("PASS") /\ pendingUser # <<>>
  /\ ~Matches \/ TRUE \in Rolls("reject_auth")
  /\ Answer("481")
  /\ pendingUser' = <<>> /\ reauthRequired' = TRUE
  /\ verdict' = "rejected" /\ demanded' = TRUE
  /\ UNCHANGED authenticated

AuthRejected ==
  /\ Authinfo /\ Subcommand("PASS") /\ pendingUser # <<>>
  /\ ~Matches \/ TRUE \in Rolls("reject_auth")
  /\ Answer("481")
  /\ authenticated' = FALSE /\ pendingUser' = <<>> /\ reauthRequired' = TRUE
  /\ verdict' = "rejected" /\ demanded' = TRUE

AuthAccepted ==
  /\ Authinfo /\ Subcommand("PASS") /\ pendingUser # <<>>
  /\ Matches /\ FALSE \in Rolls("reject_auth")
  /\ Answer("281")
  /\ authenticated' = TRUE /\ pendingUser' = <<>> /\ reauthRequired' = FALSE
  /\ verdict' = "accepted" /\ demanded' = FALSE

-----------------------------------------------------------------------------
(***************************************************************************)
(* Commands that need authentication.                                      *)
(***************************************************************************)
Unauthenticated ==
  /\ Handles(Restricted, "command") /\ ~authenticated
  /\ Answer("480")
  /\ UNCHANGED <<chaos, store, login, incoming, verdict, demanded, abandoned>>

Allowed(word, next) ==
  /\ authenticated /\ word \in Restricted
  /\ Handles({word}, next)
  /\ UNCHANGED <<pendingUser, authenticated, verdict, abandoned>>

Exists ==
  /\ Command.rest # <<>> /\ Command.rest[1] \in Ids
  /\ store[Command.rest[1]] # NoArticle

Group ==
  /\ Allowed("GROUP", "command")
  /\ Answer(IF Command.rest = <<"group">> THEN "211" ELSE "411")
  /\ UNCHANGED <<chaos, store, incoming, reauthRequired, demanded>>

\* The faults of STAT: a reply that is too short, or one that is no number.
Stat ==
  /\ Allowed("STAT", "command")
  /\ \E short \in Rolls("stat_short"), bad \in Rolls("stat_bad_code") :
       Answer(IF short THEN "22"
              ELSE IF bad THEN IF Exists THEN "2?3" ELSE "4?0"
              ELSE IF Exists THEN "223" ELSE "430")
  /\ UNCHANGED <<chaos, store, incoming, reauthRequired, demanded>>

HeadOrArticle ==
  /\ \/ Allowed("HEAD", "command") /\ Answer(IF Exists THEN "221" ELSE "430")
     \/ Allowed("ARTICLE", "command") /\ Answer(IF Exists THEN "220" ELSE "430")
  /\ UNCHANGED <<chaos, store, incoming, reauthRequired, demanded>>

\* Mutation: the refusal is forgotten.
BodyRefusedOnce ==
  /\ Allowed("BODY", "command")
  /\ reauthRequired \/ TRUE \in Rolls("reauth_body")
  /\ Answer("480")
  /\ demanded' = TRUE
  /\ UNCHANGED <<chaos, store, incoming, reauthRequired>>

BodyRefused ==
  /\ Allowed("BODY", "command")
  /\ reauthRequired \/ TRUE \in Rolls("reauth_body")
  /\ Answer("480")
  /\ reauthRequired' = TRUE /\ demanded' = TRUE
  /\ UNCHANGED <<chaos, store, incoming>>

\* Lines served of n: the byte that is corrupted may be, or become, a line end.
LinesAfter(n, corrupted) ==
  IF corrupted /\ n > 0 THEN {n - 1, n, n + 1} \ {0} ELSE {n}

\* The BODY gets past the re-authentication.
BodyAdmitted(next) ==
  /\ Allowed("BODY", next)
  /\ ~reauthRequired /\ FALSE \in Rolls("reauth_body")
  /\ UNCHANGED <<chaos, store, incoming, reauthRequired, demanded>>

BodyDropped ==
  /\ BodyAdmitted("closed")
  /\ TRUE \in Rolls("drop_conn") \cup Rolls("timeout_body")
  /\ UNCHANGED <<reply, client>>

\* handleBody: 430, or 222 and a body to serve under the configuration of now.
Body ==
  /\ \/ BodyAdmitted("command") /\ ~Exists /\ reply' = "430"
     \/ /\ BodyAdmitted("status") /\ Exists /\ reply' = "222"
        /\ \E corrupted \in Rolls("corrupt_body") :
             \E n \in LinesAfter(Len(articleBody(store[Command.rest[1]])), corrupted) :
               body' = <<[id |-> Command.rest[1], chaos |-> chaos, left |-> n]>>
  /\ FALSE \in Rolls("drop_conn") /\ FALSE \in Rolls("timeout_body")
  /\ UNCHANGED client

Post ==
  /\ Allowed("POST", "article") /\ Answer("340")
  /\ UNCHANGED <<chaos, store, incoming, reauthRequired, demanded>>

(***************************************************************************)
(* Test controls (handleControl).  What DELETE, RELOAD and METRICS do to   *)
(* files and counters is in ArticleStore and Metrics; a prefix is an ID.   *)
(***************************************************************************)
Chaos ==
  /\ Allowed("CHAOS", "command")
  /\ LET parsed == IF Command.rest = <<>> THEN <<Off>>
                   ELSE ParseChaos(Options[Command.rest[1]])
     IN  IF parsed = <<>>
         THEN Answer("501") /\ UNCHANGED chaos
         ELSE Answer("290") /\ chaos' = parsed[1]
  /\ UNCHANGED <<store, incoming, reauthRequired, demanded>>

Without(gone) == [id \in Ids |-> IF id \in gone THEN NoArticle ELSE store[id]]

Delete ==
  /\ \E word \in {"DELETE", "DELETEID"} : Allowed(word, "command")
  /\ Command.rest # <<>>
  /\ \/ /\ Answer("290")
        /\ store' = Without(Ids \cap {Command.rest[1]})
     \/ /\ StorageFails
        /\ Answer(IF Command.word = "DELETE" THEN "501" ELSE "500")
        /\ UNCHANGED store
  /\ UNCHANGED <<chaos, incoming, reauthRequired, demanded>>

OtherControl ==
  /\ \/ Allowed("RELOAD", "command") /\ Answer("290")
     \/ Allowed("RELOAD", "command") /\ StorageFails /\ Answer("500")
     \/ /\ Allowed("METRICS", "command")
        /\ Answer(IF Command.rest = <<>> THEN "501" ELSE "290")
     \/ /\ \E word \in {"DELETE", "DELETEID"} : Allowed(word, "command")
        /\ Command.rest = <<>>
        /\ Answer("501")
  /\ UNCHANGED <<chaos, store, incoming, reauthRequired, demanded>>

-----------------------------------------------------------------------------
(***************************************************************************)
(* The rest of handleBody, with its two waits: for an article that is held *)
(* (heldBody), and before each line for the budget of hold_body            *)
(* (spendHoldLine), which the bodies of other sessions may have spent.     *)
(***************************************************************************)
Goes(to, left) ==
  /\ phase' = to
  /\ body' = IF to \in BodyPhases THEN <<[body[1] EXCEPT !.left = left]>> ELSE <<>>
  /\ counted' = (counted /\ to # "closed")
  /\ UNCHANGED <<chaos, store, login, classified, control, incoming,
                 toServer, hungUp, reply, history>>

Left == body[1].left

CheckHeld ==
  /\ phase = "status"
  /\ Goes(IF body[1].id \in ToSet(chaos.holdIds) THEN "heldId" ELSE "lines", Left)
  /\ UNCHANGED client

\* Only a body that has copied a budget asks for a line of the live one.
Asks == body[1].chaos.number["hold_body"] > 0 /\ Holds(chaos)

WaitForLine ==
  /\ phase = "lines" /\ Left > 0 /\ Asks
  /\ Goes("heldLine", Left)
  /\ UNCHANGED client

WriteLine ==
  /\ \/ phase = "write"
     \/ phase = "lines" /\ Left > 0 /\ (Asks => chaos.number["hold_body"] > 0)
  /\ \E drops \in roll(body[1].chaos.number["drop_mid_body"]) :
       Goes(IF drops THEN "closed" ELSE "lines", Left - 1)
  /\ UNCHANGED client

\* The terminator, or without it a client that goes on waiting.
EndBody ==
  /\ phase = "lines" /\ Left = 0
  /\ Goes("command", 0)
  /\ \E bad \in roll(body[1].chaos.number["bad_term"]) :
       client' = IF bad THEN "lost" ELSE client

\* Server.Close lets a held body go, and its session ends.
GiveUp ==
  /\ phase \in Held
  /\ Goes("closed", 0)
  /\ UNCHANGED client

-----------------------------------------------------------------------------
(***************************************************************************)
(* The article of a POST (readPostedArticle), on the stream of the         *)
(* commands, and its end (handlePost).                                     *)
(***************************************************************************)
EndPost(code, next) ==
  /\ reply' = code
  /\ incoming' = <<>>
  /\ posted' = <<>>
  /\ phase' = next
  /\ counted' = (counted /\ next # "closed")
  /\ UNCHANGED <<chaos, body, login, classified, control,
                 hungUp, client, verdict, demanded, first>>

ReadLine ==
  /\ phase = "article" /\ toServer # <<>>
  /\ ~TooLong /\ Command # Terminator
  /\ toServer' = Tail(toServer)
  /\ incoming' = Append(incoming, unstuff(Command))
  /\ UNCHANGED <<chaos, store, phase, body, login, class,
                 hungUp, client, reply, history>>

Finish ==
  LET id  == messageIDFromHeaders(header(incoming))
      new == id # <<>> /\ store[id[1]] = NoArticle
  IN  /\ phase = "article" /\ toServer # <<>>
      /\ Command = Terminator
      /\ toServer' = Tail(toServer)
      /\ \/ /\ ~new \/ StorageFails
            /\ EndPost("441", "command") /\ UNCHANGED store
         \/ /\ new
            /\ EndPost("240", "command")
            /\ store' = [store EXCEPT ![id[1]] = incoming]
      /\ UNCHANGED abandoned

\* The temporary file cannot be created, or not be written any further.
Abandon ==
  /\ StorageFails /\ phase = "article"
  /\ EndPost("441", "command")
  /\ abandoned' = TRUE
  /\ UNCHANGED <<store, toServer>>

\* Mutation: the session goes on after an over-long line.
ArticleGoesOn ==
  /\ phase = "article"
  /\ \/ TooLong /\ Overrun
     \/ toServer = <<>> /\ hungUp /\ UNCHANGED toServer
  /\ EndPost("441", "command")
  /\ UNCHANGED <<store, abandoned>>

ArticleEnds ==
  /\ phase = "article"
  /\ \/ TooLong /\ Overrun /\ EndPost("441", "closed")
     \/ toServer = <<>> /\ hungUp /\ EndPost("441", "command") /\ UNCHANGED toServer
  /\ UNCHANGED <<store, abandoned>>

\* Mutation: the end of the stream is not noticed.
StreamNeverEnds ==
  /\ phase = "command" /\ TooLong /\ Overrun
  /\ reply' = "501" /\ phase' = "closed" /\ counted' = FALSE
  /\ UNCHANGED <<chaos, store, body, login, classified, control, incoming, hungUp,
                 client, history>>

\* The command loop cannot read another line.
StreamEnds ==
  /\ phase = "command"
  /\ \/ TooLong /\ Overrun /\ reply' = "501"
     \/ toServer = <<>> /\ hungUp /\ UNCHANGED <<toServer, reply>>
  /\ phase' = "closed" /\ counted' = FALSE
  /\ UNCHANGED <<chaos, store, body, login, classified, control, incoming, hungUp,
                 client, history>>

-----------------------------------------------------------------------------
Server ==
  \/ Greet \/ StreamEnds
  \/ Inform \/ Quit \/ Unknown
  \/ AuthUsage \/ AuthUser \/ AuthOutOfSequence \/ AuthRejected \/ AuthAccepted
  \/ Unauthenticated
  \/ Group \/ Stat \/ HeadOrArticle
  \/ BodyRefused \/ BodyDropped \/ Body
  \/ CheckHeld \/ WaitForLine \/ WriteLine \/ EndBody
  \/ Post \/ ReadLine \/ Finish \/ Abandon \/ ArticleEnds
  \/ Chaos \/ Delete \/ OtherControl

Client ==
  \/ \E command \in Commands : Send(command)
  \/ \E article \in Articles :
        \E length \in 0..Len(article) + 1 : SendArticle(article, length)
  \/ HangUp

Closed == phase = "closed" /\ UNCHANGED vars

Next ==
  \/ Server \/ Client
  \/ (\E config \in Profiles : SetChaos(config)) \/ GiveUp
  \/ Closed

Spec == Init /\ [][Next]_vars

\* When the client has hung up no read and no write blocks, so the goroutine
\* of the connection runs; before that it may wait for the client for ever.
\* In a hold it waits in any case, and nobody need release it (SetChaos) or
\* close the server (GiveUp).
FairSpec == Spec /\ WF_vars(hungUp /\ Server)

-----------------------------------------------------------------------------
(***************************************************************************)
(* Properties.                                                             *)
(***************************************************************************)
\* The types of the variables; in particular no configuration that Validate
\* refuses is ever in force.
TypeOK ==
  /\ Validate(chaos)
  /\ phase \in Phases
  /\ body # <<>> <=> phase \in BodyPhases
  /\ body # <<>> => Len(body) = 1 /\ Left \in Nat
  /\ phase \in {"heldLine", "write"} => Left > 0
  /\ authenticated \in BOOLEAN /\ reauthRequired \in BOOLEAN /\ hungUp \in BOOLEAN
  /\ classified \in BOOLEAN /\ control \in BOOLEAN /\ counted \in BOOLEAN
  /\ Len(pendingUser) <= 1 /\ Len(first) <= 1
  /\ client \in {"free", "asked", "invited", "lost"}
  /\ DOMAIN store = Ids /\ Len(posted) <= 1
  /\ phase # "article" => incoming = <<>>

\* The command loop reads a line of an article or the rest of an over-long
\* line, or readPostedArticle reads a command.
Misread ==
  /\ toServer # <<>> /\ toServer' = Tail(toServer)
  /\ \/ phase = "command" /\ Unread.as \in {"article", "rest"}
     \/ phase = "article" /\ Unread.as = "command"

\* Commands are read as commands and articles as articles, with over-long
\* lines, articles cut short, refused and duplicate postings: "the unread
\* remainder of the line must never be reinterpreted" (readLine).  The one
\* way out is a posting the server gave up before its end.
LinesKeepTheirMeaning == [][Misread => abandoned]_vars

\* The same without the way out: what handlePost says ends the session does.
PostedLinesAreNotCommands == [][~Misread]_vars

\* What a POST stores is the article the client has sent for it, whole, line
\* by line what it was before it was stuffed, and under its own ID: never a
\* part of it, a mixture with commands, or one the client did not finish.
StoredAsPosted ==
  [][\A id \in Ids : store'[id] \notin {store[id], NoArticle} /\ ~abandoned =>
       /\ posted = <<store'[id]>>
       /\ messageIDFromHeaders(header(store'[id])) = <<id>>]_vars

\* What a client reads of a reply: the lines up to the first terminator, each
\* without the dot it was stuffed with.
ClientReads(text) ==
  LET end   == SelectInSeq(text, LAMBDA line : line = Terminator)
      lines == SubSeq(text, 1, end - 1)
  IN  [i \in DOMAIN lines |->
         IF lines[i].dots = 0 THEN lines[i]
         ELSE Line(lines[i].dots - 1, lines[i].word, lines[i].rest)]

\* ARTICLE gives a client the article that was posted, HEAD what stands before
\* its first blank line and BODY what stands behind it, if it has one, names its
\* ID before it (or no POST stores it) and does not begin with a yEnc marker.
ReadsBackWhatWasPosted ==
  \A id \in Ids : store[id] \in Articles =>
    LET article == store[id]
        before  == Len(header(article))
        splits  == /\ before < Len(article) /\ ~IsYEnc(article)
                   /\ messageIDFromHeaders(header(article)) # <<>>
    IN  /\ ClientReads(writeDotStuffed(article)) = article
        /\ splits =>
             /\ ClientReads(writeDotStuffed(articleHeaders(id, article))) = header(article)
             /\ ClientReads(writeDotStuffed(articleBody(article)))
                  = SubSeq(article, before + 2, Len(article))

\* The command loop reads and serves a line.
Serving == phase = "command" /\ toServer # <<>> /\ toServer' = Tail(toServer)

\* Nothing but 480 answers a restricted command, the store and the faults do
\* not change, unless the last PASS was accepted, whatever came in between.
OnlyWhileLoggedIn ==
  [][Serving /\ verdict # "accepted" =>
       /\ Command.dots = 0 /\ Command.word \in Restricted => reply' = "480"
       /\ UNCHANGED <<store, chaos>>]_vars

\* A client told to authenticate anew, by the 480 of a BODY or the 481 of a
\* PASS, gets no body, no end of the connection and no 430 for one, until a
\* PASS is accepted: not by another user name, and not by other commands.
ReauthenticationBinds ==
  [][Serving /\ demanded /\ Command.dots = 0 /\ Command.word = "BODY" =>
       reply' = "480" /\ phase' = "command" /\ demanded']_vars

\* A connection counts as a session from its first command to its end, and
\* one that begins with MODE CONTROL, and only that, never.
OnlyControlChannelsUncounted ==
  counted <=> phase # "closed" /\ first = <<FALSE>>

\* The last number an option is given, 0 if it has none.
LastOf(options, name) ==
  LET given == {i \in DOMAIN options : options[i].name = name}
  IN  IF given = {} THEN 0 ELSE options[Max(given)].numbers[1]

\* CHAOS either changes nothing, or puts in force what its argument says and
\* nothing of what was in force before.
ChaosAsWritten ==
  [][Serving /\ Command.word = "CHAOS" /\ Command.rest # <<>> =>
       \/ reply' # "290" /\ chaos' = chaos
       \/ LET options == Options[Command.rest[1]]
          IN  /\ \A name \in Percentages \cup Amounts :
                    chaos'.number[name] = LastOf(options, name)
              /\ ToSet(chaos'.holdIds) =
                   UNION {ToSet(options[i].ids) : i \in DOMAIN options}]_vars

\* A client that hangs up, at a command, in the middle of an article or of a
\* body, leaves no session behind but one that stays in a hold for ever:
\* whatever holds come and go, each that is released brings it nearer its end.
HangUpEndsSession ==
  []<>(phase \notin Held) => (hungUp ~> phase = "closed")
=============================================================================
