----------------------------- MODULE MCSession -----------------------------
(***************************************************************************)
(* Instances of Session for TLC.                                           *)
(***************************************************************************)
EXTENDS Session, TLC

CONSTANTS a, b

MCCredentials == <<"user", "secret">>

With(name, number) == [Off EXCEPT !.number[name] = number]

\* No faults; all of them and a budget of lines; an article that is held.
MCProfiles ==
  {Off,
   [Off EXCEPT !.number =
      [name \in DOMAIN @ |-> CASE name = "max_conns" -> 2
                               [] name = "slow_body" -> 0
                               [] name = "hold_body" -> 1
                               [] OTHER -> 50]],
   [Off EXCEPT !.holdIds = <<a>>]}

Set(name, number) == [name |-> name, numbers |-> <<number>>, ids |-> <<>>]
Hold(ids) == [name |-> "hold_ids", numbers |-> <<>>, ids |-> ids]

MCOptions ==
  [twice   |-> <<Set("reauth_body", 101), Hold(<<a>>), Set("reauth_body", 100), Hold(<<b>>)>>,
   toohigh |-> <<Set("reject_auth", 50), Set("stat_short", 101)>>,
   noid    |-> <<Set("stat_short", 50), Hold(<<"">>)>>,
   unread  |-> <<Set("stat_short", 50), [Set("slow_body", 0) EXCEPT !.numbers = <<>>]>>]

Id(id) == Line(0, "Message-ID", <<id>>)
Text   == Line(0, "text", <<>>)
Dot    == Line(1, "", <<>>)
Dots   == Line(2, "text", <<>>)

\* With a line that is a command, with dots, without an ID, with an over-long
\* line, and without a blank line.
MCArticles ==
  {<<Id(a), Blank, Line(0, "QUIT", <<>>)>>,
   <<Id(a), Blank, Dot, Blank, Dots>>,
   <<Text, Blank, Id(a)>>,
   <<Id(a), Line(0, "long", <<>>)>>,
   <<Id(a)>>}

\* An empty store, and one with a body-only fixture.
MCFixtures ==
  {[id \in Ids |-> NoArticle],
   [id \in Ids |-> <<Line(0, "=ybegin", <<>>), Blank, Dot>>]}

Auth(sub, value) == Line(0, "AUTHINFO", <<sub, value>>)
Word(word)       == Line(0, word, <<>>)

AuthCommands ==
  {Auth("USER", "user"), Auth("PASS", "secret"), Auth("PASS", "wrong"),
   Line(0, "AUTHINFO", <<"USER">>)}

MCCommands ==
  AuthCommands \cup
  {Word(word) : word \in {"DATE", "QUIT", "POST", "METRICS",
                          "RELOAD", "long", "nonsense"}} \cup
  {Line(0, "MODE", <<"CONTROL">>), Line(0, "GROUP", <<"group">>),
   Line(0, "STAT", <<a>>), Line(0, "HEAD", <<a>>), Line(0, "BODY", <<a>>),
   Line(0, "DELETEID", <<a>>), Line(0, "DELETE", <<>>)} \cup
  {Line(0, "CHAOS", <<argument>>) : argument \in DOMAIN MCOptions}

MCPipelined == {Line(0, "BODY", <<a>>), Word("POST")}
=============================================================================
