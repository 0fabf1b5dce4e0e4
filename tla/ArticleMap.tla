----------------------------- MODULE ArticleMap -----------------------------
(***************************************************************************)
(* What the article store promises (store.go): a map from message IDs to   *)
(* whole articles on which every call of a session takes effect at one     *)
(* moment between its start and its answer, whatever other sessions do.    *)
(* Only a deletion by prefix takes several moments, one per article.       *)
(* A crash ends the calls and loses nothing of the map, and a disk that    *)
(* fails changes nothing but the answer.                                   *)
(***************************************************************************)
EXTENDS Integers, FiniteSets

CONSTANTS
  Ids,          \* message IDs; their order is the order of sort.Strings
  Contents,     \* whole articles
  Sessions,     \* who calls the store
  Prefixes,     \* a prefix stands for the IDs that begin with it
  Percentages,  \* of a deletion by prefix
  NoFile,       \* no article
  NoCall        \* no call, no answer

VARIABLES
  stored,       \* the map
  call,         \* the call each session has made
  answer,       \* the answer it will get
  removing,     \* articles a deletion has yet to remove
  faults        \* how often the disk has failed

vars == <<stored, call, answer, removing, faults>>

Calls ==
       [op : {"post"}, id : Ids, content : Contents]
  \cup [op : {"load", "exists", "delete"}, id : Ids]
  \cup [op : {"deletePrefix"}, prefix : Prefixes, percentage : Percentages]
  \cup [op : {"reload"}]

Present == {id \in Ids : stored[id] # NoFile}

(***************************************************************************)
(* The smallest IDs of a set, as many as the percentage rounded down.      *)
(***************************************************************************)
Share(matching, percentage) ==
  {id \in matching :
     Cardinality({other \in matching : other < id})
       < (Cardinality(matching) * percentage) \div 100}

Init ==
  /\ stored = [id \in Ids |-> NoFile]
  /\ call = [s \in Sessions |-> NoCall]
  /\ answer = [s \in Sessions |-> NoCall]
  /\ removing = [s \in Sessions |-> {}]
  /\ faults = 0

Invoke(s) ==
  /\ call[s] = NoCall
  /\ \E c \in Calls : call' = [call EXCEPT ![s] = c]
  /\ UNCHANGED <<stored, answer, removing, faults>>

Return(s) ==
  /\ answer[s] # NoCall /\ removing[s] = {}
  /\ call' = [call EXCEPT ![s] = NoCall]
  /\ answer' = [answer EXCEPT ![s] = NoCall]
  /\ UNCHANGED <<stored, removing, faults>>

Pending(s, op) == call[s] # NoCall /\ call[s].op = op /\ answer[s] = NoCall

Answers(s, reply) == answer' = [answer EXCEPT ![s] = reply]

\* An article is stored whole, and never over another.
Post(s) ==
  /\ Pending(s, "post")
  /\ IF stored[call[s].id] = NoFile
     THEN /\ stored' = [stored EXCEPT ![call[s].id] = call[s].content]
          /\ Answers(s, <<"post", "received">>)
     ELSE Answers(s, <<"post", "duplicate">>) /\ UNCHANGED stored
  /\ UNCHANGED <<call, removing, faults>>

\* The client gave up, or sent an article that is refused.
PostRefused(s) ==
  /\ Pending(s, "post")
  /\ Answers(s, <<"post", "failed">>)
  /\ UNCHANGED <<stored, call, removing, faults>>

Load(s) ==
  /\ Pending(s, "load")
  /\ Answers(s, <<"article", stored[call[s].id]>>)
  /\ UNCHANGED <<stored, call, removing, faults>>

Exists(s) ==
  /\ Pending(s, "exists")
  /\ Answers(s, <<"exists", stored[call[s].id] # NoFile>>)
  /\ UNCHANGED <<stored, call, removing, faults>>

Reload(s) ==
  /\ Pending(s, "reload")
  /\ Answers(s, <<"count", Cardinality(Present)>>)
  /\ UNCHANGED <<stored, call, removing, faults>>

\* A deletion picks its articles at one moment ...
Victims(c) ==
  IF c.op = "delete" THEN {c.id} \cap Present
                     ELSE Share(c.prefix \cap Present, c.percentage)

Delete(s) ==
  /\ Pending(s, "delete") \/ Pending(s, "deletePrefix")
  /\ removing' = [removing EXCEPT ![s] = Victims(call[s])]
  /\ Answers(s, <<"deleted", Cardinality(Victims(call[s]))>>)
  /\ UNCHANGED <<stored, call, faults>>

\* ... and removes them one by one.
RemoveOne(s) ==
  \E id \in removing[s] :
    /\ stored' = [stored EXCEPT ![id] = NoFile]
    /\ removing' = [removing EXCEPT ![s] = @ \ {id}]
    /\ UNCHANGED <<call, answer, faults>>

\* The disk fails: the call answers so, or that there is no such article.
Fail(s) ==
  /\ call[s] # NoCall /\ (answer[s] = NoCall \/ removing[s] # {})
  /\ faults' = faults + 1
  /\ answer' = [answer EXCEPT ![s] =
                  CASE call[s].op = "post" -> <<"post", "failed">>
                    [] call[s].op = "load" -> <<"article", NoFile>>
                    [] OTHER -> <<"failed", 0>>]
  /\ removing' = [removing EXCEPT ![s] = {}]
  /\ UNCHANGED <<stored, call>>

\* The disk fails where the answer does not depend on it.
FailUnseen ==
  /\ faults' = faults + 1
  /\ UNCHANGED <<stored, call, answer, removing>>

Crash ==
  /\ call' = [s \in Sessions |-> NoCall]
  /\ answer' = [s \in Sessions |-> NoCall]
  /\ removing' = [s \in Sessions |-> {}]
  /\ UNCHANGED <<stored, faults>>

Next ==
  \/ \E s \in Sessions :
       \/ Invoke(s) \/ Post(s) \/ PostRefused(s) \/ Load(s) \/ Exists(s)
       \/ Reload(s) \/ Delete(s) \/ RemoveOne(s) \/ Fail(s) \/ Return(s)
  \/ FailUnseen \/ Crash

Spec == Init /\ [][Next]_vars
=============================================================================
