---------------------------- MODULE CommunicationBus ---------------------------
(***************************************************************************)
(* src/orchestrator/communication_bus.py: one topic with its subscribers,  *)
(* publications that go through the live list of subscribers while each of *)
(* them may suspend, replay to new subscribers, and the queue of dead      *)
(* letters, whose processor ends with its first letter because logger is   *)
(* not defined.  A subscriber subscribes once.                             *)
(***************************************************************************)
EXTENDS Naturals, Sequences, SequencesExt, FiniteSets

CONSTANTS Callbacks,          \* subscribers
          Publications        \* calls of publish

ASSUME CallbacksAssumption == IsFiniteSet(Callbacks)

VARIABLES topic,              \* topics[topic]
          joined,             \* callbacks that have subscribed
          history,            \* the persisted messages of the topic
          publication,        \* the state of each call of publish
          replaying,          \* messages a new subscriber still has to be given
          told,               \* history: the messages each subscriber was given
          unsubscribed,       \* history: publications during which one left
          letters,            \* messages in the dead letter queue
          processor           \* whether the dead letter processor is alive

busVars == <<topic, joined, history, publication, replaying, told, unsubscribed,
             letters, processor>>

NotPublished == [pc |-> "new", next |-> 1, owed |-> {}, dropped |-> <<>>]

BusInit ==
  /\ topic = <<>> /\ joined = {}
  /\ history = <<>>
  /\ publication = [p \in Publications |-> NotPublished]
  /\ replaying = [c \in Callbacks |-> <<>>]
  /\ told = [c \in Callbacks |-> {}]
  /\ unsubscribed = {}
  /\ letters = {}
  /\ processor = TRUE

BusTypeOK ==
  /\ topic \in Seq(Callbacks) /\ history \in Seq(Publications)
  /\ joined \subseteq Callbacks
  /\ \A p \in Publications :
       /\ publication[p].pc \in {"new", "telling", "over"}
       /\ publication[p].next \in 1..Cardinality(Callbacks) + 1
       /\ publication[p].owed \subseteq Callbacks
       /\ publication[p].dropped \in Seq(Callbacks)
  /\ replaying \in [Callbacks -> Seq(Publications)]
  /\ told \in [Callbacks -> SUBSET Publications]
  /\ unsubscribed \subseteq Publications
  /\ letters \subseteq Publications /\ processor \in BOOLEAN

\* subscribe appends, and then gives the last messages of the history (all of
\* them here) one by one.
Subscribe(c) ==
  /\ c \notin joined
  /\ joined' = joined \cup {c}
  /\ topic' = Append(topic, c)
  /\ replaying' = [replaying EXCEPT ![c] = history]
  /\ UNCHANGED <<history, publication, told, unsubscribed, letters, processor>>

Replay(c) ==
  /\ replaying[c] # <<>>
  /\ told' = [told EXCEPT ![c] = @ \cup {Head(replaying[c])}]
  /\ replaying' = [replaying EXCEPT ![c] = Tail(@)]
  /\ UNCHANGED <<topic, joined, history, publication, unsubscribed, letters,
                 processor>>

Telling == {p \in Publications : publication[p].pc = "telling"}

\* unsubscribe.
Unsubscribe(c) ==
  /\ Contains(topic, c)
  /\ topic' = RemoveFirst(topic, c)
  /\ unsubscribed' = unsubscribed \cup Telling
  /\ UNCHANGED <<joined, history, publication, replaying, told, letters, processor>>

\* publish stores the message and begins with the first subscriber; without
\* one it returns at once.
Publish(p, persist) ==
  /\ publication[p].pc = "new"
  /\ history' = IF persist THEN Append(history, p) ELSE history
  /\ publication' = [publication EXCEPT ![p].pc = IF topic = <<>> THEN "over" ELSE "telling",
                                        ![p].owed = ToSet(topic)]
  /\ UNCHANGED <<topic, joined, replaying, told, unsubscribed, letters, processor>>

\* The list the loop of publish goes through: the live one, unless a cleanup
\* has dropped it from the bus.
ListOf(p) == IF publication[p].dropped = <<>> THEN topic ELSE publication[p].dropped

\* A mutant of AfterError: an exception ends the loop over the subscribers.
AfterErrorOver(p) == Len(ListOf(p)) + 1

\* An exception of a subscriber becomes a dead letter; the loop goes on.
AfterError(p) == publication[p].next + 1

\* The loop awaits the next subscriber, by its place in the list.
TellNext(p) ==
  /\ p \in Telling
  /\ publication[p].next <= Len(ListOf(p))
  /\ LET c == ListOf(p)[publication[p].next]
     IN  /\ told' = [told EXCEPT ![c] = @ \cup {p}]
         /\ \/ /\ publication' = [publication EXCEPT ![p].next = @ + 1]
               /\ UNCHANGED letters
            \/ /\ publication' = [publication EXCEPT ![p].next = AfterError(p)]
               /\ letters' = letters \cup {p}
  /\ UNCHANGED <<topic, joined, history, replaying, unsubscribed, processor>>

PublishReturns(p) ==
  /\ p \in Telling
  /\ publication[p].next > Len(ListOf(p))
  /\ publication' = [publication EXCEPT ![p].pc = "over"]
  /\ UNCHANGED <<topic, joined, history, replaying, told, unsubscribed, letters,
                 processor>>

\* _process_dead_letters: the log line raises, and so does its handler.
ProcessDeadLetter ==
  /\ processor
  /\ \E p \in letters : letters' = letters \ {p}
  /\ processor' = FALSE
  /\ UNCHANGED <<topic, joined, history, publication, replaying, told, unsubscribed>>

\* cleanup_execution drops the topic with its history; loops that go through
\* its list keep it.
CleanupExecution ==
  /\ topic # <<>>
  /\ topic' = <<>> /\ history' = <<>>
  /\ publication' = [p \in Publications |->
       IF p \in Telling /\ publication[p].dropped = <<>>
       THEN [publication[p] EXCEPT !.dropped = topic] ELSE publication[p]]
  /\ UNCHANGED <<joined, replaying, told, unsubscribed, letters, processor>>

BusNext ==
  \/ \E c \in Callbacks : Subscribe(c) \/ Replay(c) \/ Unsubscribe(c)
  \/ \E p \in Publications :
       \/ \E persist \in BOOLEAN : Publish(p, persist)
       \/ TellNext(p) \/ PublishReturns(p)
  \/ ProcessDeadLetter \/ CleanupExecution

--------------------------------------------------------------------------------
\* MissedOnlyByUnsubscribe: a subscriber that was there when a message was
\* published has been given it when publish returns, whatever the others
\* raise, whoever subscribes in between and though the topic may be cleaned
\* up.  Only an unsubscription while the list is gone through can make the
\* loop step over somebody.
MissedOnlyByUnsubscribe ==
  \A p \in Publications :
    publication[p].pc = "over" /\ p \notin unsubscribed =>
      \A c \in publication[p].owed : p \in told[c]
================================================================================
