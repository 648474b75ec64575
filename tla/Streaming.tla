------------------------------ MODULE Streaming ------------------------------
(***************************************************************************)
(* StreamingManager: channels, each an rxjs Subject, and their subscribers.*)
(* Everything is synchronous: publish() calls the subscribers one after    *)
(* the other, and a subscriber may call the manager again from within its  *)
(* callback, so publishings nest.  `stack` holds those that have begun and *)
(* not finished, innermost last; only the callback that is running, or     *)
(* nobody's when the stack is empty, can act.                              *)
(*                                                                         *)
(* A Subject calls those who were subscribed when next() began, as far as  *)
(* they still are.  Abstracted: message contents and the derived           *)
(* observables (subscribeFiltered, subscribeToSource, getChannelData).     *)
(***************************************************************************)
EXTENDS Naturals, Sequences

CONSTANTS
  Channels,     \* names of channels
  Configured,   \* those of STREAMING_CHANNELS
  Subs,         \* subscriptions; each is made once
  MaxMessages   \* bound: messages published

ASSUME StreamingAssumption ==
  /\ Configured \subseteq Channels
  /\ MaxMessages \in Nat

VARIABLES
  streamingOn,   \* the flag that initialize() reads
  subjects,      \* channels that exist
  subscribed,    \* the channel of each live subscription
  stack,         \* publishings under way
  messageCount,  \* messages counted
  status,        \* the last value of statusSubject
  closed,        \* statusSubject is complete
  sent           \* history: messages that were accepted

streamVars == <<streamingOn, subjects, subscribed, stack, messageCount, status,
                closed, sent>>

Gone == "GONE"
Nested == Len(stack)
Top == stack[Nested]

\* Somebody is running who can call the manager.
Running == IF stack = <<>> THEN TRUE ELSE Top.calling

Observers(ch) == {s \in Subs : subscribed[s] = ch}

StreamingInit ==
  /\ streamingOn = FALSE
  /\ subjects = {}
  /\ subscribed = [s \in Subs |-> "NEW"]
  /\ stack = <<>>
  /\ messageCount = 0
  /\ status = [enabled |-> FALSE, channels |-> {}, messageCount |-> 0]
  /\ closed = FALSE
  /\ sent = 0

\* updateStatus(), which a completed statusSubject ignores.
UpdateStatus(on, channels, count) ==
  status' = IF closed THEN status
            ELSE [enabled |-> on, channels |-> channels, messageCount |-> count]

\* subject.complete() ends the subscriptions of a channel.
Completed(chs) ==
  [s \in Subs |-> IF subscribed[s] \in chs THEN Gone ELSE subscribed[s]]

-----------------------------------------------------------------------------
\* initializeChannels() with the names of STREAMING_CHANNELS.
Initialized == subjects \cup Configured

InitializeStreaming ==
  /\ ~streamingOn /\ Running
  /\ streamingOn' = TRUE
  /\ subjects' = Initialized
  /\ UpdateStatus(TRUE, subjects', messageCount)
  /\ UNCHANGED <<subscribed, stack, messageCount, closed, sent>>

\* destroy(); publishings under way go on, with nobody left to hear them.
DestroyStreaming ==
  /\ Running
  /\ subscribed' = Completed(subjects)
  /\ subjects' = {}
  /\ closed' = TRUE
  /\ UNCHANGED <<streamingOn, stack, messageCount, status, sent>>

\* Neither createChannel() nor destroyChannel() asks whether streaming is on.
CreateChannel(ch) ==
  /\ Running
  /\ ch \notin subjects
  /\ subjects' = subjects \cup {ch}
  /\ UpdateStatus(streamingOn, subjects', messageCount)
  /\ UNCHANGED <<streamingOn, subscribed, stack, messageCount, closed, sent>>

DestroyChannel(ch) ==
  /\ Running
  /\ ch \in subjects
  /\ subscribed' = Completed({ch})
  /\ subjects' = subjects \ {ch}
  /\ UpdateStatus(streamingOn, subjects', messageCount)
  /\ UNCHANGED <<streamingOn, stack, messageCount, closed, sent>>

\* subscribe() to a channel; where there is none, or streaming is off, the
\* observable completes at once.
Subscribe(s, ch) ==
  /\ Running
  /\ subscribed[s] = "NEW"
  /\ subscribed' = [subscribed EXCEPT
       ![s] = IF streamingOn /\ ch \in subjects THEN ch ELSE Gone]
  /\ UNCHANGED <<streamingOn, subjects, stack, messageCount, status, closed,
                 sent>>

Unsubscribe(s) ==
  /\ Running
  /\ subscribed[s] \in Channels
  /\ subscribed' = [subscribed EXCEPT ![s] = Gone]
  /\ UNCHANGED <<streamingOn, subjects, stack, messageCount, status, closed,
                 sent>>

\* publish() up to subject.next(); without the channel, or with streaming off,
\* the message is dropped.
Publish(ch) ==
  /\ Running
  /\ streamingOn
  /\ ch \in subjects
  /\ sent < MaxMessages
  /\ sent' = sent + 1
  /\ stack' = Append(stack, [todo |-> Observers(ch), calling |-> FALSE])
  /\ UNCHANGED <<streamingOn, subjects, subscribed, messageCount, status,
                 closed>>

Heard == {s \in Top.todo : subscribed[s] \in Channels}

\* next() calls one more subscriber.
Deliver(s) ==
  /\ stack # <<>>
  /\ s \in Heard
  /\ stack' = [stack EXCEPT
       ![Nested] = [todo |-> @.todo \ {s}, calling |-> TRUE]]
  /\ UNCHANGED <<streamingOn, subjects, subscribed, messageCount, status,
                 closed, sent>>

\* Mutant of Published: the status is sent before the message is counted.
PublishedTellsFirst ==
  /\ stack # <<>>
  /\ Heard = {}
  /\ stack' = SubSeq(stack, 1, Nested - 1)
  /\ messageCount' = messageCount + 1
  /\ UpdateStatus(streamingOn, subjects, messageCount)
  /\ UNCHANGED <<streamingOn, subjects, subscribed, closed, sent>>

\* The rest of publish(): count, then tell.
Published ==
  /\ stack # <<>>
  /\ Heard = {}
  /\ stack' = SubSeq(stack, 1, Nested - 1)
  /\ messageCount' = messageCount + 1
  /\ UpdateStatus(streamingOn, subjects, messageCount')
  /\ UNCHANGED <<streamingOn, subjects, subscribed, closed, sent>>

StreamingNext ==
  \/ InitializeStreaming \/ DestroyStreaming \/ Published
  \/ \E ch \in Channels : CreateChannel(ch) \/ DestroyChannel(ch) \/ Publish(ch)
  \/ \E s \in Subs :
       Unsubscribe(s) \/ Deliver(s) \/ \E ch \in Channels : Subscribe(s, ch)

StreamingSpec == StreamingInit /\ [][StreamingNext]_streamVars

-----------------------------------------------------------------------------
(* Properties.                                                             *)

\* Every variable keeps its type.
StreamingTypeOK ==
  /\ streamingOn \in BOOLEAN
  /\ subjects \subseteq Channels
  /\ subscribed \in [Subs -> Channels \cup {"NEW", Gone}]
  /\ stack \in Seq([todo : SUBSET Subs, calling : BOOLEAN])
  /\ messageCount \in Nat
  /\ status \in [enabled : BOOLEAN, channels : SUBSET Channels,
                 messageCount : Nat]
  /\ closed \in BOOLEAN
  /\ sent \in Nat

\* Publishings nest, and are counted when they end, the inner ones first:
\* messageCount lags behind by the ones under way and by no more.  Once none is
\* left, the status that getStatus() shows is the manager's own again -- unless
\* destroy() has completed it, after which it is frozen for good.
StatusCatchesUp ==
  /\ messageCount + Nested = sent
  /\ stack = <<>> /\ ~closed =>
       status = [enabled |-> streamingOn, channels |-> subjects,
                 messageCount |-> sent]
=============================================================================
