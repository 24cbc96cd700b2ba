---------------------------- MODULE PushChannels ----------------------------
(***************************************************************************)
(* What is pushed to people: messages over the registered WebSockets of a  *)
(* user, a conversation or a tenant, the events of an agent's output       *)
(* stream, and notifications about operations, sent by tasks that nobody   *)
(* awaits.  The three share nothing and are not interleaved.               *)
(***************************************************************************)
EXTENDS Integers, Sequences, FiniteSets, SequencesExt, FiniteSetsExt

CONSTANTS
  Sockets,
  Tenants, Accounts, Threads,   \* what a socket is registered for
  NoThread,                     \* without a conversation
  BufferSize,                   \* of an output stream: 1000
  MaxEmitted,                   \* bound on its events
  Approvers                     \* of an operation

ASSUME ChannelAssumption ==
  /\ NoThread \notin Threads /\ BufferSize \in Nat \ {0} /\ MaxEmitted \in Nat
  /\ IsFiniteSet(Approvers) /\ "webhook" \notin Approvers

VARIABLES
  sockets,     \* _connections: what each registered socket is registered for
  indexes,     \* _by_user, _by_tenant and _by_conversation
  sending,     \* the message under way: its key, its targets, who has got it
  stream,      \* the queue of events, and whether the stream is over
  emitted,     \* history: the events that were emitted, in order
  emitter,     \* the event that waits for a place in the queue, and whether one ended the stream
  reader,      \* the events that the client has got, and how it ended
  notice       \* a notification: tasks and deliveries per receiver, its result

socketVars == <<sockets, indexes, sending>>
streamVars == <<stream, emitted, emitter, reader>>
channelVars == <<sockets, indexes, sending, stream, emitted, emitter, reader, notice>>

NoSending == [key |-> << >>, targets |-> {}, got |-> {}]

(* The mailboxes, and the one webhook that is configured for everybody.    *)
Receivers == Approvers \cup {"webhook"}
NoMail == [to \in Receivers |-> 0]

Notice(kind, whom, tasks, result) ==
  [kind |-> kind, whom |-> whom, tasks |-> tasks, delivered |-> NoMail, result |-> result]

NoNotice == Notice("none", {}, NoMail, FALSE)

ChannelsInit ==
  /\ sockets = [ws \in {} |-> << >>]
  /\ indexes = [key \in {} |-> {}]
  /\ sending = NoSending
  /\ stream = [queue |-> << >>, over |-> FALSE]
  /\ emitted = << >>
  /\ emitter = [waiting |-> << >>, ended |-> FALSE]
  /\ reader = [got |-> << >>, at |-> "reading"]
  /\ notice = NoNotice

SocketsIdle == sockets = [ws \in {} |-> << >>]
StreamIdle == emitted = << >> /\ ~stream.over
-----------------------------------------------------------------------------
(* The keys a socket is found under. *)
KeysOf(meta) ==
  {<<"user", meta[1], meta[2]>>, <<"tenant", meta[1]>>}
    \cup (IF meta[3] = NoThread THEN {} ELSE {<<"conversation", meta[3]>>})

Open == {ws \in DOMAIN sockets : sockets[ws].open}
At(key) == IF key \in DOMAIN indexes THEN indexes[key] ELSE {}

ConnectSocket(ws) ==
  /\ ws \notin DOMAIN sockets /\ StreamIdle /\ notice = NoNotice
  /\ \E meta \in Tenants \X Accounts \X (Threads \cup {NoThread}) :
       /\ sockets' = [s \in DOMAIN sockets \cup {ws} |->
                        IF s = ws THEN [meta |-> meta, open |-> TRUE] ELSE sockets[s]]
       /\ indexes' = [key \in DOMAIN indexes \cup KeysOf(meta) |->
                        At(key) \cup (IF key \in KeysOf(meta) THEN {ws} ELSE {})]
  /\ UNCHANGED <<sending, streamVars, notice>>

(* A key without sockets is removed. *)
DisconnectSocket(ws) ==
  /\ ws \in Open
  /\ sockets' = [sockets EXCEPT ![ws] = [meta |-> @.meta, open |-> FALSE]]
  /\ indexes' = [key \in {k \in DOMAIN indexes : indexes[k] # {ws}} |-> indexes[key] \ {ws}]
  /\ UNCHANGED <<sending, streamVars, notice>>

(* The targets are copied; the sends run side by side.                     *)
SendAll ==
  /\ sending.targets = {}
  /\ \E key \in DOMAIN indexes : sending' = [key |-> key, targets |-> indexes[key], got |-> {}]
  /\ UNCHANGED <<sockets, indexes, streamVars, notice>>

(* A send that fails, to a closed socket or to another one, is logged.     *)
SafeSendJson(ws) ==
  /\ ws \in sending.targets
  /\ \E sent \in SUBSET ({ws} \cap Open) :
       sending' = [sending EXCEPT !.targets = @ \ {ws}, !.got = @ \cup sent]
  /\ UNCHANGED <<sockets, indexes, streamVars, notice>>
-----------------------------------------------------------------------------
LastEvents == {"error", "done"}

(* An event of a stream that is over is dropped.  The queue may be full.   *)
Emit ==
  /\ SocketsIdle /\ notice = NoNotice
  /\ ~stream.over /\ emitter.waiting = << >> /\ Len(emitted) < MaxEmitted
  /\ \E event \in {"token", "citation"} \cup LastEvents :
       /\ emitted' = Append(emitted, event)
       /\ IF Len(stream.queue) < BufferSize
            THEN /\ stream' = [queue |-> Append(stream.queue, event), over |-> event \in LastEvents]
                 /\ emitter' = [emitter EXCEPT !.ended = event \in LastEvents]
            ELSE emitter' = [emitter EXCEPT !.waiting = <<event>>] /\ UNCHANGED stream
  /\ UNCHANGED <<socketVars, reader, notice>>

(* The coroutine that emits is resumed when there is a place. *)
Put ==
  /\ emitter.waiting # << >> /\ Len(stream.queue) < BufferSize
  /\ stream' = [queue |-> stream.queue \o emitter.waiting,
                over |-> stream.over \/ emitter.waiting[1] \in LastEvents]
  /\ emitter' = [waiting |-> << >>, ended |-> emitter.waiting[1] \in LastEvents]
  /\ UNCHANGED <<socketVars, emitted, reader, notice>>

(* The loop goes on while the stream is not over or something is queued.   *)
ReadEvent ==
  /\ reader.at = "reading" /\ stream.queue # << >>
  /\ reader' = [reader EXCEPT !.got = Append(@, Head(stream.queue))]
  /\ stream' = [stream EXCEPT !.queue = Tail(@)]
  /\ UNCHANGED <<socketVars, emitted, emitter, notice>>

EndOfStream ==
  /\ reader.at = "reading" /\ stream.queue = << >> /\ stream.over
  /\ reader' = [reader EXCEPT !.at = "ended"]
  /\ UNCHANGED <<socketVars, stream, emitted, emitter, notice>>

(* The client is gone: the generator is cancelled and marks the stream.    *)
CancelReader ==
  /\ SocketsIdle /\ notice = NoNotice
  /\ reader.at = "reading"
  /\ reader' = [reader EXCEPT !.at = "cancelled"]
  /\ stream' = [stream EXCEPT !.over = TRUE]
  /\ UNCHANGED <<socketVars, emitted, emitter, notice>>
-----------------------------------------------------------------------------
(* A task for every approver and channel that is configured: a mail to     *)
(* each, and for each a post of the same text to the webhook.  In the      *)
(* application a notification is only logged, which always succeeds.       *)
SendApprovalRequest ==
  /\ notice = NoNotice /\ SocketsIdle /\ StreamIdle
  /\ \E whom \in SUBSET Approvers, channels \in SUBSET {"email", "teams", "in_app"},
        configured \in SUBSET {"email", "teams"} :
       notice' = Notice("request", whom,
         [to \in Receivers |->
            IF to = "webhook" THEN IF "teams" \in channels \cap configured THEN Cardinality(whom) ELSE 0
            ELSE IF to \in whom /\ "email" \in channels \cap configured THEN 1 ELSE 0],
         whom # {} /\ channels \cap (configured \cup {"in_app"}) # {})
  /\ UNCHANGED <<socketVars, streamVars>>

(* One task to one receiver. *)
Only(r) == [to \in Receivers |-> IF to = r THEN 1 ELSE 0]

(* The requester is sent an email, if there is a server for it.            *)
SendApprovalResult ==
  /\ notice = NoNotice /\ SocketsIdle /\ StreamIdle
  /\ \E requester \in Approvers, configured \in BOOLEAN :
       notice' = Notice("result", {requester}, IF configured THEN Only(requester) ELSE NoMail, configured)
  /\ UNCHANGED <<socketVars, streamVars>>

(* The outcome goes to the first channel there is, the log for want of     *)
(* others.                                                                 *)
SendExecutionResult ==
  /\ notice = NoNotice /\ SocketsIdle /\ StreamIdle
  /\ \E to \in Approvers, configured \in SUBSET {"email", "teams"} :
       notice' = Notice("execution", {to},
                        IF "email" \in configured THEN Only(to)
                        ELSE IF "teams" \in configured THEN Only("webhook") ELSE NoMail, TRUE)
  /\ UNCHANGED <<socketVars, streamVars>>

(* A task delivers or logs its failure; nobody is told.                    *)
NotificationTask ==
  /\ \E to \in Receivers :
       /\ notice.tasks[to] > 0
       /\ \E arrives \in {0, 1} :
            notice' = [notice EXCEPT !.tasks[to] = @ - 1, !.delivered[to] = @ + arrives]
  /\ UNCHANGED <<socketVars, streamVars>>

ChannelsNext ==
  \/ \E ws \in Sockets : ConnectSocket(ws) \/ DisconnectSocket(ws) \/ SafeSendJson(ws)
  \/ SendAll
  \/ Emit \/ Put \/ ReadEvent \/ EndOfStream \/ CancelReader
  \/ SendApprovalRequest \/ SendApprovalResult \/ SendExecutionResult \/ NotificationTask

ChannelsSpec == ChannelsInit /\ [][ChannelsNext]_channelVars

-----------------------------------------------------------------------------
(* A socket is found under its own keys and no other, and a key that       *)
(* nobody is registered for is forgotten; whoever comes and goes while a   *)
(* message is sent, it reaches nobody else than it is for.                 *)
SocketsAreIndexed ==
  /\ \A key \in DOMAIN indexes :
       indexes[key] # {} /\ indexes[key] = {ws \in Open : key \in KeysOf(sockets[ws].meta)}
  /\ \A ws \in Open : KeysOf(sockets[ws].meta) \subseteq DOMAIN indexes
  /\ \A ws \in sending.targets \cup sending.got : sending.key \in KeysOf(sockets[ws].meta)

(* The client reads the events in the order they were emitted, without a   *)
(* gap, none after an error or the end; all of them, if it stays.  An      *)
(* agent is stuck in a full queue only if the client is gone.              *)
EventsAreInOrder ==
  /\ IsPrefix(reader.got \o stream.queue \o emitter.waiting, emitted)
  /\ Len(reader.got) + Len(stream.queue) + Len(emitter.waiting) = Len(emitted)
  /\ \A i \in 1 .. Len(emitted) - 1 : emitted[i] \notin LastEvents
  /\ reader.at = "ended" => reader.got = emitted
  /\ emitter.waiting # << >> /\ reader.at # "reading" => reader.at = "cancelled"

(* What is on its way to somebody or has arrived there. *)
Told(to) == notice.tasks[to] + notice.delivered[to]

(* What is reported as not sent is sent to nobody; nobody gets a mail that *)
(* is not for them, or one twice; the webhook, which is the same for all,  *)
(* gets a request once for each approver and no more often; and the        *)
(* outcome of an execution is posted only where no mail is sent.           *)
NoticesAreHonest ==
  /\ ~notice.result => \A to \in Receivers : Told(to) = 0
  /\ \A to \in Approvers : Told(to) <= 1 /\ (Told(to) > 0 => to \in notice.whom)
  /\ Told("webhook") <= Cardinality(notice.whom)
  /\ notice.kind # "request" /\ Told("webhook") > 0 => \A to \in Approvers : Told(to) = 0

ChannelsAreSound == SocketsAreIndexed /\ EventsAreInOrder /\ NoticesAreHonest
=============================================================================
