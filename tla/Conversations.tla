---------------------------- MODULE Conversations ----------------------------
(***************************************************************************)
(* Conversations: the routes that change one, and the spaces in which      *)
(* several people share them.                                              *)
(***************************************************************************)
EXTENDS Integers, Sequences, FiniteSets, SequencesExt, FiniteSetsExt

(***************************************************************************)
(* The routes of a conversation, each in one READ COMMITTED transaction    *)
(* that another may overtake at any await: messages are added, the title   *)
(* and the archive flag are patched, the conversation is deleted.  Next to *)
(* it the memories that are extracted from its turns and recalled for a    *)
(* question.  A request without permission ends where it begins and is     *)
(* left out.                                                               *)
(***************************************************************************)

CONSTANTS
  Talks,           \* sessions of requests on the conversation
  Titles,
  NobodyTalks,     \* nobody holds the lock of the row
  MaxTalks,        \* bound on the requests
  MaxFacts,        \* bound on the memories of the user
  Relevances,      \* scores the model may give, of ten
  TopK

ASSUME ConversationAssumption ==
  /\ NobodyTalks \notin Talks /\ MaxTalks \in Nat /\ MaxFacts \in Nat
  /\ Relevances \subseteq 0 .. 10 /\ TopK \in Nat

VARIABLES
  thread,      \* the committed row: whether it exists, its title, its flag
  messages,       \* its committed messages in the order of their commits
  talk,        \* what each session has read and flushed
  row_lock,    \* the session that has written the row and not ended
  talks,       \* requests so far
  wished,      \* history: the title and the flag that were last asked for, as something new
  facts,       \* the committed memories of the user: the newer, the greater
  dropped,     \* history: those that the user has deleted
  extraction,  \* what the session that extracts has to store, how far it is, and what it has stored
  recollection       \* the memories that a question has fetched, and their scores

threadVars == <<thread, messages, talk, row_lock, talks, wished>>
factVars == <<facts, dropped, extraction, recollection>>
conversationVars == <<thread, messages, talk, row_lock, talks, wished, facts, dropped, extraction, recollection>>

NotTalking == [at |-> "idle"]
NotExtracting == [at |-> "idle", items |-> << >>, next |-> 1, kept |-> {}, aborted |-> FALSE]
NotRecalling == [at |-> "idle"]

ConversationsInit ==
  /\ wished = [title |-> CHOOSE title \in Titles : TRUE, archived |-> FALSE]
  /\ thread = [exists |-> TRUE, title |-> wished.title, archived |-> FALSE]
  /\ messages = << >>
  /\ talk = [s \in Talks |-> NotTalking]
  /\ row_lock = NobodyTalks
  /\ talks = 0
  /\ facts = {} /\ dropped = {}
  /\ extraction = NotExtracting
  /\ recollection = NotRecalling

Session(s, doing) == talk' = [talk EXCEPT ![s] = doing]

(* get_conversation: what the session sees of the row from now on, for its *)
(* identity map is not refreshed.                                          *)
BeginTalk(s, doing) ==
  /\ talk[s] = NotTalking /\ talks < MaxTalks /\ thread.exists
  /\ extraction = NotExtracting
  /\ talks' = talks + 1
  /\ Session(s, doing)
  /\ UNCHANGED <<thread, messages, row_lock, wished, factVars>>

AddMessage(s) == BeginTalk(s, [at |-> "adding", began |-> Len(messages)])

(* A PATCH may leave a field out.                                          *)
UpdateConversation(s) ==
  \E title \in {{}} \cup {{t} : t \in Titles}, archived \in {{}, {TRUE}, {FALSE}} :
    /\ title # {} \/ archived # {}
    /\ BeginTalk(s, [at |-> "patching", seen |-> thread, title |-> title, archived |-> archived])

DeleteConversation(s) == BeginTalk(s, [at |-> "deleting"])

(* The highest number that is committed, and one more.                     *)
ReadNumber(s) ==
  /\ talk[s].at = "adding" /\ thread.exists
  /\ Session(s, [at |-> "numbered", began |-> talk[s].began,
                 number |-> Max({0} \cup {messages[i].number : i \in DOMAIN messages}) + 1])
  /\ UNCHANGED <<thread, messages, row_lock, talks, wished, factVars>>

(* A flush writes the row first, which waits for its lock; a message is    *)
(* inserted after that, and a deletion takes the messages along.           *)
LockRow(s, from, to) ==
  /\ talk[s].at = from /\ thread.exists /\ row_lock = NobodyTalks
  /\ row_lock' = s
  /\ Session(s, [talk[s] EXCEPT !.at = to])
  /\ UNCHANGED <<thread, messages, talks, wished, factVars>>

FlushMessage(s) == LockRow(s, "numbered", "posted")
FlushPatch(s) == LockRow(s, "patching", "patched")
FlushDeletion(s) == LockRow(s, "deleting", "deleted")

(* A row that is gone is not found, or the flush matches no row: 404 or    *)
(* 500, without effect.                                                    *)
MissRow(s) ==
  /\ talk[s].at \in {"adding", "numbered", "patching", "deleting"} /\ ~thread.exists
  /\ Session(s, NotTalking)
  /\ UNCHANGED <<thread, messages, row_lock, talks, wished, factVars>>

(* A field that is set to what the session has seen is no change, and not  *)
(* written.                                                                *)
Changed(asked, seen) == asked # {} /\ asked # {seen}
FieldWritten(asked, seen, committed) == IF Changed(asked, seen) THEN CHOOSE v \in asked : TRUE ELSE committed

EndTalk(s, at) ==
  /\ row_lock = s /\ talk[s].at = at
  /\ row_lock' = NobodyTalks
  /\ Session(s, NotTalking)
  /\ UNCHANGED <<talks, factVars>>

CommitMessage(s) ==
  /\ EndTalk(s, "posted")
  /\ messages' = Append(messages, [number |-> talk[s].number, began |-> talk[s].began])
  /\ UNCHANGED <<thread, wished>>

CommitPatch(s) ==
  /\ EndTalk(s, "patched")
  /\ LET t == talk[s] IN
       /\ thread' = [thread EXCEPT !.title = FieldWritten(t.title, t.seen.title, @),
                                   !.archived = FieldWritten(t.archived, t.seen.archived, @)]
       /\ wished' = [title |-> FieldWritten(t.title, t.seen.title, wished.title),
                     archived |-> FieldWritten(t.archived, t.seen.archived, wished.archived)]
  /\ UNCHANGED messages

CommitDeletion(s) ==
  /\ EndTalk(s, "deleted")
  /\ thread' = [thread EXCEPT !.exists = FALSE]
  /\ messages' = << >>
  /\ UNCHANGED wished

(* An exception, or the client is gone: the transaction is rolled back.    *)
RollbackTalk(s) ==
  /\ talk[s] # NotTalking
  /\ Session(s, NotTalking)
  /\ row_lock' = IF row_lock = s THEN NobodyTalks ELSE row_lock
  /\ UNCHANGED <<thread, messages, talks, wished, factVars>>
-----------------------------------------------------------------------------
(* The model names some memories, each sure enough or not; a call that     *)
(* fails and an answer that is no list come to none.  Nothing is shared    *)
(* with the requests, so the two are not interleaved.                      *)
ExtractFacts ==
  /\ extraction.at = "idle" /\ facts = {} /\ talks = 0
  /\ \E n \in 0 .. MaxFacts : \E items \in [1 .. n -> {"sure", "unsure", "unreadable"}] :
       extraction' = [NotExtracting EXCEPT !.at = "storing", !.items = items]
  /\ UNCHANGED <<threadVars, facts, dropped, recollection>>

Advance(kept, aborted) ==
  extraction' = [extraction EXCEPT !.next = @ + 1, !.kept = kept, !.aborted = aborted]

(* One item after another; the handler goes on after an insert that fails, *)
(* which has aborted the transaction, so that every later one fails too.   *)
StoreFact ==
  /\ extraction.at = "storing" /\ extraction.next \in DOMAIN extraction.items
  /\ LET sure == extraction.items[extraction.next] = "sure"
         kept == extraction.kept
     IN \/ ~sure /\ Advance(kept, extraction.aborted)
        \/ sure /\ ~extraction.aborted /\ Advance(kept \cup {extraction.next}, FALSE)
        \/ sure /\ Advance(kept, TRUE)
  /\ UNCHANGED <<threadVars, facts, dropped, recollection>>

(* The caller commits; the database rolls an aborted transaction back.     *)
EndExtraction ==
  /\ extraction.at = "storing" /\ extraction.next \notin DOMAIN extraction.items
  /\ extraction' = [extraction EXCEPT !.at = "done"]
  /\ facts' = IF extraction.aborted THEN facts ELSE extraction.kept
  /\ UNCHANGED <<threadVars, dropped, recollection>>

(* The elements of a set in an order, which is given as a set of pairs.    *)
InOrder(set, order) ==
  CHOOSE s \in [1 .. Cardinality(set) -> set] : \A j \in DOMAIN s : \A i \in 1 .. j - 1 : <<s[i], s[j]>> \in order

Newer(rows) == {pair \in rows \X rows : pair[1] > pair[2]}

FetchFacts ==
  /\ recollection.at = "idle" /\ facts # {}
  /\ recollection' = [at |-> "scoring", fetched |-> InOrder(facts, Newer(facts)), scores |-> << >>]
  /\ UNCHANGED <<threadVars, facts, dropped, extraction>>

(* One call for each memory; what fails or is no number counts as half.    *)
ScoreFact ==
  /\ recollection.at = "scoring" /\ Len(recollection.scores) < Len(recollection.fetched)
  /\ \E score \in Relevances \cup {5} : recollection' = [recollection EXCEPT !.scores = Append(@, score)]
  /\ UNCHANGED <<threadVars, facts, dropped, extraction>>

(* Places of the fetched memories that are relevant, by falling score; the *)
(* sort is stable.                                                         *)
Relevant(scores) == {i \in DOMAIN scores : scores[i] >= 5}
Better(scores) ==
  {pair \in Relevant(scores) \X Relevant(scores) :
     \/ scores[pair[1]] > scores[pair[2]]
     \/ scores[pair[1]] = scores[pair[2]] /\ pair[1] < pair[2]}
Ranking(scores) == InOrder(Relevant(scores), Better(scores))

RecallFacts ==
  /\ recollection.at = "scoring" /\ Len(recollection.scores) = Len(recollection.fetched)
  /\ LET ranking == Ranking(recollection.scores) IN
       recollection' = [at |-> "done", fetched |-> recollection.fetched, scores |-> recollection.scores,
                        recalled |-> [i \in 1 .. Min({TopK, Len(ranking)}) |-> recollection.fetched[ranking[i]]]]
  /\ UNCHANGED <<threadVars, facts, dropped, extraction>>

DeleteFact ==
  /\ \E fact \in facts : facts' = facts \ {fact} /\ dropped' = dropped \cup {fact}
  /\ UNCHANGED <<threadVars, extraction, recollection>>

ConversationsNext ==
  \/ \E s \in Talks :
       \/ AddMessage(s) \/ ReadNumber(s) \/ FlushMessage(s) \/ CommitMessage(s)
       \/ UpdateConversation(s) \/ FlushPatch(s) \/ CommitPatch(s)
       \/ DeleteConversation(s) \/ FlushDeletion(s) \/ CommitDeletion(s)
       \/ MissRow(s) \/ RollbackTalk(s)
  \/ ExtractFacts \/ StoreFact \/ EndExtraction
  \/ FetchFacts \/ ScoreFact \/ RecallFacts \/ DeleteFact

ConversationsSpec == ConversationsInit /\ [][ConversationsNext]_conversationVars

-----------------------------------------------------------------------------
(* Messages are numbered without a gap from 1, requests that overlap may   *)
(* share a number, and one that began after another message was stored has *)
(* a higher one.  A deleted conversation leaves no message behind.         *)
MessagesAreNumbered ==
  /\ {messages[i].number : i \in DOMAIN messages} = 1 .. Max({0} \cup {messages[i].number : i \in DOMAIN messages})
  /\ \A j \in DOMAIN messages : \A i \in 1 .. messages[j].began : messages[i].number < messages[j].number
  /\ ~thread.exists => messages = << >>

(* Whoever asks for a new title does not undo the archiving that another   *)
(* request has stored meanwhile, nor the other way round.                  *)
PatchesAreKept == thread.title = wished.title /\ thread.archived = wished.archived

(* Every memory that the model named and was sure of is stored and stays   *)
(* until it is deleted; or, after an insert that failed, none is.          *)
FactsAreWhole ==
  extraction.at = "done" =>
    facts = (IF extraction.aborted THEN {} ELSE {i \in DOMAIN extraction.items : extraction.items[i] = "sure"})
              \ dropped

(* A question gets the most relevant of the memories that it fetched, no   *)
(* more than asked for, the better the earlier.                            *)
RecallIsRanked ==
  recollection.at = "done" =>
    LET score(fact) == recollection.scores[CHOOSE i \in DOMAIN recollection.fetched : recollection.fetched[i] = fact]
        recalled == {recollection.recalled[i] : i \in DOMAIN recollection.recalled}
    IN /\ Cardinality(recalled) = Len(recollection.recalled) /\ Len(recollection.recalled) <= TopK
       /\ \A i, j \in DOMAIN recollection.recalled : i < j =>
            score(recollection.recalled[i]) >= score(recollection.recalled[j])
       /\ \A fact \in {recollection.fetched[i] : i \in DOMAIN recollection.fetched} \ recalled :
            \/ score(fact) < 5
            \/ Len(recollection.recalled) = TopK /\ \A other \in recalled : score(fact) <= score(other)

ConversationsAreSound == MessagesAreNumbered /\ PatchesAreKept /\ FactsAreWhole /\ RecallIsRanked

-----------------------------------------------------------------------------
(***************************************************************************)
(* A shared space of SharedSpaceService: its members, and the              *)
(* conversations that they share.  Calls of the service interleave where   *)
(* they await the database: what is checked before may have changed after. *)
(***************************************************************************)

CONSTANTS
  SpaceUsers,      \* users, those of other tenants included
  SpaceTenant,     \* the users of the tenant
  SpaceThreads,    \* the conversations of the tenant
  NoSpace,
  MaxSpaceCalls    \* bound on the calls

ASSUME SpaceAssumption == SpaceTenant \subseteq SpaceUsers /\ NoSpace \notin SpaceUsers /\ MaxSpaceCalls \in Nat

VARIABLES
  creator,     \* created_by, or NoSpace
  space_members,     \* [user, role, by], in the order of their coming
  shared_threads,      \* [thread, by], in the order of their sharing
  space_call,  \* the call of each user that awaits the database
  space_calls, \* calls so far
  ever,        \* history: those who once were owners, and who once might share
  orphaned     \* history: those whose removal left no owner

spaceVars == <<creator, space_members, shared_threads, space_call, space_calls, ever, orphaned>>

NoCall == [op |-> "none"]

SpacesInit ==
  /\ creator = NoSpace
  /\ space_members = << >>
  /\ shared_threads = << >>
  /\ space_call = [u \in SpaceUsers |-> NoCall]
  /\ space_calls = 0
  /\ ever = [owners |-> {}, sharers |-> {}]
  /\ orphaned = {}

MembersAs(list, roles) == {list[i].user : i \in {j \in DOMAIN list : list[j].role \in roles}}
HasMember(u) == u \in MembersAs(space_members, {"owner", "contributor", "viewer"})
CanManageMembers(u) == u \in MembersAs(space_members, {"owner"})
CanShareConversations(u) == u \in MembersAs(space_members, {"owner", "contributor"})

(* The record of who has had which rights.                                 *)
Remember ==
  ever' = [owners |-> ever.owners \cup MembersAs(space_members', {"owner"}),
           sharers |-> ever.sharers \cup MembersAs(space_members', {"owner", "contributor"})]

Calling(u, call) ==
  /\ space_calls < MaxSpaceCalls /\ space_call[u] = NoCall
  /\ space_calls' = space_calls + 1
  /\ space_call' = [space_call EXCEPT ![u] = call]

(* Nothing is checked before the creator has been looked up. *)
CreateSpace(u) ==
  /\ creator = NoSpace /\ u \in SpaceTenant
  /\ creator' = u
  /\ space_members' = <<[user |-> u, role |-> "owner", by |-> u]>>
  /\ Remember
  /\ UNCHANGED <<shared_threads, space_call, space_calls, orphaned>>

(* An owner asks; then the new user is looked up. *)
AddMember(u, new, role) ==
  /\ CanManageMembers(u)
  /\ Calling(u, [op |-> "add", user |-> new, role |-> role])
  /\ UNCHANGED <<creator, space_members, shared_threads, ever, orphaned>>

Return(u) == space_call' = [space_call EXCEPT ![u] = NoCall] /\ UNCHANGED <<creator, space_calls, orphaned>>

MemberLookedUp(u) ==
  /\ space_call[u].op = "add"
  /\ LET new == space_call[u].user IN
       space_members' = IF new \in SpaceTenant /\ ~HasMember(new)
                  THEN Append(space_members, [user |-> new, role |-> space_call[u].role, by |-> u]) ELSE space_members
  /\ Remember
  /\ Return(u)
  /\ UNCHANGED shared_threads

(* The list without a user. *)
WithoutMember(list, u) ==
  LET stay == {i \in DOMAIN list : list[i].user # u}
      places == InOrder(stay, {pair \in stay \X stay : pair[1] < pair[2]})
  IN [k \in 1 .. Cardinality(stay) |-> list[places[k]]]

(* The creator stays as long as there is no second owner; another owner    *)
(* may leave, and be the last.                                             *)
MayBeRemoved(u) == u = creator => Cardinality({i \in DOMAIN space_members : space_members[i].role = "owner"}) > 1

RemoveMember(u, old) ==
  /\ CanManageMembers(u) /\ space_call[u] = NoCall /\ space_calls < MaxSpaceCalls
  /\ MayBeRemoved(old) /\ HasMember(old)
  /\ space_members' = WithoutMember(space_members, old)
  /\ space_calls' = space_calls + 1
  /\ orphaned' = IF MembersAs(space_members', {"owner"}) = {} THEN orphaned \cup {old} ELSE orphaned
  /\ UNCHANGED <<creator, shared_threads, space_call, ever>>

ShareConversation(u, c) ==
  /\ CanShareConversations(u)
  /\ Calling(u, [op |-> "share", thread |-> c])
  /\ UNCHANGED <<creator, space_members, shared_threads, ever, orphaned>>

ThreadLookedUp(u) ==
  /\ space_call[u].op = "share"
  /\ LET c == space_call[u].thread IN
       shared_threads' = IF \A i \in DOMAIN shared_threads : shared_threads[i].thread # c
                 THEN Append(shared_threads, [thread |-> c, by |-> u]) ELSE shared_threads
  /\ Return(u)
  /\ UNCHANGED <<space_members, ever>>

(* The lookup fails, or finds a row of another tenant or none. *)
LookupFails(u) ==
  /\ space_call[u] # NoCall
  /\ Return(u)
  /\ UNCHANGED <<space_members, shared_threads, ever>>

SpacesNext ==
  \E u \in SpaceUsers :
    \/ CreateSpace(u) \/ MemberLookedUp(u) \/ ThreadLookedUp(u) \/ LookupFails(u)
    \/ \E other \in SpaceUsers :
         RemoveMember(u, other) \/ \E role \in {"owner", "contributor", "viewer"} : AddMember(u, other, role)
    \/ \E c \in SpaceThreads : ShareConversation(u, c)

SpacesSpec == SpacesInit /\ [][SpacesNext]_spaceVars

-----------------------------------------------------------------------------
(* However calls overlap, nobody is twice a member and nothing is shared   *)
(* twice.                                                                  *)
NothingIsDoubled ==
  /\ \A i, j \in DOMAIN space_members : i # j => space_members[i].user # space_members[j].user
  /\ \A i, j \in DOMAIN shared_threads : i # j => shared_threads[i].thread # shared_threads[j].thread

(* Members are of the tenant and were added by one who was an owner, be it *)
(* that he is no more; the same holds of what is shared.                   *)
SpacesAreGranted ==
  /\ \A i \in DOMAIN space_members : space_members[i].user \in SpaceTenant /\ space_members[i].by \in ever.owners
  /\ \A i \in DOMAIN shared_threads : shared_threads[i].by \in ever.sharers

(* It is never the creator whose removal leaves a space without an owner.  *)
CreatorIsProtected == creator \notin orphaned

SpacesAreShared == NothingIsDoubled /\ SpacesAreGranted /\ CreatorIsProtected
=============================================================================
