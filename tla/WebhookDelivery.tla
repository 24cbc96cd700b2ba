--------------------------- MODULE WebhookDelivery ---------------------------
(***************************************************************************)
(* The deliveries of one webhook: rows in the database, posts to the       *)
(* endpoint in the middle of the transaction that counts them, retries of  *)
(* what has not been delivered, deletion of the webhook with its history.  *)
(***************************************************************************)
EXTENDS Naturals

CONSTANTS
  Deliveries,    \* identifiers of deliveries
  Deliverers,    \* database sessions that deliver or retry
  NoDelivery,
  MaxAttempts,   \* _MAX_ATTEMPTS
  MaxPosts       \* bound: posts of one delivery

ASSUME WebhookAssumption ==
  MaxAttempts \in Nat \ {0} /\ MaxPosts \in Nat /\ NoDelivery \notin Deliveries

VARIABLES
  enabled,    \* the webhook exists
  delivery,   \* the committed rows, by identifier
  deliverer,  \* each session: what it still has to send, the objects it has
              \* read, the delivery it is posting, the rows it has flushed
  posts,      \* history: posts of each delivery
  accepted,   \* history: those the endpoint took
  disturbed_delivery  \* history: sessions overlapped, or one ended after a post without commit

webhookVars == <<enabled, delivery, deliverer, posts, accepted, disturbed_delivery>>

NoRows == [d \in {} |-> NoDelivery]

Sending(todo, rows, posting, flushed) ==
  [todo |-> todo, rows |-> rows, posting |-> posting, flushed |-> flushed]

AtRest == Sending({}, NoRows, NoDelivery, {})

Busy(s) == deliverer[s] # AtRest

WebhookInit ==
  /\ enabled = TRUE
  /\ delivery = NoRows
  /\ deliverer = [s \in Deliverers |-> AtRest]
  /\ posts = [d \in Deliveries |-> 0]
  /\ accepted = [d \in Deliveries |-> 0]
  /\ disturbed_delivery = FALSE

StartSending(s, rows) ==
  /\ enabled /\ ~Busy(s)
  /\ deliverer' = [deliverer EXCEPT ![s] = Sending(DOMAIN rows, rows, NoDelivery, {})]
  /\ disturbed_delivery' = (disturbed_delivery \/ \E o \in Deliverers : Busy(o))
  /\ UNCHANGED <<enabled, delivery, posts, accepted>>

(* deliver(): an event, or a test event.  The new row is the session's own. *)
Deliver(s) ==
  \E d \in Deliveries :
    /\ posts[d] = 0 /\ \A o \in Deliverers : d \notin deliverer[o].todo
    /\ StartSending(s, [n \in {d} |-> [status |-> "pending", attempts |-> 0]])

(* Mutant of Retryable: everything that is not used up is sent again. *)
RetryableAnyway(row) == row.attempts < MaxAttempts

Retryable(row) == row.status \in {"pending", "failed"} /\ row.attempts < MaxAttempts

(* retry_failed(): next_retry_at is not looked at. *)
RetryFailed(s) ==
  LET due == {d \in DOMAIN delivery : Retryable(delivery[d])} IN
  /\ due # {}
  /\ StartSending(s, [d \in due |-> delivery[d]])

(* Mutant of Counted: the attempt is compared before it is counted. *)
CountedLate(row, ok) ==
  [attempts |-> row.attempts + 1,
   status |-> IF ok THEN "delivered" ELSE IF row.attempts >= MaxAttempts THEN "failed" ELSE "pending"]

Counted(row, ok) ==
  [attempts |-> row.attempts + 1,
   status |-> IF ok THEN "delivered" ELSE IF row.attempts + 1 >= MaxAttempts THEN "failed" ELSE "pending"]

(* The attempt is counted on the object that the session has in hand.      *)
Posting(x, d, seen) ==
  Sending(x.todo, [x.rows EXCEPT ![d] = Counted(x.rows[d], seen)], d, x.flushed)

(* _attempt_delivery() up to the flush: the endpoint takes the post, or    *)
(* refuses it; an answer that does not come may be either.                 *)
PostDelivery(s) ==
  /\ deliverer[s].posting = NoDelivery
  /\ \E d \in deliverer[s].todo, taken \in BOOLEAN, seen \in BOOLEAN :
       /\ posts[d] < MaxPosts
       /\ seen => taken
       /\ deliverer' = [deliverer EXCEPT ![s] = Posting(deliverer[s], d, seen)]
       /\ posts' = [posts EXCEPT ![d] = @ + 1]
       /\ accepted' = [accepted EXCEPT ![d] = IF taken THEN @ + 1 ELSE @]
       /\ disturbed_delivery' = (disturbed_delivery \/ (taken /\ ~seen))
  /\ UNCHANGED <<enabled, delivery>>

(* The flush: it waits for a row another session has flushed. *)
FlushDelivery(s) ==
  LET d == deliverer[s].posting IN
  /\ d # NoDelivery /\ enabled
  /\ \A o \in Deliverers \ {s} : d \notin deliverer[o].flushed
  /\ deliverer' = [deliverer EXCEPT ![s] = Sending(@.todo \ {d}, @.rows, NoDelivery, @.flushed \cup {d})]
  /\ UNCHANGED <<enabled, delivery, posts, accepted, disturbed_delivery>>

CommitDeliveries(s) ==
  LET d == deliverer[s] IN
  /\ Busy(s) /\ d.todo = {}
  /\ delivery' = [i \in d.flushed \cup DOMAIN delivery |->
                   IF i \in d.flushed THEN d.rows[i] ELSE delivery[i]]
  /\ deliverer' = [deliverer EXCEPT ![s] = AtRest]
  /\ UNCHANGED <<enabled, posts, accepted, disturbed_delivery>>

(* The session is rolled back: a crash, a cancelled request, a deadlock, a *)
(* webhook that is gone, or the test route's 400 after it has sent its     *)
(* event to the other endpoints.                                           *)
AbortDeliveries(s) ==
  /\ Busy(s)
  /\ deliverer' = [deliverer EXCEPT ![s] = AtRest]
  /\ disturbed_delivery' = TRUE
  /\ UNCHANGED <<enabled, delivery, posts, accepted>>

(* delete(): the history goes with the webhook, when no row is locked. *)
DeleteWebhook ==
  /\ enabled
  /\ \A s \in Deliverers : deliverer[s].flushed = {}
  /\ enabled' = FALSE
  /\ delivery' = NoRows
  /\ UNCHANGED <<deliverer, posts, accepted, disturbed_delivery>>

WebhookNext ==
  \/ \E s \in Deliverers :
       \/ Deliver(s) \/ RetryFailed(s) \/ PostDelivery(s)
       \/ FlushDelivery(s) \/ CommitDeliveries(s) \/ AbortDeliveries(s)
  \/ DeleteWebhook

WebhookSpec == WebhookInit /\ [][WebhookNext]_webhookVars

-----------------------------------------------------------------------------
(* However sessions overlap: nobody goes beyond the attempts, what failed  *)
(* has used them up and nothing else has, what is marked delivered was     *)
(* taken by the endpoint, and every attempt that is counted was made.      *)
AttemptsAreCounted ==
  \A d \in DOMAIN delivery :
    /\ delivery[d].attempts \in 1 .. MaxAttempts
    /\ delivery[d].status = "failed" => delivery[d].attempts = MaxAttempts
    /\ delivery[d].status = "pending" => delivery[d].attempts < MaxAttempts
    /\ delivery[d].status = "delivered" => accepted[d] > 0
    /\ delivery[d].attempts <= posts[d]

(* As long as sessions follow each other, commit, and hear their answers,  *)
(* no event is taken twice, and the count of attempts is exact.            *)
TakenOnce ==
  ~disturbed_delivery =>
    \A d \in DOMAIN delivery :
      /\ accepted[d] <= 1
      /\ (\A s \in Deliverers : d \notin DOMAIN deliverer[s].rows) =>
           delivery[d].attempts = posts[d]

DeliveriesAreSound == AttemptsAreCounted /\ TakenOnce
=============================================================================
